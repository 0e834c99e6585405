---------------------------- MODULE SubxtProofs ----------------------------
(***************************************************************************)
(* Proofs about Subxt for every tree of blocks, set of tasks and upgrade;  *)
(* then about KeyIter for every chain, page size and number of failures,   *)
(* about Commands for all users, codes and lines, and about Requests for   *)
(* every metadata a node may answer: each time the inductive invariant and *)
(* what it implies.                                                        *)
(***************************************************************************)
EXTENDS Subxt, KeyIter, Commands, Requests, FiniteSetTheorems, SequenceTheorems,
        WellFoundedInduction, TLAPS

(* Queues: what is in them after a message was added or taken.             *)
LEMMA Added ==
  ASSUME NEW S, NEW s \in Seq(S), NEW x \in S
  PROVE  /\ Append(s, x) \in Seq(S) /\ Append(s, x) # <<>>
         /\ ToSet(Append(s, x)) = ToSet(s) \cup {x}
  <1>a. Append(s, x) \in Seq(S) /\ Len(Append(s, x)) = Len(s) + 1 /\ Len(s) \in Nat
    OBVIOUS
  <1>1. Append(s, x) \in Seq(S) /\ Append(s, x) # <<>>
    BY <1>a
  <1>2. /\ DOMAIN Append(s, x) = DOMAIN s \cup {Len(s) + 1}
        /\ Append(s, x)[Len(s) + 1] = x
        /\ \A i \in DOMAIN s : Append(s, x)[i] = s[i] /\ i # Len(s) + 1
    OBVIOUS
  <1>3. ToSet(Append(s, x)) = ToSet(s) \cup {x}
    BY <1>2 DEF ToSet
  <1>4. QED
    BY <1>1, <1>3

LEMMA Taken ==
  ASSUME NEW S, NEW s \in Seq(S), s # <<>>
  PROVE  /\ Head(s) \in S /\ Head(s) \in ToSet(s)
         /\ Tail(s) \in Seq(S) /\ ToSet(Tail(s)) \subseteq ToSet(s)
  <1>1. Head(s) = s[1] /\ 1 \in DOMAIN s /\ s[1] \in S /\ Tail(s) \in Seq(S)
    OBVIOUS
  <1>2. \A i \in DOMAIN Tail(s) : i + 1 \in DOMAIN s /\ Tail(s)[i] = s[i + 1]
    OBVIOUS
  <1>3. QED
    BY <1>1, <1>2 DEF ToSet

LEMMA Short ==
  ASSUME NEW S, NEW s \in Seq(S), Len(s) <= 2
  PROVE  DOMAIN s = 1 .. Len(s) /\ Len(s) \in 0 .. 2
  <1>1. DOMAIN s = 1 .. Len(s) /\ Len(s) \in Nat
    OBVIOUS
  <1>2. QED
    BY <1>1

LEMMA Least ==
  ASSUME NEW S, S \subseteq {1, 2}, S # {}
  PROVE  Min(S) \in S
  <1>1. CASE 1 \in S
    <2>1. \A k \in S : 1 <= k
      OBVIOUS
    <2>2. QED
      BY <1>1, <2>1 DEF Min
  <1>2. CASE 1 \notin S
    <2>1. S = {2}
      BY <1>2
    <2>2. 2 \in S /\ \A k \in S : 2 <= k
      BY <2>1
    <2>3. QED
      BY <2>2 DEF Min
  <1>3. QED
    BY <1>1, <1>2

LEMMA Joined ==
  ASSUME NEW S, NEW s \in Seq(S), NEW u \in Seq(S)
  PROVE  /\ s \o u \in Seq(S)
         /\ ToSet(s \o u) = ToSet(s) \cup ToSet(u)
  <1>1. s \o u \in Seq(S)
    OBVIOUS
  <1>2. /\ DOMAIN (s \o u) = 1 .. Len(s) + Len(u) /\ DOMAIN s = 1 .. Len(s) /\ DOMAIN u = 1 .. Len(u)
        /\ \A i \in DOMAIN s : (s \o u)[i] = s[i] /\ i \in DOMAIN (s \o u)
        /\ \A i \in DOMAIN u : (s \o u)[Len(s) + i] = u[i] /\ Len(s) + i \in DOMAIN (s \o u)
    OBVIOUS
  <1>3. \A i \in DOMAIN (s \o u) : (s \o u)[i] \in ToSet(s) \cup ToSet(u)
    <2>1. SUFFICES ASSUME NEW i \in DOMAIN (s \o u) PROVE (s \o u)[i] \in ToSet(s) \cup ToSet(u)
      OBVIOUS
    <2>2. CASE i <= Len(s)
      BY <1>2, <2>2 DEF ToSet
    <2>3. CASE i > Len(s)
      <3>1. i - Len(s) \in DOMAIN u /\ Len(s) + (i - Len(s)) = i
        BY <1>2, <2>3
      <3>2. (s \o u)[i] = u[i - Len(s)]
        BY <1>2, <3>1
      <3>3. QED
        BY <3>1, <3>2 DEF ToSet
    <2>4. QED
      BY <2>2, <2>3, <1>2
  <1>4. ToSet(s \o u) \subseteq ToSet(s) \cup ToSet(u)
    BY <1>3 DEF ToSet
  <1>5. ToSet(s) \subseteq ToSet(s \o u) /\ ToSet(u) \subseteq ToSet(s \o u)
    BY <1>2 DEF ToSet
  <1>6. QED
    BY <1>1, <1>4, <1>5

(* The elements of a finite set in some order.                             *)
LEMMA Ordered ==
  ASSUME NEW S, IsFiniteSet(S)
  PROVE  SetToSeq(S) \in Seq(S) /\ ToSet(SetToSeq(S)) \subseteq S
  <1>1. Cardinality(S) \in Nat /\ ExistsBijection(1 .. Cardinality(S), S)
    BY FS_CardinalityType
  <1>2. PICK f \in Bijection(1 .. Cardinality(S), S) : TRUE
    BY <1>1 DEF ExistsBijection
  <1>3. f \in [1 .. Cardinality(S) -> S] /\ IsInjective(f)
    BY <1>2 DEF Bijection, Injection, IsInjective
  <1>4. SetToSeq(S) \in [1 .. Cardinality(S) -> S]
    BY <1>3 DEF SetToSeq
  <1>5. SetToSeq(S) \in Seq(S)
    BY <1>1, <1>4
  <1>6. QED
    BY <1>4, <1>5 DEF ToSet

-----------------------------------------------------------------------------
(* Steps that leave parts of the state as they are.                        *)

LEMMA NothingSigned ==
  ASSUME SIInv, UNCHANGED <<chain, client, signed>>
  PROVE  ClientAgrees' /\ SignedAgree' /\ ChainAgrees' /\ NoncesAgree'
  <1> USE DEF SIInv
  <1>1. ClientAgrees'
    BY DEF ClientAgrees
  <1>2. SignedAgree'
    BY DEF SignedAgree, built, encode, By
  <1>3. ChainAgrees'
    BY DEF ChainAgrees, Runtime
  <1>4. NoncesAgree'
    BY DEF NoncesAgree, Holds
  <1>5. QED
    BY <1>1, <1>2, <1>3, <1>4

(* A reason does not go away while its task holds on to the extrinsic.     *)
LEMMA ReasonStays ==
  ASSUME NEW t \in Tasks, Reason(t), xt'[t] = xt[t],
         client'["runtime_version"][2] = client["runtime_version"][2],
         signed \subseteq signed',
         \A b \in DOMAIN chain : b \in DOMAIN chain' /\ chain'[b].version = chain[b].version
  PROVE  Reason(t)'
  BY DEF Reason

LEMMA InitSIInv == SInit => SIInv
  <1> SUFFICES ASSUME SInit PROVE SIInv
    OBVIOUS
  <1> USE SubxtAssumption DEF SInit
  <1>0. /\ DOMAIN chain = {1} /\ chain[1] = Origin /\ Len(chain) = 1 /\ chain # <<>>
        /\ DOMAIN chain[1].xts = {} /\ Len(chain[1].xts) = 0 /\ chain[1].line = {1}
        /\ 1 \in DOMAIN Index
    BY DEF Origin
  <1>1. STypeOK
    BY <1>0 DEF STypeOK, Genesis, ToSet
  <1>2. ClientAgrees
    BY DEF ClientAgrees, Answers, None, Requests
  <1>3. SignedAgree
    BY FS_EmptySet DEF SignedAgree
  <1>4. ChainAgrees
    <2>1. Origin \in Blocks
      BY DEF Origin, Blocks
    <2>2. chain \in Seq(Blocks)
      BY <2>1
    <2>3. QED
      BY <1>0, <2>2 DEF ChainAgrees, Origin
  <1>5. NoncesAgree
    <2>1. \A a \in Accounts : chain[1].nonce[a] = 0
      BY <1>0 DEF Origin
    <2>2. QED
      BY <1>0, <2>1 DEF NoncesAgree, Holds
  <1>6. PoolAgrees
    BY DEF PoolAgrees
  <1>7. TasksAgree
    BY DEF TasksAgree
  <1>8. QueuesAgree
    BY DEF QueuesAgree, ToSet
  <1>9. InvalidForAReason
    BY DEF InvalidForAReason, None
  <1>10. QED
    BY <1>1, <1>2, <1>3, <1>4, <1>5, <1>6, <1>7, <1>8, <1>9 DEF SIInv

(* A task that ends, and drops its subscriptions.                          *)
LEMMA EndSIInv ==
  ASSUME SIInv, NEW t \in Tasks, NEW told, End(t, told),
         UNCHANGED <<node, client, xt, signed>>,
         built, told = <<"error", "Invalid">> => Reason(t),
         DOMAIN signer' = Tasks, \A u \in Tasks : signer'[u] \in {None} \cup ({"nonce"} \X Nat)
  PROVE  SIInv'
  <1> USE DEF SIInv, End, Set, node
  <1>1. ClientAgrees' /\ SignedAgree' /\ ChainAgrees' /\ NoncesAgree'
    BY NothingSigned
  <1>a. DOMAIN pc = Tasks /\ DOMAIN result = Tasks /\ DOMAIN target = Tasks
    BY DEF TasksAgree
  <1>b. DOMAIN events_sub = Tasks /\ DOMAIN xt_sub = Tasks
    BY DEF QueuesAgree
  <1>c. /\ pc'[t] = "idle" /\ result'[t] = told /\ target'[t] = <<0, 0>>
        /\ events_sub'[t] = <<>> /\ xt_sub'[t] = <<>>
        /\ \A u \in Tasks \ {t} : /\ pc'[u] = pc[u] /\ result'[u] = result[u] /\ target'[u] = target[u]
                                  /\ events_sub'[u] = events_sub[u] /\ xt_sub'[u] = xt_sub[u]
    BY <1>a, <1>b
  <1>d. \A u \in Tasks : Reason(u) => Reason(u)'
    BY DEF Reason
  <1>2. STypeOK'
    BY <1>c DEF STypeOK, ToSet
  <1>3. PoolAgrees'
    BY DEF PoolAgrees, Holds
  <1>4. TasksAgree'
    <2>1. DOMAIN pc' = Tasks /\ DOMAIN result' = Tasks /\ DOMAIN target' = Tasks
      BY <1>a
    <2>2. QED
      BY <1>c, <2>1 DEF TasksAgree, Holds, built
  <1>5. QueuesAgree'
    <2>1. DOMAIN events_sub' = Tasks /\ DOMAIN xt_sub' = Tasks
      BY <1>b
    <2>2. \A u \in Tasks \ {t} : <<"Invalid">> \in ToSet(xt_sub'[u]) => Reason(u)'
      BY <1>c, <1>d DEF QueuesAgree
    <2>3. ToSet(<<>>) = {}
      BY DEF ToSet
    <2>4. Statuses' = Statuses
      BY DEF Statuses
    <2>5. QED
      BY <1>c, <2>1, <2>2, <2>3, <2>4 DEF QueuesAgree
  <1>6. InvalidForAReason'
    BY <1>c, <1>d DEF InvalidForAReason
  <1>7. QED
    BY <1>1, <1>2, <1>3, <1>4, <1>5, <1>6

LEMMA FailSIInv ==
  ASSUME SIInv, NEW t \in Tasks, NEW why, Fail(t, why), built, why = "Invalid" => Reason(t)
  PROVE  SIInv'
  <1>1. \A u \in Tasks : signer'[u] \in {None} \cup ({"nonce"} \X Nat)
    BY DEF SIInv, TasksAgree, Fail
  <1>2. DOMAIN signer' = Tasks
    BY DEF SIInv, TasksAgree, Fail
  <1>3. <<"error", why>> = <<"error", "Invalid">> => Reason(t)
    OBVIOUS
  <1>4. End(t, <<"error", why>>) /\ UNCHANGED <<node, client, xt, signed>>
    BY DEF Fail
  <1>5. QED
    BY <1>1, <1>2, <1>3, <1>4, EndSIInv

LEMMA WellTyped ==
  ASSUME ChainAgrees, NEW b \in DOMAIN chain
  PROVE  /\ chain[b] \in Blocks /\ chain[b].version \in Nat /\ chain[b].parent \in Nat
         /\ chain[b].nonce \in [Accounts -> Nat] /\ chain[b].line \in SUBSET Nat
         /\ chain[b].xts \in Seq(Xts)
  <1>1. chain[b] \in Blocks
    BY DEF ChainAgrees
  <1>2. QED
    BY <1>1 DEF Blocks

LEMMA InChain ==
  ASSUME ChainAgrees, NEW b \in DOMAIN chain
  PROVE  chain[b].line \subseteq DOMAIN chain
  <1>1. DOMAIN chain = 1 .. Len(chain) /\ Len(chain) \in Nat /\ chain[b].line \subseteq 1 .. b
    BY DEF ChainAgrees
  <1>2. QED
    BY <1>1

(* A task that is under way has a client.                                  *)
LEMMA UnderWay ==
  ASSUME SIInv, NEW t \in Tasks, pc[t] # "idle"
  PROVE  built /\ xt[t] \in signed /\ xt[t] \in Xts
  BY DEF SIInv, STypeOK, SignedAgree

LEMMA disconnectSIInv ==
  ASSUME SIInv, disconnect
  PROVE  SIInv'
  <1> USE DEF SIInv, disconnect, node, task
  <1>1. ClientAgrees' /\ SignedAgree' /\ ChainAgrees' /\ NoncesAgree'
    BY NothingSigned
  <1>2. STypeOK' /\ PoolAgrees' /\ TasksAgree'
    BY DEF STypeOK, PoolAgrees, TasksAgree, Holds, built
  <1>3. QueuesAgree' /\ InvalidForAReason'
    BY DEF QueuesAgree, InvalidForAReason, Reason, Statuses
  <1>4. QED
    BY <1>1, <1>2, <1>3

(* Nothing was signed and nobody is under way before the client is built.  *)
LEMMA askSIInv ==
  ASSUME SIInv, NEW q \in Requests, ask(q)
  PROVE  SIInv'
  <1> USE DEF SIInv, node, task
  <1>0. /\ UNCHANGED <<chain, best, pool, pc, signer, xt, events_sub, xt_sub, target, result, signed>>
        /\ client[q] = None /\ client \in [Requests -> Answers]
    BY DEF ask, ClientAgrees
  <1>a. PICK a \in Answers : client' = [client EXCEPT ![q] = a] /\ a \in {<<"ok", answer(q)>>, <<"error">>}
    <2>1. answer(q) \in Nat
      <3>1. chain[best].version \in Nat
        BY WellTyped DEF STypeOK
      <3>2. QED
        BY <3>1 DEF answer, Genesis
    <2>2. <<"ok", answer(q)>> \in Answers /\ <<"error">> \in Answers
      BY <2>1 DEF Answers
    <2>3. QED
      BY <2>2 DEF ask
  <1>b. ~built
    BY <1>0 DEF built
  <1>c. signed = {} /\ \A t \in Tasks : pc[t] = "idle" /\ result[t] = None
    BY <1>b DEF SignedAgree, STypeOK, TasksAgree
  <1>1. ClientAgrees'
    <2>1. client' \in [Requests -> Answers] /\ client'[q] = a /\ \A r \in Requests \ {q} : client'[r] = client[r]
      BY <1>0, <1>a
    <2>2. chain[best].version \in DOMAIN Index
      BY DEF ChainAgrees, STypeOK
    <2>3. a[1] = "ok" => a[2] = answer(q)
      BY <1>a
    <2>4. q = "genesis_hash" => answer(q) = Genesis
      BY DEF answer
    <2>5. q \in {"metadata", "runtime_version"} => answer(q) = chain[best].version
      BY DEF answer
    <2>6. QED
      BY <2>1, <2>2, <2>3, <2>4, <2>5 DEF ClientAgrees, Requests
  <1>2. SignedAgree'
    BY <1>0, <1>c DEF SignedAgree
  <1>3. ChainAgrees' /\ NoncesAgree' /\ PoolAgrees'
    <2>1. ChainAgrees'
      BY <1>0 DEF ChainAgrees, Runtime
    <2>2. NoncesAgree'
      BY <1>0 DEF NoncesAgree, Holds
    <2>3. PoolAgrees'
      BY <1>0 DEF PoolAgrees, Holds
    <2>4. QED
      BY <2>1, <2>2, <2>3
  <1>4. STypeOK' /\ TasksAgree'
    BY <1>0, <1>c DEF STypeOK, TasksAgree, Holds
  <1>5. QueuesAgree'
    <2>1. \A t \in Tasks : xt_sub[t] = <<>>
      BY <1>c DEF QueuesAgree
    <2>2. ToSet(<<>>) = {}
      BY DEF ToSet
    <2>3. QED
      BY <1>0, <1>c, <2>1, <2>2 DEF QueuesAgree, Statuses
  <1>6. InvalidForAReason'
    BY <1>0, <1>c DEF InvalidForAReason, None
  <1>7. QED
    BY <1>1, <1>2, <1>3, <1>4, <1>5, <1>6

LEMMA set_nonceSIInv ==
  ASSUME SIInv, NEW t \in Tasks, NEW n \in Nonces[t], set_nonce(t, n)
  PROVE  SIInv'
  <1> USE SubxtAssumption DEF SIInv, set_nonce, Set, node
  <1>1. ClientAgrees' /\ SignedAgree' /\ ChainAgrees' /\ NoncesAgree'
    BY NothingSigned
  <1>2. STypeOK' /\ PoolAgrees'
    BY DEF STypeOK, PoolAgrees, Holds
  <1>3. TasksAgree'
    <2>1. DOMAIN signer' = Tasks /\ \A u \in Tasks : signer'[u] \in {None} \cup ({"nonce"} \X Nat)
      BY DEF TasksAgree
    <2>2. QED
      BY <2>1 DEF TasksAgree, Holds, built
  <1>4. QueuesAgree' /\ InvalidForAReason'
    BY DEF QueuesAgree, InvalidForAReason, Reason, Statuses
  <1>5. QED
    BY <1>1, <1>2, <1>3, <1>4

(* A task signs with what its client knows.                                *)
LEMMA signSIInv ==
  ASSUME SIInv, NEW t \in Tasks, sign(t)
  PROVE  SIInv'
  <1> USE SubxtAssumption DEF SIInv
  <1>0. built /\ pc[t] = "idle"
    BY DEF sign
  <1>1. CASE Fail(t, "account")
    BY <1>0, <1>1, FailSIInv
  <1>2. CASE Fail(t, "metadata")
    BY <1>0, <1>2, FailSIInv
  <1>3. CASE /\ signer[t] # None \/ connected
             /\ Call[t] \in DOMAIN Index[client["metadata"][2]]
             /\ LET x == create_signed(t, IF signer[t] # None THEN signer[t][2] ELSE chain[best].nonce[Account[t]])
                IN Set(xt, t, x) /\ signed' = signed \cup {x}
             /\ Set(pc, t, "signed") /\ Set(result, t, None)
             /\ UNCHANGED <<node, connected, client, signer, events_sub, xt_sub, target>>
    <2> DEFINE n == IF signer[t] # None THEN signer[t][2] ELSE chain[best].nonce[Account[t]]
               v == client["runtime_version"][2]
    <2>x. PICK x : x = create_signed(t, n)
      OBVIOUS
    <2>0. /\ xt' = [xt EXCEPT ![t] = x] /\ signed' = signed \cup {x}
          /\ pc' = [pc EXCEPT ![t] = "signed"] /\ result' = [result EXCEPT ![t] = None]
          /\ UNCHANGED <<chain, best, pool, client, signer, events_sub, xt_sub, target>>
          /\ Call[t] \in DOMAIN Index[client["metadata"][2]]
      BY <1>3, <2>x DEF Set, node
    <2>1. n \in Nat
      <3>1. Account[t] \in Accounts /\ best \in DOMAIN chain
        BY DEF STypeOK
      <3>2. chain[best].nonce[Account[t]] \in Nat
        BY <3>1, WellTyped
      <3>3. signer[t] # None => signer[t][2] \in Nat
        BY DEF TasksAgree
      <3>4. QED
        BY <3>2, <3>3
    <2>2. v \in DOMAIN Index /\ client["metadata"][2] \in DOMAIN Index /\ client["genesis_hash"][2] = Genesis
      BY <1>0 DEF built, ClientAgrees, Requests
    <2>3. /\ x.id = <<t, Cardinality(By(t))>> /\ x.account = Account[t] /\ x.call = encode(Call[t])
          /\ x.nonce = n /\ x.additional = <<v, v + 10, Genesis, Genesis>>
      BY <2>2, <2>x DEF create_signed, Signed, extra, additional_signed, By
    <2>4. IsFiniteSet(By(t)) /\ Cardinality(By(t)) \in Nat
      <3>1. By(t) \subseteq signed
        BY DEF By
      <3>2. QED
        BY <3>1, FS_Subset, FS_CardinalityType DEF SignedAgree
    <2>5. x \in Xts
      <3>1. x = [id |-> <<t, Cardinality(By(t))>>, account |-> Account[t], call |-> encode(Call[t]),
                 nonce |-> n, additional |-> <<v, v + 10, Genesis, Genesis>>]
        BY <2>2, <2>x DEF create_signed, Signed, extra, additional_signed, By
      <3>2. encode(Call[t]) \in Nat
        BY <2>0, <2>2 DEF encode
      <3>3. <<v, v + 10, Genesis, Genesis>> \in Nat \X Nat \X Nat \X Nat
        BY <2>2 DEF Genesis
      <3>4. Account[t] \in Accounts
        OBVIOUS
      <3> HIDE DEF n, v
      <3>5. QED
        BY <2>1, <2>4, <3>1, <3>2, <3>3, <3>4 DEF Xts
    <2> HIDE DEF n, v
    <2>6. x \notin signed
      <3>1. SUFFICES ASSUME x \in signed PROVE FALSE
        OBVIOUS
      <3>2. x.id[1] = t /\ x.id[2] = Cardinality(By(t))
        BY <2>3
      <3>3. x.id[2] < Cardinality(By(t))
        BY <3>1, <3>2 DEF SignedAgree
      <3>4. QED
        BY <3>2, <3>3, <2>4
    <2>7. ClientAgrees' /\ STypeOK'
      <3>1. ClientAgrees'
        BY <2>0 DEF ClientAgrees
      <3>2. DOMAIN pc = Tasks /\ DOMAIN xt = Tasks
        BY DEF TasksAgree
      <3>3. QED
        BY <2>0, <3>1, <3>2 DEF STypeOK
    <2>8. SignedAgree'
      <3>1. IsFiniteSet(signed') /\ signed' \subseteq Xts
        BY <2>0, <2>5, FS_AddElement DEF SignedAgree
      <3>2. By(t)' = By(t) \cup {x} /\ x \notin By(t)
        BY <2>0, <2>3, <2>6 DEF By
      <3>3. Cardinality(By(t)') = Cardinality(By(t)) + 1
        BY <2>4, <3>2, FS_AddElement
      <3>4. \A u \in Tasks \ {t} : By(u)' = By(u)
        BY <2>0, <2>3 DEF By
      <3>5. \A y \in signed : y.id[1] \in Tasks /\ y.id[2] \in Nat
        BY DEF SignedAgree, Xts
      <3>6. \A y \in signed' : y.id[2] < Cardinality(By(y.id[1])')
        <4>1. ASSUME NEW y \in signed PROVE y.id[2] < Cardinality(By(y.id[1])')
          <5>1. y.id[2] < Cardinality(By(y.id[1]))
            BY DEF SignedAgree
          <5>2. CASE y.id[1] = t
            BY <5>1, <5>2, <3>3, <3>5, <2>4
          <5>3. CASE y.id[1] # t
            BY <5>1, <5>3, <3>4, <3>5
          <5>4. QED
            BY <5>2, <5>3
        <4>2. x.id[2] < Cardinality(By(x.id[1])')
          BY <2>3, <2>4, <3>3
        <4>3. QED
          BY <4>1, <4>2, <2>0
      <3>7. x.id[1] = t
        BY <2>3
      <3>8. \A y \in signed' :
               LET u == y.id[1]
               IN /\ built' /\ Call[u] \in DOMAIN Index[client'["metadata"][2]] /\ y.call = encode(Call[u])'
                  /\ y.additional = <<v, v + 10, Genesis, Genesis>>
        BY <1>0, <2>0, <2>3, <3>7 DEF SignedAgree, built, encode, v
      <3>9. v = client'["runtime_version"][2]
        BY <2>0 DEF v
      <3>10. QED
        BY <3>1, <3>6, <3>8, <3>9 DEF SignedAgree
    <2>9. ChainAgrees'
      BY <2>0 DEF ChainAgrees, Runtime
    <2>10. \A c \in DOMAIN chain : ~Holds(c, x)
      BY <2>6 DEF ChainAgrees, Holds
    <2>11. NoncesAgree'
      <3>1. \A c, y : Holds(c, y)' = Holds(c, y)
        BY <2>0 DEF Holds
      <3>2. \A b \in DOMAIN chain : chain[b].line \subseteq DOMAIN chain
        BY InChain
      <3>3. ASSUME NEW b \in DOMAIN chain, NEW c \in chain[b].line, NEW d \in chain[b].line, NEW y \in signed',
                   Holds(c, y), Holds(d, y)
            PROVE  c = d
        BY <2>0, <2>10, <3>2, <3>3 DEF NoncesAgree
      <3>4. \A b \in DOMAIN chain' : \A c, d \in chain'[b].line, y \in signed' : Holds(c, y)' /\ Holds(d, y)' => c = d
        BY <2>0, <3>1, <3>3
      <3>5. QED
        BY <2>0, <3>4 DEF NoncesAgree
    <2>12. PoolAgrees'
      BY <2>0 DEF PoolAgrees, Holds
    <2>13. TasksAgree'
      <3>1. x \notin pool
        BY <2>6 DEF STypeOK
      <3>2. x.id[1] = t
        BY <2>3
      <3>3. /\ DOMAIN xt' = Tasks /\ DOMAIN pc' = Tasks /\ DOMAIN result' = Tasks
            /\ xt'[t] = x /\ pc'[t] = "signed" /\ result'[t] = None
            /\ \A u \in Tasks \ {t} : xt'[u] = xt[u] /\ pc'[u] = pc[u] /\ result'[u] = result[u]
        BY <2>0 DEF TasksAgree
      <3>4. built' = built
        BY <2>0 DEF built
      <3>5. \A c, y : Holds(c, y)' = Holds(c, y)
        BY <2>0 DEF Holds
      <3>6. QED
        BY <2>0, <2>10, <3>1, <3>2, <3>3, <3>4, <3>5 DEF TasksAgree
    <2>14. \A u \in Tasks \ {t} : Reason(u) => Reason(u)'
      <3>1. \A u \in Tasks \ {t} : xt'[u] = xt[u]
        BY <2>0 DEF TasksAgree
      <3>2. QED
        BY <2>0, <3>1 DEF Reason
    <2>15. QueuesAgree'
      <3>1. xt_sub'[t] = <<>> /\ ToSet(<<>>) = {}
        BY <1>0, <2>0 DEF QueuesAgree, ToSet
      <3>2. pc'[t] = "signed" /\ \A u \in Tasks \ {t} : pc'[u] = pc[u]
        BY <2>0 DEF TasksAgree
      <3>3. QED
        BY <2>0, <2>14, <3>1, <3>2 DEF QueuesAgree, Statuses
    <2>16. InvalidForAReason'
      <3>1. result'[t] = None /\ \A u \in Tasks \ {t} : result'[u] = result[u]
        BY <2>0 DEF TasksAgree
      <3>2. None # <<"error", "Invalid">>
        BY DEF None
      <3>3. QED
        BY <2>14, <3>1, <3>2 DEF InvalidForAReason
    <2>17. QED
      BY <2>7, <2>8, <2>9, <2>11, <2>12, <2>13, <2>15, <2>16
  <1>4. QED
    BY <1>1, <1>2, <1>3 DEF sign

(* What the best block finds stale was signed for another runtime, or with *)
(* a nonce that another extrinsic of its line has.                         *)
LEMMA StaleHasReason ==
  ASSUME SIInv, NEW t \in Tasks, xt[t] \in signed, Stale(xt[t], best),
         \A c \in chain[best].line : ~Holds(c, xt[t])
  PROVE  Reason(t)
  <1> USE DEF SIInv
  <1> DEFINE x == xt[t]  v == client["runtime_version"][2]
  <1>0. best \in DOMAIN chain /\ x \in Xts /\ x.additional = <<v, v + 10, Genesis, Genesis>>
    BY DEF STypeOK, SignedAgree
  <1>1. CASE x.additional # Runtime(best)
    <2>1. chain[best].version # v
      BY <1>0, <1>1 DEF Runtime
    <2>2. QED
      BY <1>0, <2>1 DEF Reason
  <1>2. CASE x.nonce < chain[best].nonce[x.account]
    <2>1. x.account \in Accounts /\ x.nonce \in Nat
      BY <1>0 DEF Xts
    <2>2. chain[best].nonce[x.account] \in Nat
      BY <1>0, <2>1, WellTyped
    <2>3. x.nonce \in 0 .. (chain[best].nonce[x.account] - 1)
      BY <1>2, <2>1, <2>2
    <2>4. PICK c \in chain[best].line : \E i \in DOMAIN chain[c].xts :
             chain[c].xts[i].account = x.account /\ chain[c].xts[i].nonce = x.nonce
      BY <1>0, <2>1, <2>3 DEF NoncesAgree
    <2>5. PICK i \in DOMAIN chain[c].xts :
             chain[c].xts[i].account = x.account /\ chain[c].xts[i].nonce = x.nonce
      BY <2>4
    <2>6. chain[c].xts[i] \in signed
      BY <1>0, InChain DEF ChainAgrees
    <2>7. chain[c].xts[i] # x
      BY DEF Holds
    <2>8. QED
      BY <2>5, <2>6, <2>7 DEF Reason
  <1>3. QED
    BY <1>1, <1>2 DEF Stale

(* Queues grow by statuses, and by a refusal only when it has a reason.    *)
LEMMA QueuesGrow ==
  ASSUME SIInv, UNCHANGED <<chain, client, events_sub, xt>>, signed \subseteq signed',
         DOMAIN xt_sub' = Tasks,
         \A u \in Tasks : xt_sub'[u] # xt_sub[u] => pc'[u] = "watching",
         \A u \in Tasks : pc'[u] # "watching" => pc[u] # "watching" \/ xt_sub'[u] = <<>>,
         \A u \in Tasks : \/ xt_sub'[u] = xt_sub[u]
                          \/ \E s \in Statuses : /\ xt_sub'[u] \in {Append(xt_sub[u], s), <<s>>}
                                                 /\ s = <<"Invalid">> => Reason(u)
  PROVE  QueuesAgree'
  <1> USE DEF SIInv
  <1>1. Statuses' = Statuses
    BY DEF Statuses
  <1>2. ASSUME NEW u \in Tasks, Reason(u) PROVE Reason(u)'
    BY <1>2 DEF Reason
  <1>3. ASSUME NEW u \in Tasks
        PROVE  xt_sub'[u] \in Seq(Statuses) /\ (<<"Invalid">> \in ToSet(xt_sub'[u]) => Reason(u)')
    <2>1. xt_sub[u] \in Seq(Statuses) /\ (<<"Invalid">> \in ToSet(xt_sub[u]) => Reason(u)')
      BY <1>2 DEF QueuesAgree
    <2>2. ASSUME NEW s \in Statuses, xt_sub'[u] = Append(xt_sub[u], s), s = <<"Invalid">> => Reason(u)
          PROVE  xt_sub'[u] \in Seq(Statuses) /\ (<<"Invalid">> \in ToSet(xt_sub'[u]) => Reason(u)')
      <3>1. xt_sub'[u] \in Seq(Statuses) /\ ToSet(xt_sub'[u]) = ToSet(xt_sub[u]) \cup {s}
        BY <2>1, <2>2, Added
      <3>2. QED
        BY <1>2, <2>1, <2>2, <3>1
    <2>3. ASSUME NEW s \in Statuses, xt_sub'[u] = <<s>>, s = <<"Invalid">> => Reason(u)
          PROVE  xt_sub'[u] \in Seq(Statuses) /\ (<<"Invalid">> \in ToSet(xt_sub'[u]) => Reason(u)')
      <3>1. xt_sub'[u] \in Seq(Statuses)
        BY <2>3
      <3>2. ToSet(<<s>>) = {s}
        BY DEF ToSet
      <3>3. QED
        BY <1>2, <2>3, <3>1, <3>2
    <2>4. CASE xt_sub'[u] = xt_sub[u]
      BY <2>1, <2>4
    <2>5. QED
      BY <2>2, <2>3, <2>4
  <1>4. ASSUME NEW u \in Tasks, pc'[u] # "watching" PROVE xt_sub'[u] = <<>>
    BY <1>4 DEF QueuesAgree
  <1>5. DOMAIN events_sub' = Tasks /\ \A u \in Tasks : events_sub'[u] \in Seq(Nat)
    BY DEF QueuesAgree
  <1>6. QED
    BY <1>1, <1>3, <1>4, <1>5 DEF QueuesAgree

LEMMA leaveSIInv ==
  ASSUME SIInv, leave
  PROVE  SIInv'
  <1> USE DEF SIInv
  <1>0. PICK x \in pool : /\ pool' = pool \ {x}
                          /\ \/ Stale(x, best) /\ Leave(x, <<"Invalid">>)
                             \/ "pool" \in Faults /\ Leave(x, <<"Dropped">>)
    BY DEF leave
  <1>1. PICK s \in {<<"Invalid">>, <<"Dropped">>} : Leave(x, s) /\ (s = <<"Invalid">> => Stale(x, best))
    BY <1>0
  <1>2. UNCHANGED <<chain, best, client, pc, signer, xt, events_sub, target, result, signed>>
    BY <1>1 DEF Leave
  <1>3. ClientAgrees' /\ SignedAgree' /\ ChainAgrees' /\ NoncesAgree'
    BY <1>2, NothingSigned
  <1>4. STypeOK' /\ PoolAgrees' /\ TasksAgree'
    <2>1. STypeOK'
      BY <1>0, <1>2 DEF STypeOK
    <2>2. PoolAgrees'
      BY <1>0, <1>2 DEF PoolAgrees, Holds
    <2>3. TasksAgree'
      BY <1>0, <1>2 DEF TasksAgree, Holds, built
    <2>4. QED
      BY <2>1, <2>2, <2>3
  <1>5. QueuesAgree'
    <2>1. /\ DOMAIN xt_sub' = Tasks
          /\ \A u \in Tasks : \/ xt_sub'[u] = xt_sub[u]
                              \/ pc[u] = "watching" /\ xt[u] = x /\ xt_sub'[u] = Append(xt_sub[u], s)
      BY <1>1 DEF Leave
    <2>2. s \in Statuses
      BY DEF Statuses
    <2>3. ASSUME NEW u \in Tasks, xt[u] = x, s = <<"Invalid">> PROVE Reason(u)
      <3>1. \A c \in chain[best].line : ~Holds(c, x)
        BY DEF PoolAgrees
      <3>2. x \in signed
        BY DEF STypeOK
      <3>3. QED
        BY <1>1, <2>3, <3>1, <3>2, StaleHasReason
    <2>4. QED
      BY <1>2, <2>1, <2>2, <2>3, QueuesGrow
  <1>6. InvalidForAReason'
    BY <1>2 DEF InvalidForAReason, Reason
  <1>7. QED
    BY <1>3, <1>4, <1>5, <1>6

LEMMA subscribe_eventsSIInv ==
  ASSUME SIInv, NEW t \in Tasks, subscribe_events(t)
  PROVE  SIInv'
  <1> USE DEF SIInv
  <1>0. pc[t] = "signed" /\ built
    BY UnderWay DEF subscribe_events
  <1>1. CASE Fail(t, "request")
    BY <1>0, <1>1, FailSIInv
  <1>2. CASE /\ Set(events_sub, t, <<best>>) /\ Set(pc, t, "subscribed")
             /\ UNCHANGED <<node, connected, client, signer, xt, xt_sub, target, result, signed>>
    <2>1. /\ events_sub' = [events_sub EXCEPT ![t] = <<best>>] /\ pc' = [pc EXCEPT ![t] = "subscribed"]
          /\ UNCHANGED <<chain, best, pool, client, signer, xt, xt_sub, target, result, signed>>
      BY <1>2 DEF Set, node
    <2>2. DOMAIN pc = Tasks /\ DOMAIN events_sub = Tasks
      BY DEF TasksAgree, QueuesAgree
    <2>3. ClientAgrees' /\ SignedAgree' /\ ChainAgrees' /\ NoncesAgree'
      BY <2>1, NothingSigned
    <2>4. ToSet(<<best>>) = {best} /\ best \in DOMAIN chain /\ best \in Nat
      <3>1. best \in DOMAIN chain
        BY DEF STypeOK
      <3>2. best \in Nat
        BY <3>1 DEF ChainAgrees
      <3>3. ToSet(<<best>>) = {best}
        BY DEF ToSet
      <3>4. QED
        BY <3>1, <3>2, <3>3
    <2>5. STypeOK'
      BY <1>0, <2>1, <2>2, <2>4 DEF STypeOK
    <2>6. PoolAgrees' /\ TasksAgree'
      <3>1. PoolAgrees'
        BY <2>1 DEF PoolAgrees, Holds
      <3>2. TasksAgree'
        BY <1>0, <2>1, <2>2 DEF TasksAgree, Holds, built
      <3>3. QED
        BY <3>1, <3>2
    <2>7. QueuesAgree'
      <3>1. <<best>> \in Seq(Nat)
        BY <2>4
      <3>2. Statuses' = Statuses /\ \A u \in Tasks : Reason(u)' = Reason(u)
        BY <2>1 DEF Statuses, Reason
      <3>3. QED
        BY <1>0, <2>1, <2>2, <3>1, <3>2 DEF QueuesAgree
    <2>8. InvalidForAReason'
      BY <2>1 DEF InvalidForAReason, Reason
    <2>9. QED
      BY <2>3, <2>5, <2>6, <2>7, <2>8
  <1>3. QED
    BY <1>1, <1>2 DEF subscribe_events

LEMMA statusSIInv ==
  ASSUME SIInv, NEW t \in Tasks, status(t)
  PROVE  SIInv'
  <1> USE DEF SIInv
  <1> DEFINE s == Head(xt_sub[t])
  <1>0. pc[t] = "watching" /\ xt_sub[t] # <<>> /\ built
    BY UnderWay DEF status
  <1>a. DOMAIN pc = Tasks /\ DOMAIN xt_sub = Tasks /\ DOMAIN target = Tasks
    BY DEF TasksAgree, QueuesAgree
  <1>b. xt_sub[t] \in Seq(Statuses)
    BY DEF QueuesAgree
  <1>c. /\ s \in Statuses /\ s \in ToSet(xt_sub[t])
        /\ Tail(xt_sub[t]) \in Seq(Statuses) /\ ToSet(Tail(xt_sub[t])) \subseteq ToSet(xt_sub[t])
    BY <1>0, <1>b, Taken
  <1>d. ToSet(<<>>) = {}
    BY DEF ToSet
  <1> HIDE DEF s
  <1>1. CASE Fail(t, s[1])
    <2>1. s[1] = "Invalid" => s = <<"Invalid">>
      BY <1>c DEF Statuses
    <2>2. s[1] = "Invalid" => Reason(t)
      BY <1>c, <2>1 DEF QueuesAgree
    <2>3. QED
      BY <1>0, <1>1, <2>2, FailSIInv
  <1>2. ASSUME UNCHANGED <<node, client, signer, xt, events_sub, result, signed>>,
               \/ xt_sub' = [xt_sub EXCEPT ![t] = Tail(xt_sub[t])] /\ UNCHANGED <<pc, target>>
               \/ /\ xt_sub' = [xt_sub EXCEPT ![t] = <<>>] /\ pc' = [pc EXCEPT ![t] = "block"]
                  /\ target' = [target EXCEPT ![t] = <<s[2], 0>>] /\ s[2] \in DOMAIN chain
        PROVE  SIInv'
    <2>0. UNCHANGED <<chain, best, pool, client, signer, xt, events_sub, result, signed>>
      BY <1>2 DEF node
    <2>1. ClientAgrees' /\ SignedAgree' /\ ChainAgrees' /\ NoncesAgree'
      BY <2>0, NothingSigned
    <2>2. /\ xt_sub'[t] \in Seq(Statuses) /\ ToSet(xt_sub'[t]) \subseteq ToSet(xt_sub[t])
          /\ pc'[t] # "watching" => xt_sub'[t] = <<>>
          /\ \A u \in Tasks \ {t} : xt_sub'[u] = xt_sub[u]
      <3>1. CASE xt_sub' = [xt_sub EXCEPT ![t] = Tail(xt_sub[t])] /\ UNCHANGED pc
        BY <1>0, <1>a, <1>c, <3>1
      <3>2. CASE xt_sub' = [xt_sub EXCEPT ![t] = <<>>]
        <4>1. <<>> \in Seq(Statuses)
          OBVIOUS
        <4>2. xt_sub'[t] = <<>>
          BY <1>a, <3>2
        <4>3. QED
          BY <1>a, <1>d, <3>2, <4>1, <4>2
      <3>3. QED
        BY <1>2, <3>1, <3>2
    <2>3. /\ pc'[t] \in {"watching", "block"}
          /\ pc'[t] = "block" => target'[t][1] \in DOMAIN chain
          /\ target'[t][1] \in DOMAIN chain \cup {0}
          /\ \A u \in Tasks \ {t} : pc'[u] = pc[u] /\ target'[u] = target[u]
          /\ DOMAIN pc' = Tasks /\ DOMAIN target' = Tasks /\ DOMAIN xt_sub' = Tasks
      BY <1>0, <1>2, <1>a DEF STypeOK
    <2>4. STypeOK'
      BY <1>0, <2>0, <2>3 DEF STypeOK
    <2>5. PoolAgrees'
      BY <2>0 DEF PoolAgrees, Holds
    <2>6. TasksAgree'
      BY <1>0, <2>0, <2>3 DEF TasksAgree, Holds, built
    <2>7. QueuesAgree'
      <3>1. Statuses' = Statuses /\ \A u \in Tasks : Reason(u)' = Reason(u)
        BY <2>0 DEF Statuses, Reason
      <3>2. QED
        BY <1>0, <2>0, <2>2, <2>3, <3>1 DEF QueuesAgree
    <2>8. InvalidForAReason'
      BY <2>0 DEF InvalidForAReason, Reason
    <2>9. QED
      BY <2>1, <2>4, <2>5, <2>6, <2>7, <2>8
  <1>3. CASE s[1] = "Ready"
    BY <1>2, <1>3 DEF status, Set, s
  <1>4. CASE s[1] = "InBlock"
    <2>1. s[2] \in DOMAIN chain
      BY <1>c, <1>4 DEF Statuses
    <2>2. QED
      BY <1>2, <1>4, <2>1 DEF status, Set, s
  <1>5. CASE s[1] \notin {"Ready", "InBlock"}
    BY <1>1, <1>5 DEF status, s
  <1>6. QED
    BY <1>3, <1>4, <1>5

LEMMA blockSIInv ==
  ASSUME SIInv, NEW t \in Tasks, block(t)
  PROVE  SIInv'
  <1> USE DEF SIInv
  <1> DEFINE b == target[t][1]
             places == {i \in DOMAIN chain[b].xts : chain[b].xts[i] = xt[t]}
  <1>0. pc[t] = "block" /\ built /\ b \in DOMAIN chain
    BY UnderWay DEF block, TasksAgree
  <1>1. ASSUME NEW why \in {"Failed to find Extrinsic", "Failed to find block", "request"}, Fail(t, why)
        PROVE  SIInv'
    BY <1>0, <1>1, FailSIInv
  <1>2. CASE /\ places # {}
             /\ Set(target, t, <<b, Min(places)>>) /\ Set(pc, t, "events")
             /\ UNCHANGED <<node, connected, client, signer, xt, events_sub, xt_sub, result, signed>>
    <2>1. Min(places) \in DOMAIN chain[b].xts
      <3>1. Len(chain[b].xts) \in 0 .. 2 /\ DOMAIN chain[b].xts = 1 .. Len(chain[b].xts)
        <4>1. chain[b].xts \in Seq(Xts) /\ Len(chain[b].xts) <= 2
          BY <1>0, WellTyped DEF ChainAgrees
        <4>2. QED
          BY <4>1, Short
      <3>2. places \subseteq {1, 2} /\ places \subseteq DOMAIN chain[b].xts
        BY <3>1
      <3> HIDE DEF places
      <3>3. Min(places) \in places
        BY <1>2, <3>2, Least
      <3>4. QED
        BY <3>2, <3>3
    <2> DEFINE m == Min(places)
    <2> HIDE DEF b, places
    <2>2. /\ target' = [target EXCEPT ![t] = <<b, m>>] /\ pc' = [pc EXCEPT ![t] = "events"]
          /\ UNCHANGED <<chain, best, pool, client, signer, xt, events_sub, xt_sub, result, signed>>
      BY <1>2 DEF Set, node
    <2> HIDE DEF m
    <2>3. ClientAgrees' /\ SignedAgree' /\ ChainAgrees' /\ NoncesAgree'
      BY <2>2, NothingSigned
    <2>4. /\ pc'[t] = "events" /\ target'[t] = <<b, m>>
          /\ \A u \in Tasks \ {t} : pc'[u] = pc[u] /\ target'[u] = target[u]
          /\ DOMAIN pc' = Tasks /\ DOMAIN target' = Tasks
      BY <2>2 DEF TasksAgree
    <2>5. STypeOK'
      BY <1>0, <2>1, <2>2, <2>4 DEF STypeOK, m
    <2>6. PoolAgrees'
      BY <2>2 DEF PoolAgrees, Holds
    <2>7. TasksAgree'
      BY <1>0, <2>2, <2>4 DEF TasksAgree, Holds, built
    <2>8. QueuesAgree'
      <3>1. Statuses' = Statuses /\ \A u \in Tasks : Reason(u)' = Reason(u)
        BY <2>2 DEF Statuses, Reason
      <3>2. QED
        BY <1>0, <2>2, <2>4, <3>1 DEF QueuesAgree
    <2>9. InvalidForAReason'
      BY <2>2 DEF InvalidForAReason, Reason
    <2>10. QED
      BY <2>3, <2>5, <2>6, <2>7, <2>8, <2>9
  <1>3. QED
    BY <1>1, <1>2 DEF block

LEMMA nextSIInv ==
  ASSUME SIInv, NEW t \in Tasks, next(t)
  PROVE  SIInv'
  <1> USE DEF SIInv
  <1>0. pc[t] = "events" /\ built /\ events_sub[t] # <<>>
    BY UnderWay DEF next
  <1>1. ASSUME NEW why \in {"Codec", "Runtime"}, Fail(t, why)
        PROVE  SIInv'
    BY <1>0, <1>1, FailSIInv
  <1>3. CASE /\ Set(events_sub, t, Tail(events_sub[t]))
             /\ UNCHANGED <<node, connected, client, pc, signer, xt, xt_sub, target, result, signed>>
    <2>1. /\ events_sub' = [events_sub EXCEPT ![t] = Tail(events_sub[t])]
          /\ UNCHANGED <<chain, best, pool, client, pc, signer, xt, xt_sub, target, result, signed>>
      BY <1>3 DEF Set, node
    <2>2. ClientAgrees' /\ SignedAgree' /\ ChainAgrees' /\ NoncesAgree'
      BY <2>1, NothingSigned
    <2>3. /\ DOMAIN events_sub' = Tasks
          /\ events_sub'[t] \in Seq(Nat) /\ ToSet(events_sub'[t]) \subseteq ToSet(events_sub[t])
          /\ \A u \in Tasks \ {t} : events_sub'[u] = events_sub[u]
      <3>1. DOMAIN events_sub = Tasks /\ events_sub[t] \in Seq(Nat)
        BY DEF QueuesAgree
      <3>2. Tail(events_sub[t]) \in Seq(Nat) /\ ToSet(Tail(events_sub[t])) \subseteq ToSet(events_sub[t])
        BY <1>0, <3>1, Taken
      <3>3. QED
        BY <2>1, <3>1, <3>2
    <2>4. STypeOK'
      BY <2>1, <2>3 DEF STypeOK
    <2>5. PoolAgrees' /\ TasksAgree'
      <3>1. PoolAgrees'
        BY <2>1 DEF PoolAgrees, Holds
      <3>2. TasksAgree'
        BY <2>1 DEF TasksAgree, Holds, built
      <3>3. QED
        BY <3>1, <3>2
    <2>6. QueuesAgree' /\ InvalidForAReason'
      <3>1. Statuses' = Statuses /\ \A u \in Tasks : Reason(u)' = Reason(u)
        BY <2>1 DEF Statuses, Reason
      <3>2. QED
        BY <2>1, <2>3, <3>1 DEF QueuesAgree, InvalidForAReason
    <2>7. QED
      BY <2>2, <2>4, <2>5, <2>6
  <1> DEFINE b == Head(events_sub[t])
             events == filter_extrinsic(Records(b), target[t][2])
             told == {<<r.index, r.event>> : r \in events}
  <1>4. IF b # target[t][1]
        THEN /\ Set(events_sub, t, Tail(events_sub[t]))
             /\ UNCHANGED <<node, connected, client, pc, signer, xt, xt_sub, target, result, signed>>
        ELSE IF client["metadata"][2] # chain[chain[b].parent].version THEN Fail(t, "Codec")
        ELSE IF \E r \in events : r.failed THEN Fail(t, "Runtime")
        ELSE /\ End(t, <<"success", b, told>>) /\ Set(signer, t, increment_nonce(signer[t]))
             /\ UNCHANGED <<node, connected, client, xt, signed>>
    BY DEF next
  <1> HIDE DEF b, events, told
  <1>5. CASE Fail(t, "Codec") \/ Fail(t, "Runtime")
    BY <1>1, <1>5
  <1>6. CASE /\ End(t, <<"success", b, told>>) /\ Set(signer, t, increment_nonce(signer[t]))
             /\ UNCHANGED <<node, connected, client, xt, signed>>
    <2>1. <<"success", b, told>> # <<"error", "Invalid">>
      OBVIOUS
    <2>2. DOMAIN signer' = Tasks /\ \A u \in Tasks : signer'[u] \in {None} \cup ({"nonce"} \X Nat)
      <3>1. increment_nonce(signer[t]) \in {None} \cup ({"nonce"} \X Nat)
        BY DEF TasksAgree, increment_nonce
      <3>2. QED
        BY <1>6, <3>1 DEF TasksAgree, Set
    <2>3. PICK told_ : told_ = <<"success", b, told>>
      OBVIOUS
    <2>4. End(t, told_) /\ UNCHANGED <<node, client, xt, signed>>
      BY <1>6, <2>3 DEF End, Set
    <2>5. QED
      BY <1>0, <2>1, <2>2, <2>3, <2>4, EndSIInv
  <1>7. QED
    BY <1>3, <1>4, <1>5, <1>6

(* The pool takes the extrinsic of a task, which is nowhere else yet.      *)
LEMMA AcceptedSIInv ==
  ASSUME SIInv, NEW t \in Tasks, pc[t] \in {"signed", "subscribed"}, Accepted(xt[t]),
         UNCHANGED <<chain, best, client, xt, events_sub, target, signed>>,
         DOMAIN pc' = Tasks, pc'[t] \in {"idle", "watching"}, \A u \in Tasks \ {t} : pc'[u] = pc[u],
         DOMAIN signer' = Tasks, \A u \in Tasks : signer'[u] \in {None} \cup ({"nonce"} \X Nat),
         DOMAIN result' = Tasks, result'[t] = result[t] \/ result'[t] # <<"error", "Invalid">>,
         \A u \in Tasks \ {t} : result'[u] = result[u],
         DOMAIN xt_sub' = Tasks,
         xt_sub'[t] = IF pc'[t] = "watching" THEN <<<<"Ready">>>> ELSE xt_sub[t],
         \A u \in Tasks \ {t} : \/ xt_sub'[u] = xt_sub[u]
                                \/ pc[u] = "watching" /\ xt_sub'[u] = Append(xt_sub[u], <<"Usurped">>)
  PROVE  SIInv'
  <1> USE DEF SIInv
  <1>0. built /\ xt[t] \in signed
    BY UnderWay
  <1>a. pool' \subseteq pool \cup {xt[t]}
    BY DEF Accepted
  <1>1. ClientAgrees' /\ SignedAgree' /\ ChainAgrees' /\ NoncesAgree'
    BY NothingSigned
  <1>2. STypeOK'
    BY <1>0, <1>a DEF STypeOK
  <1>3. PoolAgrees'
    <2>1. \A c \in chain[best].line : c \in DOMAIN chain
      BY InChain DEF STypeOK
    <2>2. \A c \in DOMAIN chain : ~Holds(c, xt[t])
      BY DEF TasksAgree
    <2>3. QED
      BY <1>a, <2>1, <2>2 DEF PoolAgrees, Holds
  <1>4. TasksAgree'
    <2>1. \A u \in Tasks \ {t} : pc[u] # "idle" => xt[u] # xt[t]
      BY DEF TasksAgree
    <2>2. built'
      BY <1>0 DEF built
    <2>3. \A c, y : Holds(c, y)' = Holds(c, y)
      BY DEF Holds
    <2>4. \A u \in Tasks : pc'[u] \in {"signed", "subscribed"} =>
             xt'[u] \notin pool' /\ \A c \in DOMAIN chain' : ~Holds(c, xt[u])
      BY <1>a, <2>1 DEF TasksAgree
    <2>5. \A u \in Tasks : /\ pc'[u] # "idle" => xt'[u].id[1] = u
                           /\ pc'[u] \in {"block", "events"} => target'[u][1] \in DOMAIN chain'
      BY DEF TasksAgree
    <2>6. DOMAIN xt' = Tasks /\ DOMAIN target' = Tasks
      BY DEF TasksAgree
    <2>7. \A u \in Tasks : pc'[u] \in {"signed", "subscribed"} =>
             xt'[u] \notin pool' /\ \A c \in DOMAIN chain' : ~Holds(c, xt[u])'
      BY <2>3, <2>4
    <2>8. QED
      BY <2>2, <2>5, <2>6, <2>7 DEF TasksAgree
  <1>5. QueuesAgree'
    <2>1. {<<"Ready">>, <<"Usurped">>} \subseteq Statuses
      BY DEF Statuses
    <2>2. <<"Ready">> # <<"Invalid">> /\ <<"Usurped">> # <<"Invalid">>
      OBVIOUS
    <2>3. xt_sub[t] = <<>>
      BY DEF QueuesAgree
    <2>4. \A u \in Tasks : \/ xt_sub'[u] = xt_sub[u]
                           \/ \E s \in Statuses : /\ xt_sub'[u] \in {Append(xt_sub[u], s), <<s>>}
                                                  /\ s = <<"Invalid">> => Reason(u)
      BY <2>1, <2>2
    <2>5. /\ \A u \in Tasks : xt_sub'[u] # xt_sub[u] => pc'[u] = "watching"
          /\ \A u \in Tasks : pc'[u] # "watching" => pc[u] # "watching" \/ xt_sub'[u] = <<>>
      BY <2>3
    <2>6. QED
      BY <2>4, <2>5, QueuesGrow
  <1>6. InvalidForAReason'
    BY DEF InvalidForAReason, Reason
  <1>7. QED
    BY <1>1, <1>2, <1>3, <1>4, <1>5, <1>6

(* Why a task that waits for a verdict is refused.                         *)
LEMMA RefusedForAReason ==
  ASSUME SIInv, NEW t \in Tasks, pc[t] \in {"signed", "subscribed"}, Stale(xt[t], best)
  PROVE  Reason(t)
  <1>1. \A c \in chain[best].line : ~Holds(c, xt[t])
    BY InChain DEF SIInv, STypeOK, TasksAgree
  <1>2. QED
    BY <1>1, UnderWay, StaleHasReason

LEMMA submit_extrinsicSIInv ==
  ASSUME SIInv, NEW t \in Tasks, submit_extrinsic(t)
  PROVE  SIInv'
  <1>0. pc[t] = "signed" /\ built
    BY UnderWay DEF submit_extrinsic
  <1>1. CASE connected /\ Stale(xt[t], best) /\ Fail(t, "Invalid")
    BY <1>0, <1>1, RefusedForAReason, FailSIInv
  <1>2. CASE Fail(t, "priority") \/ Fail(t, "request")
    BY <1>0, <1>2, FailSIInv
  <1>3. CASE /\ connected /\ ~Stale(xt[t], best) /\ Accepted(xt[t])
             /\ Set(signer, t, increment_nonce(signer[t]))
             /\ xt_sub' = Usurped(xt[t])
             /\ Set(pc, t, "idle") /\ Set(result, t, <<"hash", xt[t].id>>)
             /\ UNCHANGED <<chain, best, connected, client, xt, events_sub, target, signed>>
    <2>1. /\ DOMAIN pc = Tasks /\ DOMAIN signer = Tasks /\ DOMAIN result = Tasks
          /\ \A u \in Tasks : signer[u] \in {None} \cup ({"nonce"} \X Nat)
      BY DEF SIInv, TasksAgree
    <2>2. /\ DOMAIN pc' = Tasks /\ pc'[t] = "idle" /\ \A u \in Tasks \ {t} : pc'[u] = pc[u]
          /\ DOMAIN result' = Tasks /\ result'[t] # <<"error", "Invalid">>
          /\ \A u \in Tasks \ {t} : result'[u] = result[u]
      BY <1>3, <2>1 DEF Set
    <2>3. DOMAIN signer' = Tasks /\ \A u \in Tasks : signer'[u] \in {None} \cup ({"nonce"} \X Nat)
      <3>1. increment_nonce(signer[t]) \in {None} \cup ({"nonce"} \X Nat)
        BY <2>1 DEF increment_nonce
      <3>2. QED
        BY <1>3, <2>1, <3>1 DEF Set
    <2>4. /\ DOMAIN xt_sub' = Tasks /\ xt_sub'[t] = xt_sub[t]
          /\ \A u \in Tasks \ {t} : \/ xt_sub'[u] = xt_sub[u]
                                    \/ pc[u] = "watching" /\ xt_sub'[u] = Append(xt_sub[u], <<"Usurped">>)
      BY <1>0, <1>3 DEF Usurped
    <2>5. Accepted(xt[t]) /\ UNCHANGED <<chain, best, client, xt, events_sub, target, signed>>
      BY <1>3
    <2>6. QED
      BY <1>0, <2>2, <2>3, <2>4, <2>5, AcceptedSIInv
  <1>4. QED
    BY <1>1, <1>2, <1>3 DEF submit_extrinsic

LEMMA watch_extrinsicSIInv ==
  ASSUME SIInv, NEW t \in Tasks, watch_extrinsic(t)
  PROVE  SIInv'
  <1>0. pc[t] = "subscribed" /\ built
    BY UnderWay DEF watch_extrinsic
  <1>1. CASE connected /\ Stale(xt[t], best) /\ Fail(t, "Invalid")
    BY <1>0, <1>1, RefusedForAReason, FailSIInv
  <1>2. CASE Fail(t, "priority") \/ Fail(t, "request")
    BY <1>0, <1>2, FailSIInv
  <1>3. CASE /\ connected /\ ~Stale(xt[t], best) /\ Accepted(xt[t])
             /\ xt_sub' = [Usurped(xt[t]) EXCEPT ![t] = <<<<"Ready">>>>]
             /\ Set(pc, t, "watching")
             /\ UNCHANGED <<chain, best, connected, client, signer, xt, events_sub, target, result, signed>>
    <2>1. /\ DOMAIN pc = Tasks /\ DOMAIN signer = Tasks /\ DOMAIN result = Tasks
          /\ \A u \in Tasks : signer[u] \in {None} \cup ({"nonce"} \X Nat)
      BY DEF SIInv, TasksAgree
    <2>2. DOMAIN pc' = Tasks /\ pc'[t] = "watching" /\ \A u \in Tasks \ {t} : pc'[u] = pc[u]
      BY <1>3, <2>1 DEF Set
    <2>3. /\ DOMAIN signer' = Tasks /\ \A u \in Tasks : signer'[u] \in {None} \cup ({"nonce"} \X Nat)
          /\ DOMAIN result' = Tasks /\ \A u \in Tasks : result'[u] = result[u]
      BY <1>3, <2>1
    <2>4. /\ DOMAIN xt_sub' = Tasks /\ xt_sub'[t] = <<<<"Ready">>>>
          /\ \A u \in Tasks \ {t} : \/ xt_sub'[u] = xt_sub[u]
                                    \/ pc[u] = "watching" /\ xt_sub'[u] = Append(xt_sub[u], <<"Usurped">>)
      BY <1>0, <1>3 DEF Usurped
    <2>5. Accepted(xt[t]) /\ UNCHANGED <<chain, best, client, xt, events_sub, target, signed>>
      BY <1>3
    <2>6. QED
      BY <1>0, <2>2, <2>3, <2>4, <2>5, AcceptedSIInv
  <1>4. QED
    BY <1>1, <1>2, <1>3 DEF watch_extrinsic

-----------------------------------------------------------------------------
(* A block is imported.                                                    *)

LEMMA Small ==
  ASSUME NEW S, S \subseteq {1, 2}
  PROVE  Cardinality(S) = (IF 1 \in S THEN 1 ELSE 0) + (IF 2 \in S THEN 1 ELSE 0)
  <1>0. Cardinality({}) = 0 /\ Cardinality({1}) = 1 /\ Cardinality({2}) = 1
    BY FS_EmptySet, FS_Singleton
  <1>1. CASE S = {}
    BY <1>0, <1>1
  <1>2. CASE S = {1}
    BY <1>0, <1>2
  <1>3. CASE S = {2}
    BY <1>0, <1>3
  <1>4. CASE S = {1, 2}
    <2>1. IsFiniteSet({1}) /\ Cardinality({1}) = 1
      BY FS_Singleton
    <2>2. Cardinality({1} \cup {2}) = 1 + 1
      <3>1. 2 \notin {1}
        OBVIOUS
      <3>2. QED
        BY <2>1, <3>1, FS_AddElement
    <2>3. S = {1} \cup {2}
      BY <1>4
    <2>4. QED
      BY <2>2, <2>3
  <1>5. QED
    BY <1>1, <1>2, <1>3, <1>4

LEMMA ChainGrows ==
  ASSUME SIInv, NEW p \in DOMAIN chain, NEW b \in Blocks,
         b.parent = p, b.line = chain[p].line \cup {Len(chain) + 1}, b.version \in DOMAIN Index,
         Len(b.xts) <= 2,
         \A i \in DOMAIN b.xts : /\ b.xts[i] \in signed /\ b.xts[i].additional = Runtime(p)
                                 /\ chain[p].nonce[b.xts[i].account] <= b.xts[i].nonce
                                 /\ b.xts[i].nonce < b.nonce[b.xts[i].account],
         \A a \in Accounts :
            /\ chain[p].nonce[a] <= b.nonce[a]
            /\ \A k \in chain[p].nonce[a] .. (b.nonce[a] - 1) :
                 \E i \in DOMAIN b.xts : b.xts[i].account = a /\ b.xts[i].nonce = k,
         chain' = Append(chain, b), UNCHANGED <<client, signed>>
  PROVE  /\ ChainAgrees' /\ NoncesAgree'
         /\ DOMAIN chain' = DOMAIN chain \cup {Len(chain) + 1} /\ chain'[Len(chain) + 1] = b
         /\ \A c \in DOMAIN chain : chain'[c] = chain[c] /\ c # Len(chain) + 1
  <1> USE DEF SIInv
  <1>id. PICK id : id = Len(chain) + 1
    OBVIOUS
  <1>0. chain \in Seq(Blocks) /\ Len(chain) \in Nat /\ DOMAIN chain = 1 .. Len(chain)
    BY DEF ChainAgrees
  <1>1. /\ chain' \in Seq(Blocks) /\ chain' # <<>>
        /\ DOMAIN chain' = DOMAIN chain \cup {id} /\ chain'[id] = b
        /\ \A c \in DOMAIN chain : chain'[c] = chain[c] /\ c # id
    <2>1. chain' \in Seq(Blocks) /\ chain' # <<>>
      BY <1>0, Added
    <2>2. /\ DOMAIN chain' = DOMAIN chain \cup {id} /\ chain'[id] = b
          /\ \A c \in DOMAIN chain : chain'[c] = chain[c] /\ c # id
      BY <1>0, <1>id
    <2>3. QED
      BY <2>1, <2>2
  <1>2. \A c \in DOMAIN chain : chain[c].line \subseteq DOMAIN chain
    BY InChain
  <1>3. ChainAgrees'
    <2>1. \A c \in DOMAIN chain : /\ c \in chain[c].line /\ chain[c].line \subseteq 1 .. c
                                  /\ chain[c].parent \in DOMAIN chain /\ chain[c].version \in DOMAIN Index
                                  /\ Len(chain[c].xts) <= 2
                                  /\ \A i \in DOMAIN chain[c].xts :
                                       chain[c].xts[i] \in signed /\ chain[c].xts[i].additional = Runtime(chain[c].parent)
      BY DEF ChainAgrees
    <2>2. \A c \in DOMAIN chain : Runtime(c)' = Runtime(c)
      BY <1>1 DEF Runtime
    <2>3. id \in b.line /\ b.line \subseteq 1 .. id
      BY <1>0, <1>id, <2>1, <1>2
    <2>4. ASSUME NEW c \in DOMAIN chain
          PROVE  /\ c \in chain'[c].line /\ chain'[c].line \subseteq 1 .. c
                 /\ chain'[c].parent \in DOMAIN chain' /\ chain'[c].version \in DOMAIN Index
                 /\ Len(chain'[c].xts) <= 2
                 /\ \A i \in DOMAIN chain'[c].xts :
                      chain'[c].xts[i] \in signed' /\ chain'[c].xts[i].additional = Runtime(chain[c].parent)'
      <3>1. chain'[c] = chain[c] /\ chain[c].parent \in DOMAIN chain
        BY <1>1, <2>1
      <3>2. chain'[chain[c].parent] = chain[chain[c].parent]
        BY <1>1, <3>1
      <3>3. Runtime(chain[c].parent)' = Runtime(chain[c].parent)
        BY <3>1, <3>2 DEF Runtime
      <3>4. \A i \in DOMAIN chain[c].xts :
              chain[c].xts[i] \in signed' /\ chain[c].xts[i].additional = Runtime(chain[c].parent)'
        BY <2>1, <3>3
      <3>5. /\ c \in chain[c].line /\ chain[c].line \subseteq 1 .. c
            /\ chain[c].parent \in DOMAIN chain' /\ chain[c].version \in DOMAIN Index /\ Len(chain[c].xts) <= 2
        BY <1>1, <2>1
      <3>6. QED
        BY <3>1, <3>4, <3>5
    <2>5. /\ id \in chain'[id].line /\ chain'[id].line \subseteq 1 .. id
          /\ chain'[id].parent \in DOMAIN chain' /\ chain'[id].version \in DOMAIN Index
          /\ Len(chain'[id].xts) <= 2
          /\ \A i \in DOMAIN chain'[id].xts :
               chain'[id].xts[i] \in signed' /\ chain'[id].xts[i].additional = Runtime(chain[id].parent)'
      BY <1>1, <2>2, <2>3
    <2>6. \A c \in DOMAIN chain' : c \in DOMAIN chain \/ c = id
      BY <1>1
    <2>7. \A c \in DOMAIN chain' : /\ c \in chain'[c].line /\ chain'[c].line \subseteq 1 .. c
                                   /\ chain'[c].parent \in DOMAIN chain' /\ chain'[c].version \in DOMAIN Index
                                   /\ Len(chain'[c].xts) <= 2
                                   /\ \A i \in DOMAIN chain'[c].xts : /\ chain'[c].xts[i] \in signed'
                                        /\ chain'[c].xts[i].additional = Runtime(chain[c].parent)'
      BY <2>4, <2>5, <2>6
    <2>8. QED
      BY <1>1, <2>7 DEF ChainAgrees
  <1>4. ASSUME NEW c \in DOMAIN chain
        PROVE  /\ \A i \in DOMAIN chain[c].xts : /\ chain[c].xts[i] \in Xts /\ chain[c].xts[i].nonce \in Nat
                                                 /\ chain[c].xts[i].account \in Accounts
               /\ \A a \in Accounts : chain[c].nonce[a] \in Nat
    <2>1. chain[c].nonce \in [Accounts -> Nat] /\ \A i \in DOMAIN chain[c].xts : chain[c].xts[i] \in Xts
      BY WellTyped DEF ChainAgrees, SignedAgree
    <2>2. QED
      BY <2>1 DEF Xts
  <1>5. /\ \A i \in DOMAIN b.xts : b.xts[i].account \in Accounts /\ b.xts[i].nonce \in Nat
        /\ \A a \in Accounts : b.nonce[a] \in Nat
    <2>1. b.nonce \in [Accounts -> Nat] /\ \A i \in DOMAIN b.xts : b.xts[i] \in Xts
      BY DEF Blocks, SignedAgree
    <2>2. QED
      BY <2>1 DEF Xts
  <1>6. \A c \in DOMAIN chain : /\ \A d \in chain[c].line : d \in DOMAIN chain /\ chain'[d] = chain[d]
                                /\ \A x : Holds(c, x)' <=> Holds(c, x)
    BY <1>1, <1>2 DEF Holds
  <1>7. \A x : Holds(id, x)' <=> \E i \in DOMAIN b.xts : b.xts[i] = x
    BY <1>1 DEF Holds
  <1>8. \A c \in b.line : c = id \/ c \in chain[p].line
    BY <1>id
  <1>9. ASSUME NEW c \in DOMAIN chain
        PROVE  /\ \A d \in chain'[c].line : \A i \in DOMAIN chain'[d].xts :
                    chain'[d].xts[i].nonce < chain'[c].nonce[chain'[d].xts[i].account]
               /\ \A a \in Accounts : \A n \in 0 .. (chain'[c].nonce[a] - 1) :
                    \E d \in chain'[c].line : \E i \in DOMAIN chain'[d].xts :
                        chain'[d].xts[i].account = a /\ chain'[d].xts[i].nonce = n
               /\ \A d, e \in chain'[c].line, x \in signed' : Holds(d, x)' /\ Holds(e, x)' => d = e
    <2>1. chain'[c] = chain[c]
      BY <1>1
    <2>2. /\ \A d \in chain[c].line : \A i \in DOMAIN chain[d].xts :
               chain[d].xts[i].nonce < chain[c].nonce[chain[d].xts[i].account]
          /\ \A a \in Accounts : \A n \in 0 .. (chain[c].nonce[a] - 1) :
               \E d \in chain[c].line : \E i \in DOMAIN chain[d].xts :
                   chain[d].xts[i].account = a /\ chain[d].xts[i].nonce = n
          /\ \A d, e \in chain[c].line, x \in signed : Holds(d, x) /\ Holds(e, x) => d = e
      BY DEF NoncesAgree
    <2>3. QED
      BY <1>6, <2>1, <2>2
  <1>10. /\ \A d \in chain'[id].line : \A i \in DOMAIN chain'[d].xts :
               chain'[d].xts[i].nonce < chain'[id].nonce[chain'[d].xts[i].account]
         /\ \A a \in Accounts : \A n \in 0 .. (chain'[id].nonce[a] - 1) :
              \E d \in chain'[id].line : \E i \in DOMAIN chain'[d].xts :
                  chain'[d].xts[i].account = a /\ chain'[d].xts[i].nonce = n
         /\ \A d, e \in chain'[id].line, x \in signed' : Holds(d, x)' /\ Holds(e, x)' => d = e
    <2>1. ASSUME NEW d \in chain[p].line, NEW i \in DOMAIN chain[d].xts
          PROVE  /\ chain[d].xts[i].nonce < chain[p].nonce[chain[d].xts[i].account]
                 /\ chain[d].xts[i].nonce < b.nonce[chain[d].xts[i].account]
      <3>1. chain[d].xts[i].nonce < chain[p].nonce[chain[d].xts[i].account]
        BY DEF NoncesAgree
      <3>2. d \in DOMAIN chain
        BY <1>2
      <3>3. QED
        BY <3>1, <3>2, <1>4, <1>5
    <2>2. \A d \in b.line : \A i \in DOMAIN chain'[d].xts :
            chain'[d].xts[i].nonce < b.nonce[chain'[d].xts[i].account]
      BY <1>1, <1>6, <1>8, <2>1
    <2>b. chain'[id].line = b.line /\ chain'[id].nonce = b.nonce
      BY <1>1
    <2>3. ASSUME NEW a \in Accounts, NEW n \in 0 .. (chain'[id].nonce[a] - 1)
          PROVE  \E d \in chain'[id].line : \E i \in DOMAIN chain'[d].xts :
                     chain'[d].xts[i].account = a /\ chain'[d].xts[i].nonce = n
      <3>1. CASE n < chain[p].nonce[a]
        <4>1. n \in 0 .. (chain[p].nonce[a] - 1)
          BY <2>b, <3>1, <1>4, <1>5
        <4>2. PICK d \in chain[p].line : \E i \in DOMAIN chain[d].xts :
                  chain[d].xts[i].account = a /\ chain[d].xts[i].nonce = n
          BY <4>1 DEF NoncesAgree
        <4>3. d \in chain'[id].line /\ chain'[d] = chain[d]
          BY <1>6, <2>b
        <4>4. PICK i \in DOMAIN chain[d].xts : chain[d].xts[i].account = a /\ chain[d].xts[i].nonce = n
          BY <4>2
        <4>5. QED
          BY <4>3, <4>4
      <3>2. CASE n >= chain[p].nonce[a]
        <4>1. n \in chain[p].nonce[a] .. (b.nonce[a] - 1)
          BY <2>b, <3>2, <1>4, <1>5
        <4>2. PICK i \in DOMAIN b.xts : b.xts[i].account = a /\ b.xts[i].nonce = n
          BY <4>1
        <4>3. id \in chain'[id].line
          BY <1>id, <2>b
        <4>4. QED
          BY <1>1, <4>2, <4>3
      <3>3. n < chain[p].nonce[a] \/ n >= chain[p].nonce[a]
        <4>1. n \in Nat /\ chain[p].nonce[a] \in Nat
          BY <2>b, <1>4, <1>5
        <4>2. QED
          BY <4>1
      <3>4. QED
        BY <3>1, <3>2, <3>3
    <2>4. ASSUME NEW x \in signed, NEW d \in chain[p].line, Holds(d, x), Holds(id, x)'
          PROVE  FALSE
      <3>1. PICK i \in DOMAIN chain[d].xts : chain[d].xts[i] = x
        BY <2>4 DEF Holds
      <3>2. PICK j \in DOMAIN b.xts : b.xts[j] = x
        BY <1>7, <2>4
      <3>3. x.nonce < chain[p].nonce[x.account] /\ chain[p].nonce[x.account] <= x.nonce
        BY <2>1, <3>1, <3>2
      <3>4. x.nonce \in Nat /\ chain[p].nonce[x.account] \in Nat
        BY <1>4, <1>5, <3>2
      <3>5. QED
        BY <3>3, <3>4
    <2>5. ASSUME NEW d \in b.line, NEW e \in b.line, NEW x \in signed', Holds(d, x)', Holds(e, x)'
          PROVE  d = e
      <3>1. \A c \in chain[p].line : c \in DOMAIN chain
        BY <1>2
      <3>2. CASE d \in chain[p].line /\ e \in chain[p].line
        BY <3>1, <3>2, <2>5, <1>6 DEF NoncesAgree
      <3>3. CASE d \in chain[p].line /\ e = id
        BY <3>1, <3>3, <2>4, <2>5, <1>6
      <3>4. CASE d = id /\ e \in chain[p].line
        BY <3>1, <3>4, <2>4, <2>5, <1>6
      <3>5. QED
        BY <3>2, <3>3, <3>4, <1>8
    <2>6. QED
      BY <2>b, <2>2, <2>3, <2>5
  <1>11. NoncesAgree'
    <2>1. \A c \in DOMAIN chain' : c \in DOMAIN chain \/ c = id
      BY <1>1
    <2>2. ASSUME NEW c \in DOMAIN chain'
          PROVE  /\ \A d \in chain'[c].line : \A i \in DOMAIN chain'[d].xts :
                      chain'[d].xts[i].nonce < chain'[c].nonce[chain'[d].xts[i].account]
                 /\ \A a \in Accounts : \A n \in 0 .. (chain'[c].nonce[a] - 1) :
                      \E d \in chain'[c].line : \E i \in DOMAIN chain'[d].xts :
                          chain'[d].xts[i].account = a /\ chain'[d].xts[i].nonce = n
                 /\ \A d, e \in chain'[c].line, x \in signed' : Holds(d, x)' /\ Holds(e, x)' => d = e
      <3>1. CASE c \in DOMAIN chain
        BY <3>1, <1>9
      <3>2. CASE c = id
        <4>1. \A d \in chain'[c].line : \A i \in DOMAIN chain'[d].xts :
                chain'[d].xts[i].nonce < chain'[c].nonce[chain'[d].xts[i].account]
          BY <3>2, <1>10
        <4>2. \A a \in Accounts : \A n \in 0 .. (chain'[c].nonce[a] - 1) :
                \E d \in chain'[c].line : \E i \in DOMAIN chain'[d].xts :
                    chain'[d].xts[i].account = a /\ chain'[d].xts[i].nonce = n
          BY <3>2, <1>10
        <4>3. \A d, e \in chain'[c].line, x \in signed' : Holds(d, x)' /\ Holds(e, x)' => d = e
          BY <3>2, <1>10
        <4>4. QED
          BY <4>1, <4>2, <4>3
      <3>3. QED
        BY <2>1, <3>1, <3>2
    <2>3. QED
      BY <2>2 DEF NoncesAgree
  <1>12. QED
    BY <1>id, <1>1, <1>3, <1>11

(* The pool gives up what the best line now applies, and takes back what   *)
(* it does not apply any more.                                             *)
LEMMA PoolMoves ==
  ASSUME SIInv, NEW id, NEW b, NEW enacted, NEW retracted,
         DOMAIN chain' = DOMAIN chain \cup {id}, chain'[id] = b,
         \A c \in DOMAIN chain : chain'[c] = chain[c] /\ c # id,
         b.line \subseteq DOMAIN chain', signed' = signed,
         \/ best' = best /\ enacted = {} /\ retracted = {}
         \/ best' = id /\ enacted = b.line \ chain[best].line /\ retracted = chain[best].line \ b.line,
         \A x \in pool' : /\ x \in pool \/ \E c \in retracted : Holds(c, x)'
                          /\ \A c \in enacted : ~Holds(c, x)'
  PROVE  /\ PoolAgrees' /\ pool' \subseteq signed /\ best' \in DOMAIN chain'
         /\ enacted \subseteq DOMAIN chain' /\ retracted \subseteq DOMAIN chain'
         /\ \A x \in pool' : x \in pool \/ \E c \in DOMAIN chain : Holds(c, x)
  <1> USE DEF SIInv
  <1>0. best \in DOMAIN chain /\ pool \subseteq signed /\ chain[best].line \subseteq DOMAIN chain
    BY InChain DEF STypeOK
  <1>1. \A c \in DOMAIN chain : \A x : Holds(c, x)' <=> Holds(c, x)
    BY DEF Holds
  <1>2. retracted \subseteq DOMAIN chain /\ enacted \subseteq DOMAIN chain' /\ retracted \subseteq chain[best].line
    BY <1>0
  <1>3. \A c \in DOMAIN chain : \A x : Holds(c, x) => x \in signed
    BY DEF ChainAgrees, Holds
  <1>4. \A x \in pool' : x \in pool \/ \E c \in DOMAIN chain : Holds(c, x)
    BY <1>1, <1>2
  <1>5. ASSUME NEW x \in pool', NEW c \in chain'[best'].line
        PROVE  ~Holds(c, x)'
    <2>1. CASE best' = best /\ retracted = {}
      <3>1. x \in pool /\ c \in chain[best].line
        BY <1>0, <2>1
      <3>2. QED
        BY <1>0, <1>1, <3>1 DEF PoolAgrees
    <2>2. CASE best' = id /\ enacted = b.line \ chain[best].line /\ retracted = chain[best].line \ b.line
      <3>1. c \in b.line
        BY <2>2
      <3>2. CASE c \notin chain[best].line
        BY <2>2, <3>1, <3>2
      <3>3. CASE c \in chain[best].line
        <4>1. CASE x \in pool
          BY <1>0, <1>1, <3>3, <4>1 DEF PoolAgrees
        <4>2. CASE x \notin pool
          <5>1. PICK d \in retracted : Holds(d, x)'
            BY <4>2
          <5>2. d \in chain[best].line /\ d # c
            BY <2>2, <3>1
          <5>3. Holds(d, x) /\ x \in signed
            BY <1>0, <1>1, <1>3, <5>1, <5>2
          <5>4. ~Holds(c, x)
            BY <1>0, <3>3, <5>2, <5>3 DEF NoncesAgree
          <5>5. QED
            BY <1>0, <1>1, <3>3, <5>4
        <4>3. QED
          BY <4>1, <4>2
      <3>4. QED
        BY <3>2, <3>3
    <2>3. QED
      BY <2>1, <2>2
  <1>6. PoolAgrees'
    BY <1>5 DEF PoolAgrees
  <1>7. QED
    BY <1>0, <1>2, <1>3, <1>4, <1>6

(* What the watchers are told of a new block.                              *)
LEMMA TellTyped ==
  ASSUME NEW t \in Tasks, NEW b, NEW enacted, NEW retracted, NEW D, IsFiniteSet(D),
         enacted \subseteq D, retracted \subseteq D
  PROVE  /\ Tell(t, b, enacted, retracted) \in Seq({"InBlock", "Retracted"} \X D)
         /\ pc[t] # "watching" => Tell(t, b, enacted, retracted) = <<>>
  <1> DEFINE S == {"InBlock", "Retracted"} \X D
             In(c) == xt[t] \in ToSet(IF c = Len(chain) + 1 THEN b.xts ELSE chain[c].xts)
             Gone == {<<"Retracted", c>> : c \in {c \in retracted : In(c)}}
             New == {<<"InBlock", c>> : c \in {c \in enacted : In(c)}}
  <1>1. Tell(t, b, enacted, retracted) = IF pc[t] # "watching" THEN <<>> ELSE SetToSeq(Gone) \o SetToSeq(New)
    BY DEF Tell
  <1>2. IsFiniteSet(S)
    <2>1. IsFiniteSet({"InBlock", "Retracted"})
      <3>1. IsFiniteSet({"InBlock"})
        BY FS_Singleton
      <3>2. IsFiniteSet({"InBlock"} \cup {"Retracted"})
        BY <3>1, FS_AddElement
      <3>3. {"InBlock"} \cup {"Retracted"} = {"InBlock", "Retracted"}
        OBVIOUS
      <3>4. QED
        BY <3>2, <3>3
    <2>2. QED
      BY <2>1, FS_Product
  <1>3. Gone \subseteq S /\ New \subseteq S
    OBVIOUS
  <1> HIDE DEF S, In, Gone, New
  <1>4. \A T : T \subseteq S => SetToSeq(T) \in Seq(S)
    <2>1. SUFFICES ASSUME NEW T, T \subseteq S PROVE SetToSeq(T) \in Seq(S)
      OBVIOUS
    <2>2. IsFiniteSet(T)
      BY <1>2, <2>1, FS_Subset
    <2>3. SetToSeq(T) \in Seq(T)
      BY <2>2, Ordered
    <2>4. QED
      BY <2>1, <2>3
  <1>5. SetToSeq(Gone) \o SetToSeq(New) \in Seq(S)
    BY <1>3, <1>4, Joined
  <1>6. <<>> \in Seq(S)
    OBVIOUS
  <1>7. QED
    BY <1>1, <1>5, <1>6 DEF S

(* What a new block holds comes from the pool, for its runtime and with    *)
(* the nonces that follow those of its parent, none left out.              *)
LEMMA ContentsFollow ==
  ASSUME SIInv, NEW p \in DOMAIN chain, NEW xs \in Contents(p)
  PROVE  /\ xs \in Seq(Xts) /\ Len(xs) <= 2
         /\ \A i \in DOMAIN xs : xs[i] \in pool /\ xs[i] \in Xts /\ xs[i].additional = Runtime(p)
         /\ \A a \in Accounts :
              LET count == Cardinality({i \in DOMAIN xs : xs[i].account = a})
              IN /\ count \in Nat
                 /\ \A i \in DOMAIN xs : xs[i].account = a =>
                      chain[p].nonce[a] <= xs[i].nonce /\ xs[i].nonce < chain[p].nonce[a] + count
                 /\ \A k \in chain[p].nonce[a] .. (chain[p].nonce[a] + count - 1) :
                      \E i \in DOMAIN xs : xs[i].account = a /\ xs[i].nonce = k
  <1> USE DEF SIInv
  <1>1. PICK n \in 0 .. 2 : xs \in [1 .. n -> pool]
    BY DEF Contents
  <1>2. \A i \in DOMAIN xs : Ready(xs[i], p, {xs[j] : j \in 1 .. (i - 1)})
    BY DEF Contents
  <1>3. pool \subseteq Xts
    BY DEF STypeOK, SignedAgree
  <1>4. DOMAIN xs = 1 .. n /\ \A i \in 1 .. n : xs[i] \in pool /\ xs[i] \in Xts
    BY <1>1, <1>3
  <1>5. xs \in Seq(Xts) /\ Len(xs) <= 2
    <2>1. xs \in [1 .. n -> Xts]
      BY <1>1, <1>3
    <2>2. xs \in Seq(Xts) /\ Len(xs) = n
      BY <2>1
    <2>3. QED
      BY <2>2
  <1>6. \A i \in DOMAIN xs : xs[i].additional = Runtime(p)
    BY <1>2 DEF Ready
  <1>7. ASSUME NEW a \in Accounts, NEW S, S = {i \in DOMAIN xs : xs[i].account = a}
        PROVE  /\ Cardinality(S) \in Nat
               /\ \A i \in DOMAIN xs : xs[i].account = a =>
                    chain[p].nonce[a] <= xs[i].nonce /\ xs[i].nonce < chain[p].nonce[a] + Cardinality(S)
               /\ \A k \in chain[p].nonce[a] .. (chain[p].nonce[a] + Cardinality(S) - 1) :
                    \E i \in DOMAIN xs : xs[i].account = a /\ xs[i].nonce = k
    <2>1. PICK first \in Nat : first = chain[p].nonce[a]
      BY WellTyped
    <2>2. 1 \in S => xs[1].nonce = first
      <3>1. SUFFICES ASSUME 1 \in S PROVE xs[1].nonce = first
        OBVIOUS
      <3>2. 1 \in DOMAIN xs /\ xs[1].account = a
        BY <1>7, <3>1
      <3>3. PICK before : before = {y \in {xs[j] : j \in 1 .. (1 - 1)} : y.account = xs[1].account}
        OBVIOUS
      <3>4. before = {} /\ Cardinality({}) = 0
        BY <3>3, FS_EmptySet
      <3>5. xs[1].nonce = chain[p].nonce[xs[1].account] + Cardinality(before)
        BY <1>2, <3>2, <3>3 DEF Ready
      <3>6. QED
        BY <2>1, <3>2, <3>4, <3>5
    <2>3. 2 \in S => xs[2].nonce = first + (IF 1 \in S THEN 1 ELSE 0)
      <3>1. SUFFICES ASSUME 2 \in S PROVE xs[2].nonce = first + (IF 1 \in S THEN 1 ELSE 0)
        OBVIOUS
      <3>2. 1 \in DOMAIN xs /\ 2 \in DOMAIN xs /\ xs[2].account = a
        BY <1>4, <1>7, <3>1
      <3>3. PICK before : before = {y \in {xs[j] : j \in 1 .. (2 - 1)} : y.account = xs[2].account}
        OBVIOUS
      <3>4. before = IF 1 \in S THEN {xs[1]} ELSE {}
        BY <1>7, <3>2, <3>3
      <3>5. Cardinality({}) = 0 /\ Cardinality({xs[1]}) = 1
        BY FS_EmptySet, FS_Singleton
      <3>6. xs[2].nonce = chain[p].nonce[xs[2].account] + Cardinality(before)
        BY <1>2, <3>2, <3>3 DEF Ready
      <3>7. QED
        BY <2>1, <3>2, <3>4, <3>5, <3>6
    <2>4. S \subseteq {1, 2} /\ \A i \in S : i \in DOMAIN xs /\ xs[i].account = a
      BY <1>4, <1>7
    <2>5. Cardinality(S) = (IF 1 \in S THEN 1 ELSE 0) + (IF 2 \in S THEN 1 ELSE 0)
      BY <2>4, Small
    <2>6. \A i \in S : first <= xs[i].nonce /\ xs[i].nonce < first + Cardinality(S)
      BY <2>2, <2>3, <2>4, <2>5
    <2>7. \A k \in first .. (first + Cardinality(S) - 1) : \E i \in S : xs[i].nonce = k
      BY <2>2, <2>3, <2>5
    <2>8. \A i \in DOMAIN xs : xs[i].account = a => i \in S
      BY <1>7
    <2>9. ASSUME NEW k \in chain[p].nonce[a] .. (chain[p].nonce[a] + Cardinality(S) - 1)
          PROVE  \E i \in DOMAIN xs : xs[i].account = a /\ xs[i].nonce = k
      <3>1. k \in first .. (first + Cardinality(S) - 1)
        BY <2>1
      <3>2. PICK i \in S : xs[i].nonce = k
        BY <2>7, <3>1
      <3>3. QED
        BY <2>4, <3>2
    <2>10. Cardinality(S) \in Nat
      BY <2>5
    <2>11. \A i \in DOMAIN xs : xs[i].account = a =>
             chain[p].nonce[a] <= xs[i].nonce /\ xs[i].nonce < chain[p].nonce[a] + Cardinality(S)
      BY <2>1, <2>6, <2>8
    <2>12. QED
      BY <2>9, <2>10, <2>11
  <1>8. QED
    BY <1>4, <1>5, <1>6, <1>7

LEMMA importSIInv ==
  ASSUME SIInv, NEW p \in DOMAIN chain, NEW xs \in Contents(p), NEW upgrade \in BOOLEAN,
         upgrade => chain[p].version < Len(Index), import(p, xs, upgrade)
  PROVE  SIInv'
  <1> USE DEF SIInv
  <1> DEFINE block0 == [parent |-> p, line |-> chain[p].line \cup {Len(chain) + 1}, xts |-> xs,
                nonce |-> [a \in Accounts |->
                             chain[p].nonce[a] + Cardinality({i \in DOMAIN xs : xs[i].account = a})],
                version |-> IF upgrade THEN chain[p].version + 1 ELSE chain[p].version]
             longer == Cardinality(block0.line) > Cardinality(chain[best].line)
  <1>id. PICK id : id = Len(chain) + 1
    OBVIOUS
  <1>b. PICK b : b = block0
    OBVIOUS
  <1>e. PICK enacted : enacted = IF longer THEN b.line \ chain[best].line ELSE {}
    OBVIOUS
  <1>r. PICK retracted : retracted = IF longer THEN chain[best].line \ b.line ELSE {}
    OBVIOUS
  <1>0. /\ chain' = Append(chain, b)
        /\ best' = IF longer THEN id ELSE best
        /\ pool' = (pool \cup UNION {ToSet(IF c = id THEN xs ELSE chain[c].xts) : c \in retracted})
                     \ UNION {ToSet(IF c = id THEN xs ELSE chain[c].xts) : c \in enacted}
        /\ events_sub' = [t \in Tasks |-> IF connected /\ pc[t] \in {"subscribed", "watching", "events"}
                                          THEN Append(events_sub[t], id) ELSE events_sub[t]]
        /\ xt_sub' = [t \in Tasks |-> IF connected THEN xt_sub[t] \o Tell(t, b, enacted, retracted) ELSE xt_sub[t]]
        /\ UNCHANGED <<client, pc, signer, xt, target, result, signed>>
    BY <1>id, <1>b, <1>e, <1>r DEF import
  <1>1. /\ b.parent = p /\ b.line = chain[p].line \cup {Len(chain) + 1} /\ b.xts = xs
        /\ b.version = IF upgrade THEN chain[p].version + 1 ELSE chain[p].version
        /\ \A a \in Accounts :
             b.nonce[a] = chain[p].nonce[a] + Cardinality({i \in DOMAIN xs : xs[i].account = a})
    BY <1>b
  <1>2. /\ xs \in Seq(Xts) /\ Len(xs) <= 2
        /\ \A i \in DOMAIN xs : /\ xs[i] \in pool /\ xs[i] \in signed /\ xs[i].account \in Accounts
                                /\ xs[i].additional = Runtime(p)
    <2>1. \A i \in DOMAIN xs : xs[i] \in pool /\ xs[i] \in Xts /\ xs[i].additional = Runtime(p)
      BY ContentsFollow
    <2>2. \A x \in Xts : x.account \in Accounts
      BY DEF Xts
    <2>3. xs \in Seq(Xts) /\ Len(xs) <= 2
      BY ContentsFollow
    <2>4. QED
      BY <2>1, <2>2, <2>3 DEF STypeOK
  <1>3. ASSUME NEW a \in Accounts
        PROVE  /\ chain[p].nonce[a] \in Nat /\ b.nonce[a] \in Nat /\ chain[p].nonce[a] <= b.nonce[a]
               /\ \A i \in DOMAIN xs : xs[i].account = a => chain[p].nonce[a] <= xs[i].nonce /\ xs[i].nonce < b.nonce[a]
               /\ \A k \in chain[p].nonce[a] .. (b.nonce[a] - 1) :
                    \E i \in DOMAIN xs : xs[i].account = a /\ xs[i].nonce = k
    <2>1. PICK count : count = Cardinality({i \in DOMAIN xs : xs[i].account = a})
      OBVIOUS
    <2>2. /\ count \in Nat
          /\ \A i \in DOMAIN xs : xs[i].account = a =>
               chain[p].nonce[a] <= xs[i].nonce /\ xs[i].nonce < chain[p].nonce[a] + count
          /\ \A k \in chain[p].nonce[a] .. (chain[p].nonce[a] + count - 1) :
               \E i \in DOMAIN xs : xs[i].account = a /\ xs[i].nonce = k
      BY <2>1, ContentsFollow
    <2>3. b.nonce[a] = chain[p].nonce[a] + count
      BY <1>1, <2>1
    <2>4. chain[p].nonce[a] \in Nat
      BY WellTyped
    <2>5. PICK first, after : first = chain[p].nonce[a] /\ after = b.nonce[a]
      OBVIOUS
    <2>6. first \in Nat /\ after = first + count /\ after \in Nat /\ first <= after
      BY <2>2, <2>3, <2>4, <2>5
    <2>7. /\ \A i \in DOMAIN xs : xs[i].account = a => first <= xs[i].nonce /\ xs[i].nonce < after
          /\ \A k \in first .. (after - 1) : \E i \in DOMAIN xs : xs[i].account = a /\ xs[i].nonce = k
      BY <2>2, <2>5, <2>6
    <2>8. QED
      BY <2>5, <2>6, <2>7
  <1>4. b \in Blocks /\ b.version \in DOMAIN Index
    <2>1. /\ chain[p].version \in DOMAIN Index /\ chain[p].version \in Nat
          /\ chain[p].line \in SUBSET Nat /\ p \in Nat /\ Len(chain) \in Nat
      <3>1. chain \in Seq(Blocks) /\ chain[p].version \in DOMAIN Index
        BY DEF ChainAgrees
      <3>2. p \in Nat /\ Len(chain) \in Nat
        BY <3>1
      <3>3. QED
        BY <3>1, <3>2, WellTyped
    <2>2. b.version \in DOMAIN Index
      BY SubxtAssumption, <1>1, <2>1
    <2>3. [a \in Accounts |-> chain[p].nonce[a] + Cardinality({i \in DOMAIN xs : xs[i].account = a})]
            \in [Accounts -> Nat]
      BY <1>1, <1>3
    <2>4. (IF upgrade THEN chain[p].version + 1 ELSE chain[p].version) \in Nat
      BY <2>1
    <2>5. b \in Blocks
      <3>1. PICK nonces, version, line :
              /\ nonces = [a \in Accounts |->
                             chain[p].nonce[a] + Cardinality({i \in DOMAIN xs : xs[i].account = a})]
              /\ version = IF upgrade THEN chain[p].version + 1 ELSE chain[p].version
              /\ line = chain[p].line \cup {Len(chain) + 1}
        OBVIOUS
      <3>2. b = [parent |-> p, line |-> line, xts |-> xs, nonce |-> nonces, version |-> version]
        BY <1>b, <3>1
      <3>3. nonces \in [Accounts -> Nat] /\ version \in Nat /\ line \in SUBSET Nat
        BY <2>1, <2>3, <2>4, <3>1
      <3>4. QED
        BY <1>2, <2>1, <3>2, <3>3 DEF Blocks
    <2>6. QED
      BY <2>2, <2>5
  <1> HIDE DEF block0, longer
  <1>5. /\ ChainAgrees' /\ NoncesAgree'
        /\ DOMAIN chain' = DOMAIN chain \cup {id} /\ chain'[id] = b
        /\ \A c \in DOMAIN chain : chain'[c] = chain[c] /\ c # id
    <2>1. \A i \in DOMAIN b.xts : /\ b.xts[i] \in signed /\ b.xts[i].additional = Runtime(p)
                                  /\ chain[p].nonce[b.xts[i].account] <= b.xts[i].nonce
                                  /\ b.xts[i].nonce < b.nonce[b.xts[i].account]
      BY <1>1, <1>2, <1>3
    <2>2. \A a \in Accounts :
            /\ chain[p].nonce[a] <= b.nonce[a]
            /\ \A k \in chain[p].nonce[a] .. (b.nonce[a] - 1) :
                 \E i \in DOMAIN b.xts : b.xts[i].account = a /\ b.xts[i].nonce = k
      BY <1>1, <1>3
    <2>3. Len(b.xts) <= 2
      BY <1>1, <1>2
    <2>4. QED
      BY <1>id, <1>0, <1>1, <1>4, <2>1, <2>2, <2>3, ChainGrows
  <1>6. /\ PoolAgrees' /\ pool' \subseteq signed /\ best' \in DOMAIN chain'
        /\ enacted \subseteq DOMAIN chain' /\ retracted \subseteq DOMAIN chain'
        /\ \A x \in pool' : x \in pool \/ \E c \in DOMAIN chain : Holds(c, x)
    <2>1. b.line \subseteq DOMAIN chain' /\ chain[best].line \subseteq DOMAIN chain
      BY <1>id, <1>1, <1>5, InChain DEF STypeOK
    <2>2. \/ best' = best /\ enacted = {} /\ retracted = {}
          \/ best' = id /\ enacted = b.line \ chain[best].line /\ retracted = chain[best].line \ b.line
      BY <1>0, <1>e, <1>r
    <2>3. \A c \in DOMAIN chain' : \A x :
            x \in ToSet(IF c = id THEN xs ELSE chain[c].xts) <=> Holds(c, x)'
      BY <1>1, <1>5 DEF Holds, ToSet
    <2>4. enacted \subseteq DOMAIN chain' /\ retracted \subseteq DOMAIN chain'
      BY <2>1, <2>2, <1>5
    <2>5. \A x \in pool' : /\ x \in pool \/ \E c \in retracted : Holds(c, x)'
                           /\ \A c \in enacted : ~Holds(c, x)'
      BY <1>0, <2>3, <2>4
    <2>6. signed' = signed
      BY <1>0
    <2>7. QED
      BY <1>5, <2>1, <2>2, <2>5, <2>6, PoolMoves, ZenonT(60)
  <1>7. \A c \in DOMAIN chain' : \A x : Holds(c, x)' => (Holds(c, x) /\ c \in DOMAIN chain) \/ x \in pool
    BY <1>1, <1>2, <1>5 DEF Holds
  <1>8. \A t \in Tasks : Reason(t) => Reason(t)'
    BY <1>0, <1>5, ReasonStays
  <1>9. ClientAgrees' /\ SignedAgree' /\ InvalidForAReason'
    <2>1. ClientAgrees'
      BY <1>0 DEF ClientAgrees
    <2>2. SignedAgree'
      BY <1>0 DEF SignedAgree, built, encode, By
    <2>3. InvalidForAReason'
      BY <1>0, <1>8 DEF InvalidForAReason
    <2>4. QED
      BY <2>1, <2>2, <2>3
  <1>10. TasksAgree'
    <2>1. \A t \in Tasks : pc[t] \in {"signed", "subscribed"} =>
            xt[t] \notin pool /\ \A c \in DOMAIN chain : ~Holds(c, xt[t])
      BY DEF TasksAgree
    <2>2. ASSUME NEW t \in Tasks, pc[t] \in {"signed", "subscribed"}
          PROVE  xt[t] \notin pool' /\ \A c \in DOMAIN chain' : ~Holds(c, xt[t])'
      BY <1>0, <1>6, <1>7, <2>1, <2>2
    <2>3. built' = built
      BY <1>0 DEF built
    <2>4. QED
      BY <1>0, <1>5, <2>2, <2>3 DEF TasksAgree
  <1>11. QueuesAgree' /\ STypeOK'
    <2>1. DOMAIN events_sub' = Tasks /\ DOMAIN xt_sub' = Tasks /\ id \in Nat
      BY <1>0, <1>id DEF ChainAgrees
    <2>2. ASSUME NEW t \in Tasks
          PROVE  events_sub'[t] \in Seq(Nat) /\ ToSet(events_sub'[t]) \subseteq DOMAIN chain'
      <3>1. events_sub[t] \in Seq(Nat) /\ ToSet(events_sub[t]) \subseteq DOMAIN chain
        BY DEF QueuesAgree, STypeOK
      <3>2. events_sub'[t] \in {events_sub[t], Append(events_sub[t], id)}
        BY <1>0
      <3>3. /\ Append(events_sub[t], id) \in Seq(Nat)
            /\ ToSet(Append(events_sub[t], id)) = ToSet(events_sub[t]) \cup {id}
        BY <2>1, <3>1, Added
      <3>4. QED
        BY <1>5, <3>1, <3>2, <3>3
    <2>3. ASSUME NEW t \in Tasks
          PROVE  /\ xt_sub'[t] \in Seq(Statuses')
                 /\ pc[t] # "watching" => xt_sub'[t] = <<>>
                 /\ <<"Invalid">> \in ToSet(xt_sub'[t]) => <<"Invalid">> \in ToSet(xt_sub[t])
      <3>1. PICK told : told = Tell(t, b, enacted, retracted)
        OBVIOUS
      <3>2. xt_sub'[t] = IF connected THEN xt_sub[t] \o told ELSE xt_sub[t]
        BY <1>0, <3>1
      <3>3. /\ told \in Seq({"InBlock", "Retracted"} \X DOMAIN chain')
            /\ pc[t] # "watching" => told = <<>>
        <4>1. IsFiniteSet(DOMAIN chain')
          <5>1. chain' \in Seq(Blocks)
            BY <1>5 DEF ChainAgrees
          <5>2. DOMAIN chain' = 1 .. Len(chain') /\ Len(chain') \in Nat
            BY <5>1
          <5>3. PICK n \in Nat : DOMAIN chain' = 1 .. n
            BY <5>2
          <5>4. IsFiniteSet(1 .. n)
            <6>1. 1 \in Int /\ n \in Int
              OBVIOUS
            <6>2. QED
              BY <6>1, FS_Interval
          <5>5. QED
            BY <5>3, <5>4
        <4>2. QED
          BY <4>1, <1>6, <3>1, TellTyped
      <3>4. Statuses \subseteq Statuses' /\ {"InBlock", "Retracted"} \X DOMAIN chain' \subseteq Statuses'
        BY <1>5 DEF Statuses
      <3>5. xt_sub[t] \in Seq(Statuses') /\ told \in Seq(Statuses')
        BY <3>3, <3>4 DEF QueuesAgree
      <3>6. <<"Invalid">> \notin ToSet(told)
        <4>1. \A i \in DOMAIN told : told[i] # <<"Invalid">>
          <5>1. \A i \in DOMAIN told : told[i] \in {"InBlock", "Retracted"} \X DOMAIN chain'
            BY <3>3
          <5>2. <<"Invalid">> \notin {"InBlock", "Retracted"} \X DOMAIN chain'
            OBVIOUS
          <5>3. QED
            BY <5>1, <5>2
        <4>2. QED
          BY <4>1 DEF ToSet
      <3>7. /\ xt_sub[t] \o told \in Seq(Statuses')
            /\ ToSet(xt_sub[t] \o told) = ToSet(xt_sub[t]) \cup ToSet(told)
        BY <3>5, Joined
      <3>8. pc[t] # "watching" => (xt_sub[t] \o told = <<>> /\ xt_sub[t] = <<>>)
        <4>1. pc[t] # "watching" => xt_sub[t] = <<>>
          BY DEF QueuesAgree
        <4>2. <<>> \o <<>> = <<>>
          OBVIOUS
        <4>3. QED
          BY <3>3, <4>1, <4>2
      <3>9. QED
        BY <3>2, <3>5, <3>6, <3>7, <3>8
    <2>4. QueuesAgree'
      BY <1>0, <1>8, <2>1, <2>2, <2>3 DEF QueuesAgree
    <2>5. STypeOK'
      <3>1. \A t \in Tasks : pc[t] = "events" =>
              target[t][1] \in DOMAIN chain /\ target[t][2] \in DOMAIN chain[target[t][1]].xts
        BY DEF STypeOK, TasksAgree
      <3>2. QED
        BY <1>0, <1>5, <1>6, <2>2, <3>1 DEF STypeOK
    <2>6. QED
      BY <2>4, <2>5
  <1>12. QED
    BY <1>5, <1>6, <1>9, <1>10, <1>11

-----------------------------------------------------------------------------

LEMMA StepSIInv == SIInv /\ [SNext]_svars => SIInv'
  <1> SUFFICES ASSUME SIInv, [SNext]_svars PROVE SIInv'
    OBVIOUS
  <1>1. CASE \E p \in DOMAIN chain : \E xs \in Contents(p) :
                \E upgrade \in (IF chain[p].version < Len(Index) THEN BOOLEAN ELSE {FALSE}) :
                    import(p, xs, upgrade)
    <2>p. PICK p \in DOMAIN chain : \E xs \in Contents(p) :
             \E upgrade \in (IF chain[p].version < Len(Index) THEN BOOLEAN ELSE {FALSE}) :
                 import(p, xs, upgrade)
      BY <1>1
    <2>x. PICK xs \in Contents(p) :
             \E upgrade \in (IF chain[p].version < Len(Index) THEN BOOLEAN ELSE {FALSE}) :
                 import(p, xs, upgrade)
      BY <2>p
    <2>1. PICK upgrade \in (IF chain[p].version < Len(Index) THEN BOOLEAN ELSE {FALSE}) :
               import(p, xs, upgrade)
      BY <2>x
    <2>2. upgrade \in BOOLEAN /\ (upgrade => chain[p].version < Len(Index))
      OBVIOUS
    <2>3. QED
      BY <2>1, <2>2, importSIInv
  <1>2. CASE leave \/ disconnect
    BY <1>2, leaveSIInv, disconnectSIInv
  <1>3. CASE \E q \in Requests : ask(q)
    BY <1>3, askSIInv
  <1>4. ASSUME NEW t \in Tasks,
               \/ \E n \in Nonces[t] : set_nonce(t, n)
               \/ sign(t) \/ submit_extrinsic(t) \/ subscribe_events(t)
               \/ watch_extrinsic(t) \/ status(t) \/ block(t) \/ next(t)
        PROVE  SIInv'
    BY <1>4, set_nonceSIInv, signSIInv, submit_extrinsicSIInv, subscribe_eventsSIInv,
       watch_extrinsicSIInv, statusSIInv, blockSIInv, nextSIInv
  <1>5. CASE UNCHANGED svars
    <2> USE <1>5 DEF SIInv, svars, node, task
    <2>1. ClientAgrees' /\ SignedAgree' /\ ChainAgrees' /\ NoncesAgree'
      BY NothingSigned
    <2>2. STypeOK' /\ PoolAgrees' /\ TasksAgree'
      BY DEF STypeOK, PoolAgrees, TasksAgree, Holds, built
    <2>3. QueuesAgree' /\ InvalidForAReason'
      BY DEF QueuesAgree, InvalidForAReason, Reason, Statuses
    <2>4. QED
      BY <2>1, <2>2, <2>3
  <1>6. QED
    BY <1>1, <1>2, <1>3, <1>4, <1>5 DEF SNext

(* The version an extrinsic was signed for, which its block checked, is of *)
(* the metadata its call was encoded with.                                 *)
LEMMA MeantSIInv == SIInv => AppliedAsMeant
  <1> SUFFICES ASSUME SIInv, client["metadata"] = client["runtime_version"],
                      NEW b \in DOMAIN chain, NEW i \in DOMAIN chain[b].xts
               PROVE  Applied(chain[b].xts[i], b) = Call[chain[b].xts[i].id[1]]
    BY DEF AppliedAsMeant
  <1> USE SubxtAssumption DEF SIInv
  <1>1. PICK x : x = chain[b].xts[i]
    OBVIOUS
  <1>2. x \in signed /\ x.additional = Runtime(chain[b].parent)
    BY <1>1 DEF ChainAgrees
  <1>3. PICK v : v = client["runtime_version"][2]
    OBVIOUS
  <1>4. PICK f : f = Call[x.id[1]]
    OBVIOUS
  <1>5. /\ built /\ f \in DOMAIN Index[v] /\ x.call = Index[v][f]
        /\ x.additional = <<v, v + 10, Genesis, Genesis>>
    BY <1>2, <1>3, <1>4 DEF SignedAgree, encode
  <1>6. v \in DOMAIN Index
    BY <1>3, <1>5 DEF ClientAgrees, built, Requests
  <1>7. chain[chain[b].parent].version = v
    BY <1>2, <1>5 DEF Runtime
  <1>8. \A g \in DOMAIN Index[v] : Index[v][g] = x.call => g = f
    BY <1>5, <1>6
  <1>9. Applied(x, b) = f
    BY <1>5, <1>7, <1>8 DEF Applied
  <1>10. QED
    BY <1>1, <1>4, <1>9

(* What the node, the client and the tasks agree on holds in every state a *)
(* client, its tasks and its node can reach, for every tree of blocks, set *)
(* of tasks, failure and upgrade.                                          *)
THEOREM SubxtInvariant == SSpec => []SIInv
  BY InitSIInv, StepSIInv, PTL DEF SSpec

(* A block applies of an extrinsic the function its task called, if client *)
(* and runtime agree, and the pool refuses none without a reason           *)
(* (create_signed, CheckSpecVersion, submit_and_watch_extrinsic).          *)
THEOREM ExtrinsicsStayRight == SSpec => []ExtrinsicsAreRight
  <1>1. SIInv => ExtrinsicsAreRight
    BY MeantSIInv DEF SIInv, ExtrinsicsAreRight
  <1>2. QED
    BY <1>1, SubxtInvariant, PTL

-----------------------------------------------------------------------------
(* What a watch is told.                                                   *)

LEMMA BlocksStay ==
  ASSUME SIInv, [SNext]_svars, NEW c \in DOMAIN chain
  PROVE  c \in DOMAIN chain' /\ chain'[c] = chain[c]
  <1>1. CASE \E b : chain' = Append(chain, b)
    <2>1. PICK b : chain' = Append(chain, b)
      BY <1>1
    <2>2. chain \in Seq(Blocks)
      BY DEF SIInv, ChainAgrees
    <2>3. QED
      BY <2>1, <2>2
  <1>2. CASE UNCHANGED chain
    BY <1>2
  <1>3. ASSUME NEW p \in DOMAIN chain, NEW xs, NEW upgrade, import(p, xs, upgrade)
        PROVE  \E b : chain' = Append(chain, b)
    BY <1>3 DEF import
  <1>4. CASE leave \/ disconnect \/ (\E q \in Requests : ask(q)) \/ UNCHANGED svars
    BY <1>2, <1>4 DEF leave, Leave, disconnect, ask, svars, node
  <1>5. ASSUME NEW t \in Tasks, NEW why, Fail(t, why)
        PROVE  UNCHANGED chain
    BY <1>5 DEF Fail, node
  <1>6. ASSUME NEW t \in Tasks, \/ \E n \in Nonces[t] : set_nonce(t, n)
                                \/ sign(t) \/ submit_extrinsic(t) \/ subscribe_events(t)
        PROVE  UNCHANGED chain
    BY <1>5, <1>6 DEF set_nonce, sign, submit_extrinsic, subscribe_events, node
  <1>7. ASSUME NEW t \in Tasks, watch_extrinsic(t) \/ status(t) \/ block(t) \/ next(t)
        PROVE  UNCHANGED chain
    <2>1. CASE watch_extrinsic(t) \/ status(t)
      BY <1>5, <2>1 DEF watch_extrinsic, status, node
    <2>2. CASE block(t)
      BY <1>5, <2>2 DEF block, node
    <2>3. CASE next(t)
      BY <1>5, <2>3 DEF next, node
    <2>4. QED
      BY <1>7, <2>1, <2>2, <2>3
  <1>8. QED
    BY <1>1, <1>2, <1>3, <1>4, <1>6, <1>7 DEF SNext

LEMMA SameFate ==
  ASSUME SIInv, NEW b \in DOMAIN chain, NEW x,
         \A c \in DOMAIN chain : c \in DOMAIN chain' /\ chain'[c] = chain[c]
  PROVE  chain'[b].xts = chain[b].xts /\ Applied(x, b)' = Applied(x, b) /\ (Fated(x, b)' <=> Fated(x, b))
  <1>1. chain[b].parent \in DOMAIN chain
    BY DEF SIInv, ChainAgrees
  <1>2. chain'[b] = chain[b] /\ chain'[chain[b].parent] = chain[chain[b].parent]
    BY <1>1
  <1>3. Applied(x, b)' = Applied(x, b)
    BY <1>2 DEF Applied
  <1>4. QED
    BY <1>2, <1>3 DEF Fated

(* A task that is told neither success nor a failed dispatch, or keeps     *)
(* what it was told with its extrinsic, was not told anything wrong.       *)
LEMMA TaskNotTold ==
  ASSUME SIInv, TellsAgree, ToldIsItsOwn, [SNext]_svars, NEW t \in Tasks,
         \/ result'[t] = result[t] /\ xt'[t] = xt[t]
         \/ result'[t][1] # "success" /\ result'[t] # <<"error", "Runtime">>,
         pc'[t] = "events" => \/ pc[t] = "events" /\ target'[t] = target[t] /\ xt'[t] = xt[t]
                              \/ /\ target'[t][1] \in DOMAIN chain
                                 /\ chain[target'[t][1]].xts[target'[t][2]] = xt'[t]
  PROVE  WaitsRight(t)' /\ ToldRight(t)'
  <1>1. \A c \in DOMAIN chain : c \in DOMAIN chain' /\ chain'[c] = chain[c]
    BY BlocksStay
  <1>2. WaitsRight(t)'
    <2>1. ASSUME pc'[t] = "events"
          PROVE  chain'[target'[t][1]].xts[target'[t][2]] = xt'[t]
      <3>1. /\ target'[t][1] \in DOMAIN chain
            /\ chain[target'[t][1]].xts[target'[t][2]] = xt'[t]
        BY <2>1 DEF SIInv, TasksAgree, TellsAgree, WaitsRight
      <3>2. QED
        BY <1>1, <3>1
    <2>2. result'[t][1] = "success" => result'[t][2] \in DOMAIN chain'
      BY <1>1 DEF TellsAgree, WaitsRight
    <2>3. QED
      BY <2>1, <2>2 DEF WaitsRight
  <1>3. ASSUME NEW b, NEW x, result'[t][1] = "success", b = result'[t][2], x = xt'[t]
        PROVE  \E i \in DOMAIN chain'[b].xts :
                   /\ chain'[b].xts[i] = x
                   /\ result'[t][3] = {<<i, Applied(x, b)'>>} /\ ~Fated(x, b)'
    <2>1. result'[t] = result[t] /\ xt'[t] = xt[t]
      BY <1>3
    <2>2. b \in DOMAIN chain
      BY <1>3, <2>1 DEF TellsAgree, WaitsRight
    <2>3. PICK i \in DOMAIN chain[b].xts :
             chain[b].xts[i] = x /\ result[t][3] = {<<i, Applied(x, b)>>} /\ ~Fated(x, b)
      BY <1>3, <2>1 DEF ToldIsItsOwn, ToldRight
    <2>4. chain'[b].xts = chain[b].xts /\ Applied(x, b)' = Applied(x, b) /\ (Fated(x, b)' <=> Fated(x, b))
      BY <1>1, <2>2, SameFate
    <2>5. QED
      BY <2>1, <2>3, <2>4
  <1>4. ASSUME NEW x, result'[t] = <<"error", "Runtime">>, x = xt'[t]
        PROVE  \E b \in DOMAIN chain' : x \in ToSet(chain'[b].xts) /\ Fated(x, b)'
    <2>1. result'[t] = result[t] /\ xt'[t] = xt[t]
      BY <1>4
    <2>2. PICK b \in DOMAIN chain : x \in ToSet(chain[b].xts) /\ Fated(x, b)
      BY <1>4, <2>1 DEF ToldIsItsOwn, ToldRight
    <2>3. chain'[b].xts = chain[b].xts /\ (Fated(x, b)' <=> Fated(x, b))
      BY <1>1, SameFate
    <2>4. QED
      BY <1>1, <2>2, <2>3
  <1>5. ToldRight(t)'
    BY <1>3, <1>4 DEF ToldRight
  <1>6. QED
    BY <1>2, <1>5

LEMMA NothingTold ==
  ASSUME SIInv, TellsAgree, ToldIsItsOwn, [SNext]_svars,
         \A t \in Tasks : \/ result'[t] = result[t] /\ xt'[t] = xt[t]
                          \/ result'[t][1] # "success" /\ result'[t] # <<"error", "Runtime">>,
         \A t \in Tasks : pc'[t] = "events" => \/ pc[t] = "events" /\ target'[t] = target[t] /\ xt'[t] = xt[t]
                                               \/ /\ target'[t][1] \in DOMAIN chain
                                                  /\ chain[target'[t][1]].xts[target'[t][2]] = xt'[t]
  PROVE  TellsAgree' /\ ToldIsItsOwn'
  BY TaskNotTold DEF TellsAgree, ToldIsItsOwn

LEMMA FailTold ==
  ASSUME SIInv, TellsAgree, ToldIsItsOwn, [SNext]_svars,
         NEW t \in Tasks, NEW why, why # "Runtime", Fail(t, why)
  PROVE  TellsAgree' /\ ToldIsItsOwn'
  <1>0. /\ DOMAIN pc = Tasks /\ DOMAIN result = Tasks /\ DOMAIN target = Tasks
    BY DEF SIInv, TasksAgree
  <1>1. /\ pc'[t] = "idle" /\ result'[t] = <<"error", why>> /\ xt' = xt
        /\ \A u \in Tasks \ {t} : pc'[u] = pc[u] /\ result'[u] = result[u] /\ target'[u] = target[u]
    BY <1>0 DEF Fail, End, Set
  <1>2. \A u \in Tasks : \/ result'[u] = result[u] /\ xt'[u] = xt[u]
                         \/ result'[u][1] # "success" /\ result'[u] # <<"error", "Runtime">>
    BY <1>1
  <1>3. \A u \in Tasks : pc'[u] = "events" => pc[u] = "events" /\ target'[u] = target[u] /\ xt'[u] = xt[u]
    BY <1>1
  <1>4. QED
    BY <1>2, <1>3, NothingTold

(* The place of an extrinsic is looked up in the block it was told.        *)
LEMMA blockTold ==
  ASSUME SIInv, TellsAgree, ToldIsItsOwn, [SNext]_svars, NEW t \in Tasks, block(t)
  PROVE  TellsAgree' /\ ToldIsItsOwn'
  <1> DEFINE b == target[t][1]
             places == {i \in DOMAIN chain[b].xts : chain[b].xts[i] = xt[t]}
  <1>0. b \in DOMAIN chain /\ DOMAIN pc = Tasks /\ DOMAIN target = Tasks
    BY DEF SIInv, TasksAgree, block
  <1>1. CASE \E why \in {"Failed to find Extrinsic", "Failed to find block", "request"} : Fail(t, why)
    BY <1>1, FailTold
  <1>2. CASE /\ places # {}
             /\ Set(target, t, <<b, Min(places)>>) /\ Set(pc, t, "events")
             /\ UNCHANGED <<node, connected, client, signer, xt, events_sub, xt_sub, result, signed>>
    <2>1. Min(places) \in places
      <3>1. chain[b].xts \in Seq(Xts) /\ Len(chain[b].xts) <= 2
        BY <1>0, WellTyped DEF SIInv, ChainAgrees
      <3>2. DOMAIN chain[b].xts = 1 .. Len(chain[b].xts) /\ Len(chain[b].xts) \in 0 .. 2
        BY <3>1, Short
      <3>3. places \subseteq {1, 2}
        BY <3>2
      <3> HIDE DEF places
      <3>4. QED
        BY <1>2, <3>3, Least
    <2>2. PICK m : m = Min(places) /\ chain[b].xts[m] = xt[t]
      BY <2>1
    <2>3. /\ target' = [target EXCEPT ![t] = <<b, m>>] /\ pc' = [pc EXCEPT ![t] = "events"]
          /\ UNCHANGED <<xt, result>>
      BY <1>2, <2>2 DEF Set
    <2>4. target'[t] = <<b, m>> /\ \A u \in Tasks \ {t} : pc'[u] = pc[u] /\ target'[u] = target[u]
      BY <1>0, <2>3
    <2>5. target'[t][1] \in DOMAIN chain /\ chain[target'[t][1]].xts[target'[t][2]] = xt'[t]
      <3> HIDE DEF b
      <3>1. target'[t][1] = b /\ target'[t][2] = m /\ chain[b].xts[m] = xt[t]
        BY <2>2, <2>4
      <3>2. QED
        BY <1>0, <2>3, <3>1
    <2>6. QED
      BY <2>3, <2>4, <2>5, NothingTold
  <1>3. QED
    BY <1>1, <1>2 DEF block

(* The events of the block that was waited for, of one extrinsic.          *)
LEMMA nextTold ==
  ASSUME SIInv, TellsAgree, ToldIsItsOwn, [SNext]_svars, NEW t \in Tasks, next(t)
  PROVE  TellsAgree' /\ ToldIsItsOwn'
  <1> DEFINE b0 == Head(events_sub[t])
             events0 == filter_extrinsic(Records(b0), target[t][2])
  <1>0. /\ pc[t] = "events" /\ DOMAIN pc = Tasks /\ DOMAIN result = Tasks /\ DOMAIN target = Tasks
        /\ target[t][1] \in DOMAIN chain /\ target[t][2] \in DOMAIN chain[target[t][1]].xts
        /\ chain[target[t][1]].xts[target[t][2]] = xt[t]
    BY DEF SIInv, STypeOK, TasksAgree, TellsAgree, WaitsRight, next
  <1>1. CASE UNCHANGED <<pc, xt, target, result>>
    BY <1>1, NothingTold
  <1>2. CASE Fail(t, "Codec")
    BY <1>2, FailTold
  <1>b. PICK b : b = b0
    OBVIOUS
  <1>x. PICK x : x = xt[t]
    OBVIOUS
  <1>i. PICK i : i = target[t][2]
    OBVIOUS
  <1>e. PICK events : events = events0
    OBVIOUS
  <1>3. \/ UNCHANGED <<pc, xt, target, result>>
        \/ Fail(t, "Codec")
        \/ b = target[t][1] /\ (\E r \in events : r.failed) /\ Fail(t, "Runtime")
        \/ /\ b = target[t][1] /\ ~(\E r \in events : r.failed)
           /\ End(t, <<"success", b, {<<r.index, r.event>> : r \in events}>>)
           /\ UNCHANGED xt
    <2>1. IF b0 # target[t][1]
          THEN /\ Set(events_sub, t, Tail(events_sub[t]))
               /\ UNCHANGED <<node, connected, client, pc, signer, xt, xt_sub, target, result, signed>>
          ELSE IF client["metadata"][2] # chain[chain[b0].parent].version THEN Fail(t, "Codec")
          ELSE IF \E r \in events0 : r.failed THEN Fail(t, "Runtime")
          ELSE /\ End(t, <<"success", b0, {<<r.index, r.event>> : r \in events0}>>)
               /\ Set(signer, t, increment_nonce(signer[t]))
               /\ UNCHANGED <<node, connected, client, xt, signed>>
      BY DEF next
    <2> HIDE DEF b0, events0
    <2>2. QED
      BY <2>1, <1>b, <1>e DEF End, Set
  <1>4. b = target[t][1] => /\ b \in DOMAIN chain /\ i \in DOMAIN chain[b].xts /\ chain[b].xts[i] = x
                            /\ events = {[index |-> i, event |-> Applied(x, b), failed |-> Fated(x, b)]}
    <2>1. SUFFICES ASSUME b = target[t][1]
                   PROVE  /\ b \in DOMAIN chain /\ i \in DOMAIN chain[b].xts /\ chain[b].xts[i] = x
                          /\ events = {[index |-> i, event |-> Applied(x, b), failed |-> Fated(x, b)]}
      OBVIOUS
    <2>2. b \in DOMAIN chain /\ i \in DOMAIN chain[b].xts /\ chain[b].xts[i] = x
      BY <1>0, <1>x, <1>i, <2>1
    <2>3. events = {r \in Records(b) : r.index = i}
      BY <1>b, <1>e, <1>i DEF filter_extrinsic
    <2>4. QED
      BY <2>2, <2>3 DEF Records
  <1>5. \A c \in DOMAIN chain : c \in DOMAIN chain' /\ chain'[c] = chain[c]
    BY BlocksStay
  <1>6. \A u \in Tasks \ {t} : /\ result'[u] = result[u] /\ xt'[u] = xt[u]
                              /\ pc'[u] = pc[u] /\ target'[u] = target[u]
    BY <1>0, <1>3 DEF Fail, End, Set
  <1>7. ASSUME WaitsRight(t)', ToldRight(t)'
        PROVE  TellsAgree' /\ ToldIsItsOwn'
    <2>1. \A u \in Tasks \ {t} : WaitsRight(u)' /\ ToldRight(u)'
      BY <1>6, TaskNotTold
    <2>2. QED
      BY <1>7, <2>1 DEF TellsAgree, ToldIsItsOwn
  <1>8. CASE b = target[t][1] /\ (\E r \in events : r.failed) /\ Fail(t, "Runtime")
    <2>1. Fated(x, b) /\ x \in ToSet(chain[b].xts) /\ b \in DOMAIN chain
      BY <1>4, <1>8 DEF ToSet
    <2>2. Fated(x, b)' /\ x \in ToSet(chain'[b].xts) /\ b \in DOMAIN chain'
      BY <1>5, <2>1, SameFate
    <2>3. pc'[t] = "idle" /\ result'[t] = <<"error", "Runtime">> /\ x = xt'[t]
      BY <1>0, <1>8, <1>x DEF Fail, End, Set
    <2>4. WaitsRight(t)'
      BY <2>3 DEF WaitsRight
    <2>5. ToldRight(t)'
      <3>1. ASSUME NEW y, y = xt'[t] PROVE \E c \in DOMAIN chain' : y \in ToSet(chain'[c].xts) /\ Fated(y, c)'
        BY <2>2, <2>3, <3>1
      <3>2. result'[t][1] # "success"
        BY <2>3
      <3>3. QED
        BY <3>1, <3>2 DEF ToldRight
    <2>6. QED
      BY <1>7, <2>4, <2>5
  <1>9. CASE /\ b = target[t][1] /\ ~(\E r \in events : r.failed)
             /\ End(t, <<"success", b, {<<r.index, r.event>> : r \in events}>>)
             /\ UNCHANGED xt
    <2>1. /\ b \in DOMAIN chain /\ i \in DOMAIN chain[b].xts /\ chain[b].xts[i] = x
          /\ events = {[index |-> i, event |-> Applied(x, b), failed |-> Fated(x, b)]}
      BY <1>4, <1>9
    <2>2. ~Fated(x, b)
      BY <1>9, <2>1
    <2>3. PICK what : what = {<<r.index, r.event>> : r \in events}
      OBVIOUS
    <2>4. what = {<<i, Applied(x, b)>>}
      BY <2>1, <2>3
    <2>5. pc'[t] = "idle" /\ result'[t] = <<"success", b, what>> /\ x = xt'[t]
      BY <1>0, <1>9, <1>x, <2>3 DEF End, Set
    <2>6. /\ b \in DOMAIN chain' /\ chain'[b].xts = chain[b].xts
          /\ Applied(x, b)' = Applied(x, b) /\ (Fated(x, b)' <=> Fated(x, b))
      BY <1>5, <2>1, SameFate
    <2>7. WaitsRight(t)'
      BY <2>5, <2>6 DEF WaitsRight
    <2>8. ToldRight(t)'
      <3>1. ASSUME NEW y, NEW c, c = result'[t][2], y = xt'[t]
            PROVE  \E k \in DOMAIN chain'[c].xts :
                       /\ chain'[c].xts[k] = y
                       /\ result'[t][3] = {<<k, Applied(y, c)'>>} /\ ~Fated(y, c)'
        <4>1. y = x /\ c = b /\ result'[t][3] = {<<i, Applied(x, b)'>>} /\ ~Fated(x, b)'
          BY <3>1, <2>2, <2>4, <2>5, <2>6
        <4>2. i \in DOMAIN chain'[b].xts /\ chain'[b].xts[i] = x
          BY <2>1, <2>6
        <4>3. QED
          BY <4>1, <4>2
      <3>2. result'[t] # <<"error", "Runtime">>
        BY <2>5
      <3>3. QED
        BY <3>1, <3>2 DEF ToldRight
    <2>9. QED
      BY <1>7, <2>7, <2>8
  <1>10. QED
    BY <1>1, <1>2, <1>3, <1>8, <1>9

LEMMA StepTold == SIInv /\ TellsAgree /\ ToldIsItsOwn /\ [SNext]_svars => TellsAgree' /\ ToldIsItsOwn'
  <1> SUFFICES ASSUME SIInv, TellsAgree, ToldIsItsOwn, [SNext]_svars
               PROVE  TellsAgree' /\ ToldIsItsOwn'
    OBVIOUS
  <1>0. /\ DOMAIN pc = Tasks /\ DOMAIN result = Tasks /\ DOMAIN target = Tasks /\ DOMAIN xt = Tasks
    BY DEF SIInv, TasksAgree
  <1>1. CASE UNCHANGED <<pc, xt, target, result>>
    BY <1>1, NothingTold
  <1>2. ASSUME NEW p \in DOMAIN chain, NEW xs, NEW upgrade, import(p, xs, upgrade)
        PROVE  TellsAgree' /\ ToldIsItsOwn'
    BY <1>1, <1>2 DEF import
  <1>3. CASE leave \/ disconnect \/ (\E q \in Requests : ask(q)) \/ UNCHANGED svars
    BY <1>1, <1>3 DEF leave, Leave, disconnect, ask, task, svars
  <1>4. ASSUME NEW t \in Tasks, pc'[t] # "events",
               \A u \in Tasks \ {t} : /\ pc'[u] = pc[u] /\ result'[u] = result[u]
                                      /\ target'[u] = target[u] /\ xt'[u] = xt[u],
               \/ result'[t] = result[t] /\ xt'[t] = xt[t]
               \/ result'[t][1] # "success" /\ result'[t] # <<"error", "Runtime">>
        PROVE  TellsAgree' /\ ToldIsItsOwn'
    BY <1>4, NothingTold
  <1>5. ASSUME NEW t \in Tasks, NEW why, why # "Runtime", Fail(t, why)
        PROVE  TellsAgree' /\ ToldIsItsOwn'
    BY <1>5, FailTold
  <1>6. ASSUME NEW t \in Tasks, \E n \in Nonces[t] : set_nonce(t, n)
        PROVE  TellsAgree' /\ ToldIsItsOwn'
    BY <1>1, <1>6 DEF set_nonce
  <1>7. ASSUME NEW t \in Tasks, sign(t)
        PROVE  TellsAgree' /\ ToldIsItsOwn'
    <2>1. CASE Fail(t, "account") \/ Fail(t, "metadata")
      BY <1>5, <2>1
    <2>2. CASE /\ (\E x : Set(xt, t, x)) /\ Set(pc, t, "signed") /\ Set(result, t, None) /\ UNCHANGED target
      <3>1. PICK x : xt' = [xt EXCEPT ![t] = x]
        BY <2>2 DEF Set
      <3>2. /\ pc' = [pc EXCEPT ![t] = "signed"] /\ result' = [result EXCEPT ![t] = None] /\ UNCHANGED target
        BY <2>2 DEF Set
      <3>3. xt'[t] = x /\ result'[t] = None /\ pc'[t] = "signed"
        BY <1>0, <3>1, <3>2
      <3>4. None[1] # "success" /\ None # <<"error", "Runtime">>
        BY DEF None
      <3>5. QED
        BY <1>0, <1>4, <3>1, <3>2, <3>3, <3>4
    <2>3. QED
      BY <1>7, <2>1, <2>2 DEF sign
  <1>8. ASSUME NEW t \in Tasks, submit_extrinsic(t)
        PROVE  TellsAgree' /\ ToldIsItsOwn'
    <2>1. CASE Fail(t, "Invalid") \/ Fail(t, "priority") \/ Fail(t, "request")
      BY <1>5, <2>1
    <2>2. CASE Set(pc, t, "idle") /\ Set(result, t, <<"hash", xt[t].id>>) /\ UNCHANGED <<xt, target>>
      <3>1. /\ pc' = [pc EXCEPT ![t] = "idle"] /\ result' = [result EXCEPT ![t] = <<"hash", xt[t].id>>]
            /\ UNCHANGED <<xt, target>>
        BY <2>2 DEF Set
      <3>2. pc'[t] = "idle" /\ result'[t][1] # "success" /\ result'[t] # <<"error", "Runtime">>
        BY <1>0, <3>1
      <3>3. QED
        BY <1>0, <1>4, <3>1, <3>2
    <2>3. QED
      BY <1>8, <2>1, <2>2 DEF submit_extrinsic
  <1>9. ASSUME NEW t \in Tasks, NEW v \in {"subscribed", "watching", "block"}, Set(pc, t, v),
               UNCHANGED <<xt, result>>, \A u \in Tasks \ {t} : target'[u] = target[u]
        PROVE  TellsAgree' /\ ToldIsItsOwn'
    <2>1. pc' = [pc EXCEPT ![t] = v]
      BY <1>9 DEF Set
    <2>2. pc'[t] # "events" /\ \A u \in Tasks \ {t} : pc'[u] = pc[u]
      BY <1>0, <2>1
    <2>3. QED
      BY <1>4, <1>9, <2>2
  <1>10. ASSUME NEW t \in Tasks, subscribe_events(t) \/ watch_extrinsic(t)
         PROVE  TellsAgree' /\ ToldIsItsOwn'
    <2>1. CASE Fail(t, "Invalid") \/ Fail(t, "priority") \/ Fail(t, "request")
      BY <1>5, <2>1
    <2>2. CASE (Set(pc, t, "subscribed") \/ Set(pc, t, "watching")) /\ UNCHANGED <<xt, target, result>>
      BY <1>9, <2>2
    <2>3. QED
      BY <1>10, <2>1, <2>2 DEF subscribe_events, watch_extrinsic
  <1>11. ASSUME NEW t \in Tasks, status(t)
         PROVE  TellsAgree' /\ ToldIsItsOwn'
    <2> DEFINE s == Head(xt_sub[t])
    <2>1. CASE s[1] = "Ready"
      BY <1>1, <1>11, <2>1 DEF status
    <2>2. CASE s[1] = "InBlock"
      <3>1. Set(pc, t, "block") /\ Set(target, t, <<s[2], 0>>) /\ UNCHANGED <<xt, result>>
        BY <1>11, <2>2 DEF status
      <3>2. \A u \in Tasks \ {t} : target'[u] = target[u]
        BY <1>0, <3>1 DEF Set
      <3>3. QED
        BY <1>9, <3>1, <3>2
    <2>3. CASE s[1] \notin {"Ready", "InBlock"}
      <3>1. Fail(t, s[1])
        BY <1>11, <2>3 DEF status
      <3>2. s[1] # "Runtime"
        <4>1. xt_sub[t] \in Seq(Statuses) /\ xt_sub[t] # <<>>
          BY <1>11 DEF SIInv, QueuesAgree, status
        <4>2. s \in Statuses
          BY <4>1, Taken
        <4>3. QED
          BY <4>2 DEF Statuses
      <3>3. QED
        BY <1>5, <3>1, <3>2
    <2>4. QED
      BY <2>1, <2>2, <2>3
  <1>12. ASSUME NEW t \in Tasks, block(t) \/ next(t)
         PROVE  TellsAgree' /\ ToldIsItsOwn'
    BY <1>12, blockTold, nextTold
  <1>13. QED
    BY <1>2, <1>3, <1>6, <1>7, <1>8, <1>10, <1>11, <1>12 DEF SNext

(* A watch that is told success is told the event of its own extrinsic, in *)
(* a block that holds it, and a failed dispatch only if its own failed,    *)
(* whatever forks and upgrades came meanwhile (EventSubscription::next).   *)
THEOREM WatchesAreToldTheirOwn == SSpec => []ToldIsItsOwn
  <1>1. SInit => TellsAgree /\ ToldIsItsOwn
    BY DEF SInit, TellsAgree, ToldIsItsOwn, WaitsRight, ToldRight, None
  <1>2. QED
    BY <1>1, StepTold, SubxtInvariant, PTL DEF SSpec

-----------------------------------------------------------------------------
(* KeyIter *)

(* A set of numbers has a least one.                                       *)
LEMMA LeastNumber ==
  ASSUME NEW S, S \subseteq Nat, S # {}
  PROVE  \E n \in S : \A m \in S : n <= m
  <1>1. PICK n \in S : \A m \in S : ~ (<<m, n>> \in OpToRel(<, Nat))
    BY NatLessThanWellFounded, WFMin
  <1>2. \A m \in S : ~ (m < n)
    BY <1>1 DEF OpToRel
  <1>3. QED
    BY <1>2

(* A set in order: its members, the last of which is the greatest.         *)
LEMMA InOrderIs ==
  ASSUME NEW S, S \subseteq Keys, NEW s \in InOrder(S)
  PROVE  /\ s \in Seq(S) /\ s \in Seq(Keys) /\ ToSet(s) = S /\ (s = <<>> <=> S = {})
         /\ DOMAIN s = 1..Len(s) /\ Len(s) \in Nat
         /\ \A i, j \in DOMAIN s : s[i] = s[j] => i = j
         /\ s # <<>> => Last(s) \in S /\ \A k \in S : k <= Last(s)
  <1>1. IsFiniteSet(S) /\ Cardinality(S) \in Nat
    BY KeyIterAssumption, FS_Subset, FS_CardinalityType
  <1>2. PICK n \in Nat : n = Cardinality(S)
    BY <1>1
  <1>3. s \in [1..n -> S] /\ ToSet(s) = S /\ \A i, j \in 1..n : i < j => s[i] < s[j]
    BY <1>2 DEF InOrder
  <1>4. s \in Seq(S) /\ Len(s) = n /\ DOMAIN s = 1..n
    BY <1>3
  <1>5. s = <<>> <=> S = {}
    BY <1>3, <1>4 DEF ToSet
  <1>6. \A k \in S : k \in Nat
    BY KeyIterAssumption
  <1>7. \A i, j \in 1..n : s[i] = s[j] => i = j
    <2>1. \A i, j \in 1..n : i < j => s[i] # s[j]
      BY <1>3, <1>6
    <2>2. QED
      BY <2>1
  <1>8. ASSUME s # <<>> PROVE Last(s) \in S /\ \A k \in S : k <= Last(s)
    <2>1. n \in 1..n /\ Last(s) = s[n]
      BY <1>4, <1>8 DEF Last
    <2>2. ASSUME NEW k \in S PROVE k <= s[n]
      <3>1. PICK i \in 1..n : s[i] = k
        BY <1>3, <1>4 DEF ToSet
      <3>2. i = n \/ s[i] < s[n]
        BY <1>3, <2>1
      <3>3. s[n] \in Nat /\ k \in Nat
        BY <1>3, <1>6, <2>1
      <3>4. QED
        BY <3>1, <3>2, <3>3
    <2>3. QED
      BY <1>3, <2>1, <2>2
  <1>9. s \in Seq(Keys)
    BY <1>4, SeqMonotonic
  <1>10. QED
    BY <1>3, <1>4, <1>5, <1>7, <1>8, <1>9

(* The first of a set of keys: with each, those below it; and none is left *)
(* out as long as none is taken.                                           *)
LEMMA FirstIs ==
  ASSUME NEW S, S \subseteq Keys, NEW count \in Nat
  PROVE  /\ First(count, S) \subseteq S
         /\ \A k \in S, m \in First(count, S) : k <= m => k \in First(count, S)
         /\ count > 0 /\ First(count, S) = {} => S = {}
         /\ count = 0 => First(count, S) = {}
  <1>1. S \subseteq Nat /\ IsFiniteSet(S)
    BY KeyIterAssumption, FS_Subset
  <1>2. ASSUME NEW k \in S PROVE IsFiniteSet({j \in S : j < k}) /\ Cardinality({j \in S : j < k}) \in Nat
    BY <1>1, FS_Subset, FS_CardinalityType
  <1>3. ASSUME NEW k \in S, NEW m \in First(count, S), k <= m PROVE k \in First(count, S)
    <2>1. m \in S /\ Cardinality({j \in S : j < m}) < count
      BY DEF First
    <2>2. {j \in S : j < k} \subseteq {j \in S : j < m}
      <3>1. k \in Nat /\ m \in Nat /\ k <= m
        BY <1>1, <1>3, <2>1
      <3>2. \A j \in S : j < k => j < m
        <4>1. SUFFICES ASSUME NEW j \in S, j < k PROVE j < m
          OBVIOUS
        <4>2. j \in Nat
          BY <1>1
        <4>3. QED
          BY <3>1, <4>1, <4>2
      <3>3. QED
        BY <3>2
    <2>3. Cardinality({j \in S : j < k}) <= Cardinality({j \in S : j < m})
      BY <1>2, <2>1, <2>2, FS_Subset
    <2>4. Cardinality({j \in S : j < k}) < count
      BY <1>2, <2>1, <2>3
    <2>5. QED
      BY <2>4 DEF First
  <1>4. ASSUME count > 0, S # {} PROVE First(count, S) # {}
    <2>1. PICK k \in S : \A m \in S : k <= m
      BY <1>1, <1>4, LeastNumber
    <2>2. {j \in S : j < k} = {}
      <3>1. \A j \in S : ~ (j < k)
        <4>1. SUFFICES ASSUME NEW j \in S PROVE ~ (j < k)
          OBVIOUS
        <4>2. j \in Nat /\ k \in Nat /\ k <= j
          BY <1>1, <2>1
        <4>3. QED
          BY <4>2
      <3>2. QED
        BY <3>1
    <2>3. Cardinality({j \in S : j < k}) < count
      BY <1>4, <2>2, FS_EmptySet
    <2>4. k \in First(count, S)
      BY <2>3 DEF First
    <2>5. QED
      BY <2>4
  <1>5. ASSUME count = 0 PROVE First(count, S) = {}
    <2>1. \A k \in S : ~ (Cardinality({j \in S : j < k}) < count)
      BY <1>2, <1>5
    <2>2. QED
      BY <2>1 DEF First
  <1>6. First(count, S) \subseteq S
    BY DEF First
  <1>7. QED
    BY <1>3, <1>4, <1>5, <1>6

(* How often a key was handed out, when one more entry is.                 *)
LEMMA TimesAppended ==
  ASSUME NEW T, listed \in Seq(T), NEW e, listed' = Append(listed, e), NEW k
  PROVE  Times(k) \in Nat /\ Times(k)' = Times(k) + (IF e[1] = k THEN 1 ELSE 0)
  <1>1. PICK n \in Nat : n = Len(listed) /\ DOMAIN listed = 1..n
    OBVIOUS
  <1>2. DOMAIN listed' = 1..(n + 1) /\ listed'[n + 1] = e /\ \A i \in 1..n : listed'[i] = listed[i]
    BY <1>1
  <1>3. PICK A : A = {i \in DOMAIN listed : listed[i][1] = k}
    OBVIOUS
  <1>4. IsFiniteSet(A)
    <2>1. IsFiniteSet(1..n)
      BY FS_Interval
    <2>2. A \subseteq 1..n
      BY <1>1, <1>3
    <2>3. QED
      BY <2>1, <2>2, FS_Subset
  <1>5. PICK B : B = {i \in DOMAIN listed' : listed'[i][1] = k}
    OBVIOUS
  <1>6. B = IF e[1] = k THEN A \cup {n + 1} ELSE A
    <2>1. \A i \in 1..(n + 1) : i = n + 1 \/ i \in 1..n
      OBVIOUS
    <2>2. \A i \in 1..n : i \in 1..(n + 1)
      OBVIOUS
    <2>3. \A i \in B : i \in A \/ (i = n + 1 /\ e[1] = k)
      BY <1>1, <1>2, <1>3, <1>5, <2>1
    <2>4. \A i \in A : i \in B
      BY <1>1, <1>2, <1>3, <1>5, <2>2
    <2>5. n + 1 \in B <=> e[1] = k
      BY <1>2, <1>5
    <2>6. QED
      BY <2>3, <2>4, <2>5
  <1>7. n + 1 \notin A
    BY <1>1, <1>3
  <1>8. Cardinality(A) \in Nat /\ Cardinality(A \cup {n + 1}) = Cardinality(A) + 1
    BY <1>4, <1>7, FS_AddElement, FS_CardinalityType
  <1>9. Times(k) = Cardinality(A) /\ Times(k)' = Cardinality(B)
    BY <1>3, <1>5 DEF Times
  <1>10. QED
    BY <1>6, <1>8, <1>9

LEMMA TimesIsNat ==
  ASSUME NEW T, listed \in Seq(T), NEW k
  PROVE  Times(k) \in Nat
  <1>1. IsFiniteSet({i \in DOMAIN listed : listed[i][1] = k})
    <2>1. PICK n \in Nat : DOMAIN listed = 1..n
      OBVIOUS
    <2>2. IsFiniteSet(DOMAIN listed)
      BY <2>1, FS_Interval
    <2>3. QED
      BY <2>2, FS_Subset
  <1>2. QED
    BY <1>1, FS_CardinalityType DEF Times

(* The last entry of a sequence, and those before it.                      *)
LEMMA Popped ==
  ASSUME NEW T, NEW s \in Seq(T), s # <<>>
  PROVE  /\ Front(s) \in Seq(T) /\ Last(s) \in T /\ Last(s) \in ToSet(s) /\ ToSet(s) = ToSet(Front(s)) \cup {Last(s)}
         /\ Len(s) \in Nat \ {0} /\ DOMAIN s = 1..Len(s) /\ DOMAIN Front(s) = 1..(Len(s) - 1) /\ Last(s) = s[Len(s)]
         /\ \A i \in 1..(Len(s) - 1) : Front(s)[i] = s[i]
  <1>1. PICK n \in Nat \ {0} : n = Len(s) /\ DOMAIN s = 1..n
    OBVIOUS
  <1>2. Last(s) = s[n] /\ n \in 1..n
    BY <1>1 DEF Last
  <1>3. Front(s) \in Seq(T) /\ DOMAIN Front(s) = 1..(n - 1) /\ \A i \in 1..(n - 1) : Front(s)[i] = s[i]
    BY <1>1 DEF Front
  <1>4. \A i \in 1..n : i = n \/ i \in 1..(n - 1)
    OBVIOUS
  <1>5. \A i \in 1..(n - 1) : i \in 1..n
    OBVIOUS
  <1>6. ToSet(s) = ToSet(Front(s)) \cup {Last(s)}
    <2>1. \A x \in ToSet(s) : x \in ToSet(Front(s)) \cup {Last(s)}
      BY <1>1, <1>2, <1>3, <1>4 DEF ToSet
    <2>2. \A x \in ToSet(Front(s)) \cup {Last(s)} : x \in ToSet(s)
      BY <1>1, <1>2, <1>3, <1>5 DEF ToSet
    <2>3. QED
      BY <2>1, <2>2
  <1>7. QED
    BY <1>1, <1>2, <1>3, <1>6

(* The map at a block of the chain is of the keys and the values.          *)
LEMMA MapIs ==
  ASSUME NEW m \in Maps
  PROVE  DOMAIN m \subseteq Keys /\ \A k \in DOMAIN m : k \in Nat \ {0} /\ m[k] \in Values
  BY KeyIterAssumption DEF Maps

LEMMA HashIs ==
  ASSUME KIInv, state # "none"
  PROVE  /\ hash \in 1..latest /\ blocks[hash] \in Maps /\ DOMAIN blocks[hash] \subseteq Keys
         /\ \A k \in DOMAIN blocks[hash] : k \in Nat \ {0} /\ blocks[hash][k] \in Values
  <1>1. hash \in 0..latest /\ hash # 0 /\ blocks \in Seq(Maps)
    BY DEF KIInv, KTypeOK, KTyped
  <1>2. hash \in 1..latest /\ blocks[hash] \in Maps
    BY <1>1 DEF latest
  <1>3. QED
    BY <1>2, MapIs

LEMMA StartIs ==
  ASSUME KIInv
  PROVE  start_key \in Nat /\ page_size \in Nat /\ \A k \in Keys : k \in Nat \ {0}
  <1>1. start_key \in Keys \cup {NoKey} /\ page_size \in PageSizes
    BY DEF KIInv, KTypeOK, KTyped
  <1>2. NoKey \in Nat /\ Keys \subseteq Nat \ {0} /\ PageSizes \subseteq Nat
    BY KeyIterAssumption DEF NoKey
  <1>3. QED
    BY <1>1, <1>2

LEMMA InitKIInv ==
  ASSUME KInit
  PROVE  KIInv
  <1> USE DEF KInit
  <1>1. blocks \in Seq(Maps) /\ latest = 1
    BY DEF latest
  <1>2. \A k \in Keys : k > NoKey
    BY KeyIterAssumption DEF NoKey
  <1>3. ToSet(<<>>) = {}
    BY DEF ToSet
  <1>4. \A k \in Keys : Times(k) = 0
    BY FS_EmptySet DEF Times
  <1>5. KTypeOK
    BY <1>1, <1>3, KeyIterAssumption DEF KTypeOK, NoKey
  <1>6. KTyped
    BY <1>1 DEF KTyped
  <1>7. ReadsAgree /\ PageAgrees /\ OnceAtLeast
    BY <1>3 DEF ReadsAgree, PageAgrees, OnceAtLeast
  <1>8. OnceLess
    BY <1>2, <1>4 DEF OnceLess, ToCome
  <1>9. QED
    BY <1>5, <1>6, <1>7, <1>8 DEF KIInv

(* A block more leaves the blocks before it as they were.                  *)
LEMMA GrowKIInv ==
  ASSUME KIInv, grow
  PROVE  KIInv'
  <1>1. blocks \in Seq(Maps) /\ latest \in Nat \ {0} /\ latest = Len(blocks) /\ hash \in 0..latest
    BY DEF KIInv, KTypeOK, KTyped, latest
  <1>2. PICK k \in Keys, v \in (Values \ Garbled) \cup {NoValue} :
               LET old == blocks[latest]
                   K == IF v = NoValue THEN DOMAIN old \ {k} ELSE DOMAIN old \cup {k}
               IN blocks' = Append(blocks, [j \in K |-> IF j = k THEN v ELSE old[j]])
    BY DEF grow
  <1>3. PICK m : blocks' = Append(blocks, m) /\ m \in Maps
    <2>1. PICK old : old = blocks[latest] /\ DOMAIN old \subseteq Keys /\ \A j \in DOMAIN old : old[j] \in Values
      BY <1>1, MapIs
    <2>2. PICK K : K = IF v = NoValue THEN DOMAIN old \ {k} ELSE DOMAIN old \cup {k}
      OBVIOUS
    <2>3. K \subseteq Keys
      BY <2>1, <2>2
    <2>4. \A j \in K : (IF j = k THEN v ELSE old[j]) \in Values
      <3>1. SUFFICES ASSUME NEW j \in K PROVE (IF j = k THEN v ELSE old[j]) \in Values
        OBVIOUS
      <3>2. CASE j = k
        <4>1. v # NoValue
          BY <2>2, <3>2
        <4>2. QED
          BY <3>2, <4>1
      <3>3. CASE j # k
        BY <2>1, <2>2, <3>3
      <3>4. QED
        BY <3>2, <3>3
    <2>5. [j \in K |-> IF j = k THEN v ELSE old[j]] \in Maps
      BY <2>3, <2>4 DEF Maps
    <2>6. blocks' = Append(blocks, [j \in K |-> IF j = k THEN v ELSE old[j]])
      BY <1>2, <2>1, <2>2
    <2>7. QED
      BY <2>5, <2>6
  <1>4. /\ blocks' \in Seq(Maps) /\ latest' = latest + 1
        /\ \A n \in 1..latest : blocks'[n] = blocks[n]
    BY <1>1, <1>3 DEF latest
  <1>5. /\ hash' = hash /\ start_key' = start_key /\ keys' = keys /\ buffer' = buffer /\ state' = state
        /\ listed' = listed /\ failed' = failed /\ lost' = lost /\ page_size' = page_size /\ fetched' = fetched
    BY DEF grow, ivars
  <1>6. KTypeOK'
    BY <1>1, <1>4, <1>5 DEF KIInv, KTypeOK
  <1>7. KTyped'
    BY <1>1, <1>4, <1>5 DEF KIInv, KTyped
  <1>8. ReadsAgree'
    <2>1. SUFFICES ASSUME NEW f \in fetched
                   PROVE  /\ f[3] \in 1..latest' /\ (f[2] # 0 => f[3] = f[2])
                          /\ f[4] = storage(f[1], f[3])'
      BY <1>5 DEF ReadsAgree
    <2>2. f[3] \in 1..latest /\ (f[2] # 0 => f[3] = f[2]) /\ f[4] = storage(f[1], f[3])
      BY DEF KIInv, ReadsAgree
    <2>3. storage(f[1], f[3])' = storage(f[1], f[3])
      BY <1>4, <2>2 DEF storage
    <2>4. QED
      BY <1>1, <1>4, <2>2, <2>3
  <1>9. CASE state = "none"
    <2>1. buffer = <<>> /\ listed = <<>> /\ ToSet(<<>>) = {}
      BY <1>9 DEF KIInv, PageAgrees, KTyped, ToSet
    <2>2. PageAgrees' /\ OnceAtLeast'
      BY <1>5, <1>9, <2>1 DEF PageAgrees, OnceAtLeast
    <2>3. OnceLess'
      BY <1>5 DEF KIInv, OnceLess, Times, Waiting, ToCome
    <2>4. QED
      BY <1>6, <1>7, <1>8, <2>2, <2>3 DEF KIInv
  <1>10. CASE state # "none"
    <2>1. blocks'[hash] = blocks[hash]
      BY <1>4, <1>10, HashIs
    <2>2. PageAgrees'
      BY <1>5, <2>1 DEF KIInv, PageAgrees, Pinned
    <2>3. OnceLess'
      BY <1>5 DEF KIInv, OnceLess, Times, Waiting, ToCome
    <2>4. OnceAtLeast'
      BY <1>5, <2>1 DEF KIInv, OnceAtLeast, Times, Waiting, ToCome
    <2>5. QED
      BY <1>6, <1>7, <1>8, <2>2, <2>3, <2>4 DEF KIInv
  <1>11. QED
    BY <1>9, <1>10

LEMMA IterKIInv ==
  ASSUME KIInv, NEW at \in 0..latest, iter(at)
  PROVE  KIInv'
  <1> USE DEF iter
  <1>1. blocks \in Seq(Maps) /\ latest \in Nat \ {0} /\ latest' = latest
    BY DEF KIInv, KTyped, latest
  <1>2. hash' \in 1..latest
    BY <1>1
  <1>3. buffer = <<>> /\ listed = <<>> /\ start_key = NoKey /\ ToSet(<<>>) = {}
    BY DEF KIInv, PageAgrees, KTyped, ToSet
  <1>4. KTypeOK'
    BY <1>1, <1>2 DEF KIInv, KTypeOK
  <1>5. KTyped'
    BY <1>1, <1>2 DEF KIInv, KTyped
  <1>6. ReadsAgree'
    BY <1>1 DEF KIInv, ReadsAgree, storage
  <1>7. PageAgrees'
    BY <1>3 DEF PageAgrees
  <1>8. OnceLess'
    BY DEF KIInv, OnceLess, Times, Waiting, ToCome
  <1>9. OnceAtLeast'
    <2>1. \A k \in DOMAIN blocks'[hash'] : k \in Nat \ {0}
      BY <1>1, <1>2, MapIs DEF latest
    <2>2. QED
      BY <1>3, <2>1 DEF OnceAtLeast, ToCome, NoKey
  <1>10. QED
    BY <1>4, <1>5, <1>6, <1>7, <1>8, <1>9 DEF KIInv

(* The entry handed out is the only one of its key in the buffer, and its  *)
(* key is of a page before.                                                *)
LEMMA PopKIInv ==
  ASSUME KIInv, pop
  PROVE  KIInv'
  <1>1. /\ state = "ready" /\ buffer # <<>> /\ buffer' = Front(buffer)
        /\ listed' = IF Last(buffer)[2] \in Garbled THEN listed ELSE Append(listed, Last(buffer))
        /\ blocks' = blocks /\ page_size' = page_size /\ fetched' = fetched /\ hash' = hash /\ start_key' = start_key
        /\ keys' = keys /\ state' = state /\ failed' = failed /\ lost' = lost
    BY DEF pop
  <1>2. buffer \in Seq(Keys \X Values) /\ listed \in Seq(Keys \X Values)
    BY DEF KIInv, KTyped
  <1>3. PICK e : e = Last(buffer)
    OBVIOUS
  <1>4. /\ Front(buffer) \in Seq(Keys \X Values) /\ e \in Keys \X Values /\ e \in ToSet(buffer)
        /\ ToSet(buffer) = ToSet(Front(buffer)) \cup {e}
    BY <1>1, <1>2, <1>3, Popped
  <1>5. Pinned(e) /\ e[1] <= start_key /\ e[1] \in Keys
    BY <1>4 DEF KIInv, PageAgrees
  <1>6. \A x \in ToSet(Front(buffer)) : x[1] # e[1]
    <2>1. PICK n \in Nat \ {0} : n = Len(buffer) /\ DOMAIN buffer = 1..n /\ DOMAIN Front(buffer) = 1..(n - 1)
                                 /\ e = buffer[n] /\ \A i \in 1..(n - 1) : Front(buffer)[i] = buffer[i]
      BY <1>1, <1>2, <1>3, Popped
    <2>2. \A i, j \in 1..n : buffer[i][1] = buffer[j][1] => i = j
      BY <2>1 DEF KIInv, PageAgrees
    <2>3. \A i \in 1..(n - 1) : i \in 1..n /\ n \in 1..n /\ i # n
      BY <2>1
    <2>4. \A i \in 1..(n - 1) : Front(buffer)[i][1] # e[1]
      BY <2>1, <2>2, <2>3
    <2>5. QED
      BY <2>1, <2>4 DEF ToSet
  <1>7. /\ listed' \in Seq(Keys \X Values)
        /\ \A x \in ToSet(listed') : x \in ToSet(listed) \/ x = e
    <2>1. CASE e[2] \in Garbled
      BY <1>1, <1>2, <1>3, <2>1
    <2>2. CASE e[2] \notin Garbled
      <3>1. listed' = Append(listed, e)
        BY <1>1, <1>3, <2>2
      <3>2. listed' \in Seq(Keys \X Values) /\ Len(listed) \in Nat /\ DOMAIN listed' = 1..(Len(listed) + 1)
            /\ listed'[Len(listed) + 1] = e /\ DOMAIN listed = 1..Len(listed) /\ \A i \in 1..Len(listed) : listed'[i] = listed[i]
        BY <1>2, <1>4, <3>1
      <3>3. \A i \in 1..(Len(listed) + 1) : i = Len(listed) + 1 \/ i \in 1..Len(listed)
        BY <3>2
      <3>4. QED
        BY <3>2, <3>3 DEF ToSet
    <2>3. QED
      BY <2>1, <2>2
  <1>8. \A k \in Keys : /\ Times(k) \in Nat
                        /\ Times(k)' = Times(k) \/ (k = e[1] /\ Times(k)' = Times(k) + 1)
                        /\ k = e[1] /\ e[2] \notin Garbled => Times(k)' = Times(k) + 1
    <2>1. CASE e[2] \in Garbled
      <3>1. listed' = listed
        BY <1>1, <1>3, <2>1
      <3>2. QED
        BY <1>2, <2>1, <3>1, TimesIsNat DEF Times
    <2>2. CASE e[2] \notin Garbled
      <3>1. listed' = Append(listed, e)
        BY <1>1, <1>3, <2>2
      <3>2. \A k \in Keys : Times(k) \in Nat /\ Times(k)' = Times(k) + (IF e[1] = k THEN 1 ELSE 0)
        BY <1>2, <3>1, TimesAppended
      <3>3. QED
        BY <3>2
    <2>3. QED
      BY <2>1, <2>2
  <1>9. KTypeOK'
    BY <1>1, <1>4, <1>7 DEF KIInv, KTypeOK, latest
  <1>10. KTyped'
    BY <1>1, <1>4, <1>7 DEF KIInv, KTyped, latest
  <1>11. ReadsAgree'
    BY <1>1 DEF KIInv, ReadsAgree, storage, latest
  <1>12. PageAgrees'
    <2>1. \A i, j \in DOMAIN buffer' : buffer'[i][1] = buffer'[j][1] => i = j
      <3>1. PICK n \in Nat : DOMAIN buffer = 1..n /\ DOMAIN Front(buffer) = 1..(n - 1)
                             /\ \A i \in 1..(n - 1) : Front(buffer)[i] = buffer[i]
        BY <1>1, <1>2, Popped
      <3>2. \A i \in 1..(n - 1) : i \in 1..n
        BY <3>1
      <3>3. \A i, j \in 1..n : buffer[i][1] = buffer[j][1] => i = j
        BY <3>1 DEF KIInv, PageAgrees
      <3>4. QED
        BY <1>1, <3>1, <3>2, <3>3
    <2>2. \A x \in ToSet(buffer') : Pinned(x)' /\ x[1] <= start_key
      BY <1>1, <1>4 DEF KIInv, PageAgrees, Pinned
    <2>3. \A x \in ToSet(listed') : Pinned(x)'
      <3>1. \A x \in ToSet(listed) : Pinned(x)
        BY DEF KIInv, PageAgrees
      <3>2. \A x : Pinned(x)' <=> Pinned(x)
        BY <1>1 DEF Pinned
      <3>3. QED
        BY <1>5, <1>7, <3>1, <3>2
    <2>4. QED
      BY <1>1, <2>1, <2>2, <2>3 DEF PageAgrees
  <1>13. \A k \in Keys : k # e[1] => (Waiting(k)' <=> Waiting(k)) /\ (ToCome(k)' <=> ToCome(k))
    BY <1>1, <1>4 DEF Waiting, ToCome
  <1>14. Waiting(e[1]) /\ ~ Waiting(e[1])' /\ ~ ToCome(e[1])'
    <2>1. Waiting(e[1])
      BY <1>4 DEF Waiting
    <2>2. ~ Waiting(e[1])'
      BY <1>1, <1>6 DEF Waiting
    <2>3. e[1] \in Nat /\ start_key \in Nat
      BY <1>5, StartIs
    <2>4. QED
      BY <1>1, <1>5, <2>1, <2>2, <2>3 DEF ToCome
  <1>15. failed \in Nat
    BY KeyIterAssumption DEF KIInv, KTypeOK
  <1>16. OnceLess'
    <2>1. SUFFICES ASSUME NEW k \in Keys PROVE Times(k)' <= failed + (IF Waiting(k)' \/ ToCome(k)' THEN 0 ELSE 1)
      BY <1>1 DEF OnceLess
    <2>2. Times(k) <= failed + (IF Waiting(k) \/ ToCome(k) THEN 0 ELSE 1)
      BY DEF KIInv, OnceLess
    <2>3. CASE k = e[1]
      BY <1>8, <1>14, <1>15, <2>2, <2>3
    <2>4. CASE k # e[1]
      <3>1. Times(k)' = Times(k)
        BY <1>8, <2>4
      <3>2. QED
        BY <1>13, <2>2, <2>4, <3>1
    <2>5. QED
      BY <2>3, <2>4
  <1>17. OnceAtLeast'
    <2>1. SUFFICES ASSUME page_size > 0, NEW k \in DOMAIN blocks[hash] \ lost
                   PROVE  Waiting(k)' \/ ToCome(k)' \/ blocks[hash][k] \in Garbled \/ Times(k)' >= 1
      BY <1>1 DEF OnceAtLeast
    <2>2. Waiting(k) \/ ToCome(k) \/ blocks[hash][k] \in Garbled \/ Times(k) >= 1
      BY <1>1, <2>1 DEF KIInv, OnceAtLeast
    <2>3. k \in Keys
      BY <1>1, HashIs
    <2>4. CASE k = e[1]
      <3>1. blocks[hash][k] = e[2]
        BY <1>5, <2>4 DEF Pinned
      <3>2. CASE e[2] \notin Garbled
        BY <1>8, <2>3, <2>4, <3>2
      <3>3. QED
        BY <3>1, <3>2
    <2>5. CASE k # e[1]
      <3>1. Times(k)' = Times(k)
        BY <1>8, <2>3, <2>5
      <3>2. QED
        BY <1>13, <2>2, <2>3, <2>5, <3>1
    <2>6. QED
      BY <2>4, <2>5
  <1>18. QED
    BY <1>9, <1>10, <1>11, <1>12, <1>16, <1>17 DEF KIInv

(* A page is of the first keys above start_key, and none of them is above  *)
(* the start_key of the next; with no key left, the iteration has ended.   *)
LEMMA FetchKeysKIInv ==
  ASSUME KIInv, fetch_keys
  PROVE  KIInv'
  <1>1. PICK page \in storage_keys_paged(page_size, start_key, hash) :
          /\ keys' = page
          /\ start_key' = IF page = <<>> THEN NoKey ELSE Last(page)
          /\ state' = IF page = <<>> THEN "ended" ELSE "query"
    BY DEF fetch_keys
  <1>2. /\ state = "ready" /\ buffer = <<>> /\ blocks' = blocks /\ page_size' = page_size /\ fetched' = fetched
        /\ hash' = hash /\ buffer' = buffer /\ listed' = listed /\ failed' = failed /\ lost' = lost
    BY DEF fetch_keys
  <1>3. PICK S : S = Later(start_key, hash)
    OBVIOUS
  <1>4. /\ hash \in 1..latest /\ DOMAIN blocks[hash] \subseteq Keys /\ S \subseteq Keys
        /\ \A k \in S : k \in DOMAIN blocks[hash] /\ k > start_key
        /\ \A k \in DOMAIN blocks[hash] : k > start_key => k \in S
    BY <1>2, <1>3, HashIs DEF Later
  <1>5. page_size \in Nat /\ start_key \in Nat /\ \A k \in Keys : k \in Nat \ {0}
    BY StartIs
  <1>6. PICK F : F = First(page_size, S)
    OBVIOUS
  <1>7. /\ F \subseteq S /\ \A k \in S, m \in F : k <= m => k \in F
        /\ page_size > 0 /\ F = {} => S = {}
    BY <1>4, <1>5, <1>6, FirstIs
  <1>8. page \in InOrder(F) /\ F \subseteq Keys
    BY <1>1, <1>3, <1>4, <1>6, <1>7 DEF storage_keys_paged
  <1>9. /\ page \in Seq(Keys) /\ ToSet(page) = F /\ (page = <<>> <=> F = {})
        /\ page # <<>> => Last(page) \in F /\ \A k \in F : k <= Last(page)
    BY <1>8, InOrderIs
  <1>10. ToSet(buffer) = {} /\ failed \in Nat
    BY <1>2, KeyIterAssumption DEF KIInv, KTypeOK, ToSet
  <1>11. KTypeOK'
    <2>1. start_key' \in Keys \cup {NoKey}
      BY <1>1, <1>8, <1>9
    <2>2. QED
      BY <1>1, <1>2, <1>8, <1>9, <2>1 DEF KIInv, KTypeOK, latest
  <1>12. KTyped'
    BY <1>1, <1>2, <1>9 DEF KIInv, KTyped, latest
  <1>13. ReadsAgree'
    BY <1>2 DEF KIInv, ReadsAgree, storage, latest
  <1>14. PageAgrees'
    <2>1. state' = "query" => \A k \in ToSet(keys') : k \in DOMAIN blocks[hash] /\ k <= start_key'
      BY <1>1, <1>4, <1>7, <1>9
    <2>2. \A e \in ToSet(listed) : Pinned(e) /\ Pinned(e)'
      BY <1>2 DEF KIInv, PageAgrees, Pinned
    <2>3. QED
      BY <1>2, <1>10, <2>1, <2>2 DEF PageAgrees
  <1>15. \A k \in Keys : Times(k)' = Times(k) /\ ~ Waiting(k)
    BY <1>2, <1>10 DEF Times, Waiting
  <1>16. \A k \in Keys : Waiting(k)' \/ ToCome(k)' => ToCome(k)
    <2>1. SUFFICES ASSUME NEW k \in Keys, Waiting(k)' \/ ToCome(k)' PROVE ToCome(k)
      OBVIOUS
    <2>2. page # <<>> /\ (k \in F \/ k > Last(page))
      BY <1>1, <1>2, <1>9, <1>10, <2>1 DEF Waiting, ToCome
    <2>3. Last(page) \in F /\ F \subseteq S
      BY <1>7, <1>9, <2>2
    <2>4. k > start_key
      <3>1. CASE k \in F
        BY <1>4, <1>7, <3>1
      <3>2. CASE k > Last(page)
        <4>1. Last(page) > start_key /\ Last(page) \in Nat /\ k \in Nat
          BY <1>4, <1>5, <2>3
        <4>2. QED
          BY <1>5, <3>2, <4>1
      <3>3. QED
        BY <2>2, <3>1, <3>2
    <2>5. QED
      BY <1>2, <2>4 DEF ToCome
  <1>17. OnceLess'
    <2>1. SUFFICES ASSUME NEW k \in Keys PROVE Times(k)' <= failed + (IF Waiting(k)' \/ ToCome(k)' THEN 0 ELSE 1)
      BY <1>2 DEF OnceLess
    <2>2. Times(k) <= failed + (IF Waiting(k) \/ ToCome(k) THEN 0 ELSE 1)
      BY DEF KIInv, OnceLess
    <2>3. Times(k) \in Nat
      BY TimesIsNat DEF KIInv, KTyped
    <2>4. CASE Waiting(k)' \/ ToCome(k)'
      BY <1>15, <1>16, <2>2, <2>4
    <2>5. CASE ~ (Waiting(k)' \/ ToCome(k)')
      BY <1>10, <1>15, <2>2, <2>3, <2>5
    <2>6. QED
      BY <2>4, <2>5
  <1>18. OnceAtLeast'
    <2>1. SUFFICES ASSUME page_size > 0, NEW k \in DOMAIN blocks[hash] \ lost
                   PROVE  Waiting(k)' \/ ToCome(k)' \/ blocks[hash][k] \in Garbled \/ Times(k)' >= 1
      BY <1>2 DEF OnceAtLeast
    <2>2. k \in Keys
      BY <1>4
    <2>3. ToCome(k) \/ blocks[hash][k] \in Garbled \/ Times(k) >= 1
      BY <1>2, <1>15, <2>1, <2>2 DEF KIInv, OnceAtLeast
    <2>4. ASSUME ToCome(k) PROVE Waiting(k)' \/ ToCome(k)'
      <3>1. k \in S
        BY <1>4, <2>4 DEF ToCome
      <3>2. F # {} /\ page # <<>>
        BY <1>7, <1>9, <2>1, <3>1
      <3>3. state' = "query" /\ keys' = page /\ start_key' = Last(page) /\ Last(page) \in F
        BY <1>1, <1>9, <3>2
      <3>4. CASE k \in F
        BY <1>9, <3>3, <3>4 DEF Waiting
      <3>5. CASE k \notin F
        <4>1. ~ (k <= Last(page))
          BY <1>7, <3>1, <3>3, <3>5
        <4>2. k \in Nat /\ Last(page) \in Nat
          BY <1>4, <1>5, <1>7, <3>1, <3>3
        <4>3. k > Last(page)
          BY <4>1, <4>2
        <4>4. QED
          BY <3>3, <4>3 DEF ToCome
      <3>6. QED
        BY <3>4, <3>5
    <2>5. QED
      BY <1>15, <2>2, <2>3, <2>4
  <1>19. QED
    BY <1>11, <1>12, <1>13, <1>14, <1>17, <1>18 DEF KIInv

(* An iteration that starts over comes to every key again.                 *)
LEMMA FetchFailsKIInv ==
  ASSUME KIInv, fetch_fails
  PROVE  KIInv'
  <1>1. /\ state = "ready" /\ buffer = <<>> /\ failed < MaxFaults /\ start_key' = NoKey /\ failed' = failed + 1
        /\ blocks' = blocks /\ page_size' = page_size /\ fetched' = fetched /\ hash' = hash /\ keys' = keys
        /\ buffer' = buffer /\ state' = state /\ listed' = listed /\ lost' = lost
    BY DEF fetch_fails
  <1>2. ToSet(buffer) = {} /\ failed \in Nat /\ failed' \in 0..MaxFaults
    BY <1>1, KeyIterAssumption DEF KIInv, KTypeOK, ToSet
  <1>3. \A k \in Keys : Times(k)' = Times(k) /\ Times(k) \in Nat
    BY <1>1, TimesIsNat DEF KIInv, KTyped, Times
  <1>4. KTypeOK'
    BY <1>1, <1>2 DEF KIInv, KTypeOK, latest
  <1>5. KTyped' /\ ReadsAgree'
    BY <1>1 DEF KIInv, KTyped, ReadsAgree, storage, latest
  <1>6. PageAgrees'
    BY <1>1, <1>2 DEF KIInv, PageAgrees, Pinned
  <1>7. OnceLess'
    <2>1. \A k \in Keys : Times(k) <= failed + 1
      BY <1>2, <1>3 DEF KIInv, OnceLess
    <2>2. QED
      BY <1>1, <1>2, <1>3, <2>1 DEF OnceLess
  <1>8. OnceAtLeast'
    <2>1. \A k \in DOMAIN blocks[hash] : k \in Nat \ {0}
      BY <1>1, HashIs
    <2>2. QED
      BY <1>1, <2>1 DEF OnceAtLeast, ToCome, NoKey
  <1>9. QED
    BY <1>4, <1>5, <1>6, <1>7, <1>8 DEF KIInv

(* The values asked for are all there: the keys are of the same block.     *)
LEMMA QueryKIInv ==
  ASSUME KIInv, query
  PROVE  KIInv'
  <1>1. /\ state = "query" /\ state' = "ready" /\ blocks' = blocks /\ page_size' = page_size /\ fetched' = fetched
        /\ hash' = hash /\ start_key' = start_key /\ keys' = keys /\ listed' = listed /\ failed' = failed /\ lost' = lost
    BY DEF query
  <1>2. PICK entries \in query_storage_at(keys, hash) : buffer' = buffer \o entries
    BY DEF query
  <1>3. /\ keys \in Seq(Keys) /\ ToSet(keys) \subseteq Keys
        /\ buffer = <<>> /\ \A k \in ToSet(keys) : k \in DOMAIN blocks[hash] /\ k <= start_key
    BY <1>1 DEF KIInv, KTypeOK, KTyped, PageAgrees
  <1>4. PICK K : K = ToSet(keys)
    OBVIOUS
  <1>5. PICK present \in InOrder(K) : entries = [i \in DOMAIN present |-> <<present[i], blocks[hash][present[i]]>>]
    <2>1. ToSet(keys) \cap DOMAIN blocks[hash] = K
      BY <1>3, <1>4
    <2>2. QED
      BY <2>1 DEF query_storage_at
  <1>6. PICK n \in Nat : DOMAIN present = 1..n /\ present \in Seq(K) /\ ToSet(present) = K
                         /\ \A i, j \in 1..n : present[i] = present[j] => i = j
    BY <1>3, <1>4, <1>5, InOrderIs
  <1>7. /\ DOMAIN entries = 1..n
        /\ \A i \in 1..n : entries[i] = <<present[i], blocks[hash][present[i]]>> /\ present[i] \in K
    BY <1>5, <1>6
  <1>8. \A k \in K : k \in Keys /\ k \in DOMAIN blocks[hash] /\ blocks[hash][k] \in Values /\ k <= start_key
    BY <1>1, <1>3, <1>4, HashIs
  <1>9. entries \in Seq(Keys \X Values) /\ buffer' = entries
    <2>1. \A i \in 1..n : entries[i] \in Keys \X Values
      <3>1. \A k \in K : <<k, blocks[hash][k]>> \in Keys \X Values
        BY <1>8
      <3>2. QED
        BY <1>7, <3>1
    <2>2. entries = [i \in 1..n |-> entries[i]]
      BY <1>5, <1>6
    <2>3. entries \in [1..n -> Keys \X Values]
      BY <2>1, <2>2
    <2>4. entries \in Seq(Keys \X Values)
      BY <1>6, <2>3
    <2>5. QED
      BY <1>2, <1>3, <2>4
  <1>10. \A e \in ToSet(buffer') : e[1] \in K /\ e[2] = blocks[hash][e[1]]
    BY <1>7, <1>9 DEF ToSet
  <1>11. \A k \in K : \E e \in ToSet(buffer') : e[1] = k
    <2>1. SUFFICES ASSUME NEW k \in K PROVE \E e \in ToSet(buffer') : e[1] = k
      OBVIOUS
    <2>2. PICK i \in 1..n : present[i] = k
      BY <1>6 DEF ToSet
    <2>3. entries[i] = <<k, blocks[hash][k]>>
      BY <1>7, <2>2
    <2>4. entries[i] \in ToSet(buffer')
      BY <1>7, <1>9 DEF ToSet
    <2>5. entries[i][1] = k
      BY <2>3
    <2>6. QED
      BY <2>4, <2>5
  <1>12. KTypeOK'
    BY <1>1, <1>8, <1>10 DEF KIInv, KTypeOK, latest
  <1>13. KTyped'
    BY <1>1, <1>9 DEF KIInv, KTyped, latest
  <1>14. ReadsAgree'
    BY <1>1 DEF KIInv, ReadsAgree, storage, latest
  <1>15. PageAgrees'
    <2>1. \A e \in ToSet(buffer') : Pinned(e)' /\ e[1] <= start_key'
      BY <1>1, <1>8, <1>10 DEF Pinned
    <2>2. \A i, j \in DOMAIN buffer' : buffer'[i][1] = buffer'[j][1] => i = j
      BY <1>6, <1>7, <1>9
    <2>3. \A e \in ToSet(listed') : Pinned(e)'
      BY <1>1 DEF KIInv, PageAgrees, Pinned
    <2>4. QED
      BY <1>1, <2>1, <2>2, <2>3 DEF PageAgrees
  <1>16. \A k \in Keys : Times(k)' = Times(k) /\ (Waiting(k)' <=> Waiting(k)) /\ (ToCome(k)' <=> ToCome(k))
    <2>1. SUFFICES ASSUME NEW k \in Keys
                   PROVE  Times(k)' = Times(k) /\ (Waiting(k)' <=> Waiting(k)) /\ (ToCome(k)' <=> ToCome(k))
      OBVIOUS
    <2>2. Times(k)' = Times(k) /\ (ToCome(k)' <=> ToCome(k))
      BY <1>1 DEF Times, ToCome
    <2>3. Waiting(k) <=> k \in K
      BY <1>1, <1>3, <1>4 DEF Waiting, ToSet
    <2>4. Waiting(k)' <=> k \in K
      BY <1>1, <1>10, <1>11 DEF Waiting
    <2>5. QED
      BY <2>2, <2>3, <2>4
  <1>17. OnceLess'
    BY <1>1, <1>16 DEF KIInv, OnceLess
  <1>18. OnceAtLeast'
    <2>1. DOMAIN blocks[hash] \subseteq Keys
      BY <1>1, HashIs
    <2>2. QED
      BY <1>1, <1>16, <2>1 DEF KIInv, OnceAtLeast
  <1>19. QED
    BY <1>12, <1>13, <1>14, <1>15, <1>17, <1>18 DEF KIInv

(* The keys of a page whose values could not be read are lost.             *)
LEMMA QueryFailsKIInv ==
  ASSUME KIInv, query_fails
  PROVE  KIInv'
  <1>1. /\ state = "query" /\ state' = "ready" /\ lost' = lost \cup ToSet(keys) /\ blocks' = blocks
        /\ page_size' = page_size /\ fetched' = fetched /\ hash' = hash /\ start_key' = start_key /\ keys' = keys
        /\ buffer' = buffer /\ listed' = listed /\ failed' = failed
    BY DEF query_fails
  <1>2. buffer = <<>> /\ ToSet(buffer) = {} /\ failed \in Nat
    BY <1>1, KeyIterAssumption DEF KIInv, KTypeOK, PageAgrees, ToSet
  <1>3. \A k \in Keys : Times(k)' = Times(k) /\ Times(k) \in Nat /\ (ToCome(k)' <=> ToCome(k))
                        /\ (Waiting(k) <=> k \in ToSet(keys)) /\ ~ Waiting(k)'
    BY <1>1, <1>2, TimesIsNat DEF KIInv, KTyped, Times, ToCome, Waiting
  <1>4. KTypeOK'
    BY <1>1 DEF KIInv, KTypeOK, latest
  <1>5. KTyped' /\ ReadsAgree'
    BY <1>1 DEF KIInv, KTyped, ReadsAgree, storage, latest
  <1>6. PageAgrees'
    BY <1>1, <1>2 DEF KIInv, PageAgrees, Pinned
  <1>7. OnceLess'
    <2>1. SUFFICES ASSUME NEW k \in Keys PROVE Times(k) <= failed + (IF ToCome(k) THEN 0 ELSE 1)
      BY <1>1, <1>3 DEF OnceLess
    <2>2. Times(k) <= failed + (IF Waiting(k) \/ ToCome(k) THEN 0 ELSE 1)
      BY DEF KIInv, OnceLess
    <2>3. QED
      BY <1>2, <1>3, <2>2
  <1>8. OnceAtLeast'
    <2>1. SUFFICES ASSUME page_size > 0, NEW k \in DOMAIN blocks[hash] \ lost'
                   PROVE  ToCome(k)' \/ blocks[hash][k] \in Garbled \/ Times(k)' >= 1
      BY <1>1 DEF OnceAtLeast
    <2>2. k \in Keys /\ k \in DOMAIN blocks[hash] \ lost /\ k \notin ToSet(keys)
      BY <1>1, <2>1, HashIs
    <2>3. Waiting(k) \/ ToCome(k) \/ blocks[hash][k] \in Garbled \/ Times(k) >= 1
      BY <1>1, <2>1, <2>2 DEF KIInv, OnceAtLeast
    <2>4. QED
      BY <1>3, <2>2, <2>3
  <1>9. QED
    BY <1>4, <1>5, <1>6, <1>7, <1>8 DEF KIInv

LEMMA FetchKIInv ==
  ASSUME KIInv, NEW k \in Keys, NEW at \in 0..latest, fetch(k, at)
  PROVE  KIInv'
  <1>1. /\ blocks' = blocks /\ page_size' = page_size /\ hash' = hash /\ start_key' = start_key /\ keys' = keys
        /\ buffer' = buffer /\ state' = state /\ listed' = listed /\ failed' = failed /\ lost' = lost
    BY DEF fetch, ivars
  <1>2. PICK read : read = (IF at = 0 THEN latest ELSE at) /\ fetched' = {<<k, at, read, storage(k, read)>>}
    BY DEF fetch
  <1>3. latest \in Nat \ {0} /\ read \in 1..latest /\ (at # 0 => read = at)
    BY <1>2 DEF KIInv, KTyped, latest
  <1>4. ReadsAgree'
    <2>1. \A x, n : storage(x, n)' = storage(x, n)
      BY <1>1 DEF storage
    <2>2. QED
      BY <1>1, <1>2, <1>3, <2>1 DEF ReadsAgree, latest
  <1>5. KTypeOK' /\ KTyped'
    BY <1>1 DEF KIInv, KTypeOK, KTyped, latest
  <1>6. PageAgrees'
    BY <1>1 DEF KIInv, PageAgrees, Pinned
  <1>7. OnceLess' /\ OnceAtLeast'
    BY <1>1 DEF KIInv, OnceLess, OnceAtLeast, Times, Waiting, ToCome
  <1>8. QED
    BY <1>4, <1>5, <1>6, <1>7 DEF KIInv

LEMMA StepKIInv ==
  ASSUME KIInv, [KNext]_kvars
  PROVE  KIInv'
  <1>1. CASE KNext
    BY <1>1, GrowKIInv, IterKIInv, PopKIInv, FetchKeysKIInv, FetchFailsKIInv, QueryKIInv, QueryFailsKIInv, FetchKIInv DEF KNext
  <1>2. CASE UNCHANGED kvars
    <2>1. /\ blocks' = blocks /\ page_size' = page_size /\ fetched' = fetched /\ hash' = hash /\ start_key' = start_key
          /\ keys' = keys /\ buffer' = buffer /\ state' = state /\ listed' = listed /\ failed' = failed /\ lost' = lost
      BY <1>2 DEF kvars, ivars
    <2>2. KTypeOK' /\ KTyped' /\ ReadsAgree'
      BY <2>1 DEF KIInv, KTypeOK, KTyped, ReadsAgree, storage, latest
    <2>3. PageAgrees' /\ OnceLess' /\ OnceAtLeast'
      BY <2>1 DEF KIInv, PageAgrees, Pinned, OnceLess, OnceAtLeast, Times, Waiting, ToCome
    <2>4. QED
      BY <2>2, <2>3 DEF KIInv
  <1>3. QED
    BY <1>1, <1>2

(* At every moment of an iteration (KeyIter::next), each key of the block  *)
(* it is pinned to is in the page whose values are asked for, in the       *)
(* buffer, in a page to come, handed out, lost or garbled; and it was      *)
(* handed out once more than the fetches of keys that failed, at most, and *)
(* not that often while it is still to be handed out.                      *)
THEOREM ListingInvariant == KSpec => []KIInv
  <1>1. KInit => KIInv
    BY InitKIInv
  <1>2. KIInv /\ [KNext]_kvars => KIInv'
    BY StepKIInv
  <1>3. QED
    BY <1>1, <1>2, PTL DEF KSpec

(* An iteration over a storage map hands out entries of one block, each    *)
(* once, and once more at most for each fetch of keys that failed; when it *)
(* is told the end it has handed out all but those of a page whose values  *)
(* could not be read and those that do not decode, whatever the chain, the *)
(* page size and the failures (KeyIter::next, Client::iter, fetch_keys).   *)
THEOREM ListedStaysRight == KSpec => []ListedIsRight
  <1>1. KIInv => ListedIsRight
    <2>1. SUFFICES ASSUME KIInv PROVE ListedIsRight
      OBVIOUS
    <2>2. ListedIsPinned
      <3>1. SUFFICES ASSUME NEW e \in ToSet(listed)
                     PROVE  /\ e[1] \in DOMAIN blocks[hash] /\ blocks[hash][e[1]] = e[2]
                            /\ \A f \in fetched : f[1] = e[1] /\ f[2] = hash => f[4] = e[2]
        BY DEF ListedIsPinned
      <3>2. e[1] \in DOMAIN blocks[hash] /\ blocks[hash][e[1]] = e[2]
        BY <2>1, <3>1 DEF KIInv, PageAgrees, Pinned
      <3>3. hash # 0
        BY <2>1, <3>1 DEF KIInv, KTyped, ToSet
      <3>4. ASSUME NEW f \in fetched, f[1] = e[1], f[2] = hash PROVE f[4] = e[2]
        <4>1. f[3] = hash /\ f[4] = storage(f[1], f[3])
          BY <2>1, <3>3, <3>4 DEF KIInv, ReadsAgree
        <4>2. QED
          BY <3>2, <3>4, <4>1 DEF storage
      <3>5. QED
        BY <3>2, <3>4
    <2>3. ListedAtMost
      <3>1. failed \in Nat /\ \A k \in Keys : Times(k) \in Nat
        BY <2>1, KeyIterAssumption, TimesIsNat DEF KIInv, KTypeOK, KTyped
      <3>2. QED
        BY <2>1, <3>1 DEF KIInv, OnceLess, ListedAtMost
    <2>4. ListedAtLeast
      <3>1. SUFFICES ASSUME state = "ended", page_size > 0, NEW k \in DOMAIN blocks[hash] \ lost
                     PROVE  blocks[hash][k] \in Garbled \/ Times(k) >= 1
        BY DEF ListedAtLeast
      <3>2. buffer = <<>>
        BY <2>1, <3>1 DEF KIInv, PageAgrees
      <3>3. ~ Waiting(k) /\ ~ ToCome(k)
        BY <3>1, <3>2 DEF Waiting, ToCome, ToSet
      <3>4. QED
        BY <2>1, <3>1, <3>3 DEF KIInv, OnceAtLeast
    <2>5. QED
      BY <2>1, <2>2, <2>3, <2>4 DEF KIInv, ListedIsRight
  <1>2. QED
    BY <1>1, ListingInvariant, PTL

-----------------------------------------------------------------------------
(* Commands: the answers of deploying, instantiating and calling.           *)

\* what is typed, encoded and run stays in its set
LEMMA EncodedIs ==
  /\ \A u \in Users : \A t \in Typed[u] : Encoded[t][1] = "ok" => t \in Lines
  /\ \A t \in Lines : <<>> \notin ConstructorRuns[Encoded[t][2]] \cup MessageRuns[Encoded[t][2]]
  <1>1. \A u \in Users : \A t \in Typed[u] : t \in UNION {Typed[v] : v \in Users}
    OBVIOUS
  <1>2. \A t \in Lines : \E u \in Users : t \in Typed[u] /\ Encoded[t][1] = "ok"
    BY DEF Lines
  <1>3. QED
    BY <1>1, <1>2, CommandsAssumption DEF Lines

LEMMA ElementIs ==
  ASSUME NEW S, NEW s \in Seq(S), NEW i \in DOMAIN s
  PROVE  s[i] \in S /\ i \in 1..Len(s) /\ Len(s) \in Nat
  OBVIOUS

LEMMA NoEvents == <<>> \in EventList /\ <<>> \in Ran
  <1>1. \A S : <<>> \in Seq(S)
    OBVIOUS
  <1>2. QED
    BY <1>1 DEF EventList, Ran

LEMMA IdleIs == Idle \in Command /\ Idle.pc = "idle" /\ Idle.kind = "none" /\ Idle.ran = <<>> /\ Idle.events = <<>>
  <1>1. 0 \in 0..MaxContracts
    BY CommandsAssumption
  <1>2. QED
    BY <1>1, NoEvents DEF Idle, Command, Answer

\* One command moves on, and the chain may grow.
LEMMA MoveCIInv ==
  ASSUME CIInv, NEW u \in Users, NEW r \in Command, Step(u, r),
         stored \subseteq stored', stored' \subseteq Codes,
         contracts' \in Seq([code : stored', by : Users \cup 1..MaxContracts]),
         Len(contracts') <= MaxContracts,
         \A a \in DOMAIN contracts : a \in DOMAIN contracts' /\ contracts'[a] = contracts[a],
         Asked(r)',
         r.pc = "applied" => Shown(u, r)',
         r.pc = "ended" /\ r.answer # Failed => Shown(u, r)' /\ r.answer = find_event(r)
  PROVE  CIInv'
  <1>1. /\ cmd \in [Users -> Command] /\ cmd' = [cmd EXCEPT ![u] = r]
        /\ cmd' \in [Users -> Command] /\ cmd'[u] = r
        /\ \A v \in Users \ {u} : cmd'[v] = cmd[v]
    BY DEF CIInv, CTyped, Step
  <1>2. CTyped'
    BY <1>1 DEF CTyped
  <1>3. ASSUME NEW v \in Users
        PROVE  /\ Asked(cmd[v])'
               /\ cmd'[v].pc = "applied" => Shown(v, cmd[v])'
               /\ cmd'[v].pc = "ended" /\ cmd'[v].answer # Failed =>
                     Shown(v, cmd[v])' /\ cmd'[v].answer = find_event(cmd'[v])
    <2>1. CASE v = u
      BY <2>1, <1>1 DEF Asked, Shown
    <2>2. CASE v # u
      <3>1. cmd'[v] = cmd[v] /\ cmd[v] \in Command
        BY <2>2, <1>1
      <3>2. Asked(cmd[v])'
        BY <3>1 DEF CIInv, Asked
      <3>3. Shown(v, cmd[v]) => Shown(v, cmd[v])'
        <4> DEFINE e == cmd[v].events
        <4>1. e \in Seq({"CodeStored", "Instantiated"} \X Answer)
          BY <3>1 DEF Command, EventList
        <4>2. Len(e) = 1 => 1 \in DOMAIN e
          BY <4>1
        <4>3. QED
          BY <3>1, <4>2 DEF Shown
      <3>4. QED
        BY <3>1, <3>2, <3>3 DEF CIInv
    <2>3. QED
      BY <2>1, <2>2
  <1>4. QED
    BY <1>2, <1>3 DEF CIInv, find_event, Wanted

\* a command that moves on while the chain stays
LEMMA KeepCIInv ==
  ASSUME CIInv, NEW u \in Users, NEW r \in Command, Step(u, r), UNCHANGED <<stored, contracts>>,
         Asked(r), r.pc = "applied" => Shown(u, r),
         r.pc = "ended" /\ r.answer # Failed => Shown(u, r) /\ r.answer = find_event(r)
  PROVE  CIInv'
  <1>1. Asked(r)' /\ (Shown(u, r) <=> Shown(u, r)')
    BY DEF Asked, Shown
  <1>2. /\ stored \subseteq stored' /\ stored' \subseteq Codes
        /\ contracts' \in Seq([code : stored', by : Users \cup 1..MaxContracts])
        /\ Len(contracts') <= MaxContracts
        /\ \A a \in DOMAIN contracts : a \in DOMAIN contracts' /\ contracts'[a] = contracts[a]
    BY DEF CIInv, CTyped
  <1>3. QED
    BY <1>1, <1>2, MoveCIInv

LEMMA InitCIInv == CInit => CIInv
  <1> SUFFICES ASSUME CInit PROVE CIInv
    OBVIOUS
  <1>1. CTyped
    BY IdleIs, CommandsAssumption DEF CInit, CTyped
  <1>2. ASSUME NEW u \in Users PROVE cmd[u] = Idle /\ Asked(Idle)
    BY IdleIs DEF CInit, Asked
  <1>3. QED
    BY <1>1, <1>2, IdleIs DEF CIInv

LEMMA execCIInv ==
  ASSUME CIInv, NEW u \in Users, NEW c \in Codes, exec(u, c)
  PROVE  CIInv'
  <1> DEFINE r == [Idle EXCEPT !.kind = "put_code", !.target = c]
             b == [Idle EXCEPT !.pc = "built", !.kind = "put_code", !.target = c]
  <1>a. c \in Answer /\ 0 \in Answer
    BY CommandsAssumption DEF Answer
  <1>b. b \in Command /\ b.pc = "built" /\ b.kind = "put_code" /\ b.target = c /\ b.ran = <<>> /\ b.events = <<>>
    BY <1>a, IdleIs DEF Command
  <1>c. r \in Command /\ r.kind = "put_code" /\ r.target = c
    BY <1>a, IdleIs DEF Command
  <1>d. /\ Ended(r, Failed) \in Command /\ Ended(r, Failed).kind = "put_code" /\ Ended(r, Failed).target = c
        /\ Ended(r, Failed).pc = "ended" /\ Ended(r, Failed).answer = Failed
    BY <1>a, <1>c DEF Command, Ended, Failed
  <1> HIDE DEF r, b
  <1>1. b \in Command /\ Ended(r, Failed) \in Command
    BY <1>b, <1>d
  <1>2. CASE Step(u, b)
    <2>1. Asked(b) /\ b.pc = "built"
      BY <1>b DEF Asked
    <2>2. QED
      BY <1>1, <1>2, <2>1, KeepCIInv DEF exec
  <1>3. CASE Step(u, Ended(r, Failed))
    <2>1. Asked(Ended(r, Failed)) /\ Ended(r, Failed).pc = "ended" /\ Ended(r, Failed).answer = Failed
      BY <1>d DEF Asked
    <2>2. QED
      BY <1>1, <1>3, <2>1, KeepCIInv DEF exec
  <1>4. QED
    BY <1>2, <1>3 DEF exec, r, b

LEMMA startCIInv ==
  ASSUME CIInv, NEW u \in Users, NEW kind, NEW aim, NEW t \in Typed[u], start(u, kind, aim, t),
         \/ kind = "instantiate" /\ aim \in Codes
         \/ kind = "call" /\ aim \in DOMAIN contracts /\ aim \in 1..MaxContracts
  PROVE  CIInv'
  <1> DEFINE r == [Idle EXCEPT !.kind = kind, !.target = aim, !.typed = t]
             b == [r EXCEPT !.pc = "built", !.data = Encoded[t][2]]
  <1>0. /\ \/ Encoded[t][1] = "ok" /\ Step(u, b)
           \/ Step(u, Ended(r, Failed))
        /\ UNCHANGED <<stored, contracts>>
    BY DEF start
  <1>a. kind \in {"instantiate", "call"} /\ aim \in Answer /\ t \in UNION {Typed[v] : v \in Users} /\ 0 \in Answer
    BY CommandsAssumption DEF Answer
  <1>b. r \in Command /\ r.kind = kind /\ r.target = aim /\ r.typed = t /\ r.ran = <<>> /\ r.events = <<>>
    BY <1>a, IdleIs DEF Command
  <1>c. /\ b.pc = "built" /\ b.kind = kind /\ b.target = aim /\ b.typed = t /\ b.data = Encoded[t][2]
        /\ b.ran = <<>> /\ b.events = <<>>
        /\ Encoded[t][2] \in {<<>>} \cup {Encoded[l][2] : l \in Lines} => b \in Command
    BY <1>b DEF Command
  <1>d. /\ Ended(r, Failed) \in Command /\ Ended(r, Failed).kind = kind /\ Ended(r, Failed).target = aim
        /\ Ended(r, Failed).pc = "ended" /\ Ended(r, Failed).answer = Failed
    BY <1>a, <1>b DEF Command, Ended, Failed
  <1> HIDE DEF r, b
  <1>2. CASE Encoded[t][1] = "ok" /\ Step(u, b)
    <2>0. t \in Lines
      BY <1>2, EncodedIs
    <2>1. b \in Command
      BY <2>0, <1>c
    <2>2. Asked(b) /\ b.pc = "built"
      BY <2>0, <1>a, <1>c DEF Asked
    <2>3. QED
      BY <1>0, <1>2, <2>1, <2>2, KeepCIInv
  <1>3. CASE Step(u, Ended(r, Failed))
    <2>1. Ended(r, Failed) \in Command
      BY <1>d
    <2>2. Asked(Ended(r, Failed)) /\ Ended(r, Failed).pc = "ended" /\ Ended(r, Failed).answer = Failed
      BY <1>a, <1>d DEF Asked
    <2>3. QED
      BY <1>0, <1>3, <2>1, <2>2, KeepCIInv
  <1>4. QED
    BY <1>0, <1>2, <1>3

LEMMA put_codeCIInv ==
  ASSUME CIInv, NEW u \in Users, put_code(u)
  PROVE  CIInv'
  <1>0. PICK e, r : /\ e = <<<<"CodeStored", cmd[u].target>>>>
                    /\ r = [cmd[u] EXCEPT !.pc = "applied", !.ran = <<>>, !.events = e]
    OBVIOUS
  <1>1. /\ cmd[u] \in Command /\ cmd[u].kind = "put_code" /\ cmd[u].target \in Codes /\ Asked(cmd[u])
        /\ stored' = stored \cup {cmd[u].target} /\ contracts' = contracts /\ Step(u, r)
    BY <1>0 DEF CIInv, CTyped, Asked, put_code, Executed
  <1>2. e \in EventList
    BY <1>0, <1>1 DEF Answer, EventList
  <1>3. r \in Command /\ r.pc = "applied" /\ r.kind = "put_code" /\ r.target = cmd[u].target /\ r.events = e
    BY <1>0, <1>1, <1>2, NoEvents DEF Command
  <1>4. Asked(r)'
    BY <1>1, <1>3 DEF Asked
  <1>5. Shown(u, r)'
    BY <1>0, <1>1, <1>3 DEF Shown
  <1>6. /\ stored \subseteq stored' /\ stored' \subseteq Codes /\ Len(contracts') <= MaxContracts
        /\ \A a \in DOMAIN contracts : a \in DOMAIN contracts' /\ contracts'[a] = contracts[a]
    BY <1>1 DEF CIInv, CTyped
  <1>7. contracts' \in Seq([code : stored', by : Users \cup 1..MaxContracts])
    <2>1. [code : stored, by : Users \cup 1..MaxContracts] \subseteq [code : stored', by : Users \cup 1..MaxContracts]
      BY <1>6
    <2>2. contracts \in Seq([code : stored, by : Users \cup 1..MaxContracts])
      BY DEF CIInv, CTyped
    <2>3. \A S, T : S \subseteq T => Seq(S) \subseteq Seq(T)
      OBVIOUS
    <2>4. contracts' \in Seq([code : stored, by : Users \cup 1..MaxContracts])
      BY <1>1, <2>2
    <2>5. QED
      BY <2>1, <2>3, <2>4
  <1>8. QED
    BY <1>1, <1>3, <1>4, <1>5, <1>6, <1>7, MoveCIInv

\* the inner contract, if there is one
LEMMA InnerIs ==
  ASSUME NEW inner, inner \in {{}} \cup {{c} : c \in stored}
  PROVE  /\ Cardinality(inner) \in 0..1
         /\ Cardinality(inner) = 1 => (CHOOSE c \in inner : TRUE) \in stored
  <1>1. CASE inner = {}
    BY <1>1, FS_EmptySet
  <1>2. CASE \E c \in stored : inner = {c}
    <2>1. PICK c \in stored : inner = {c}
      BY <1>2
    <2>2. Cardinality(inner) = 1 /\ (CHOOSE d \in inner : TRUE) \in inner
      BY <2>1, FS_Singleton
    <2>3. QED
      BY <2>1, <2>2
  <1>3. QED
    BY <1>1, <1>2

LEMMA Repeated ==
  ASSUME NEW k \in 0..1, NEW S, NEW x, k = 1 => x \in S
  PROVE  /\ [i \in 1..k |-> x] \in Seq(S) /\ Len([i \in 1..k |-> x]) = k
         /\ \A i \in 1..k : [j \in 1..k |-> x][i] = x
  <1>1. CASE k = 0
    BY <1>1
  <1>2. CASE k = 1
    BY <1>2
  <1>3. QED
    BY <1>1, <1>2

\* what a constructor that ran adds to the chain and to the events
LEMMA ContractsGrow ==
  ASSUME NEW S, NEW old \in Seq(S), NEW mine \in S, NEW inner \in Seq(S)
  PROVE  LET all == (old \o <<mine>>) \o inner
         IN /\ all \in Seq(S) /\ Len(all) = Len(old) + 1 + Len(inner)
            /\ \A a \in DOMAIN old : a \in DOMAIN all /\ all[a] = old[a]
            /\ Len(old) + 1 \in DOMAIN all /\ all[Len(old) + 1] = mine
  OBVIOUS

LEMMA EventsAre ==
  ASSUME NEW k \in 0..1, NEW S, NEW x, k = 1 => x \in S, NEW e \in S, NEW g \in Seq(S),
         Len(g) = k, \A i \in 1..k : g[i] = x, NEW all, all = g \o <<e>>
  PROVE  /\ all \in Seq(S) /\ Len(all) = k + 1
         /\ \A i \in DOMAIN all : all[i] = e \/ (k = 1 /\ all[i] = x)
         /\ Len(all) = 1 => all[1] = e
  <1>1. <<e>> \in Seq(S) /\ Len(<<e>>) = 1 /\ <<e>>[1] = e
    OBVIOUS
  <1>2. all \in Seq(S) /\ Len(all) = k + 1 /\ DOMAIN all = 1..(k + 1)
    BY <1>1
  <1>3. /\ \A i \in 1..k : all[i] = g[i]
        /\ all[k + 1] = e
    <2>1. k \in Nat /\ DOMAIN g = 1..k
      OBVIOUS
    <2>2. \A i \in 1..k : all[i] = g[i]
      BY <2>1
    <2>3. all[k + 1] = e
      BY <1>1, <2>1
    <2>4. QED
      BY <2>2, <2>3
  <1>4. \A i \in 1..(k + 1) : i \in 1..k \/ i = k + 1
    OBVIOUS
  <1>5. \A i \in 1..k : k = 1
    OBVIOUS
  <1>6. ASSUME NEW i \in DOMAIN all PROVE all[i] = e \/ (k = 1 /\ all[i] = x)
    <2>1. i \in 1..k \/ i = k + 1
      BY <1>2, <1>4
    <2>2. QED
      BY <2>1, <1>3, <1>5
  <1>7. Len(all) = 1 => all[1] = e
    BY <1>2, <1>3
  <1>8. QED
    BY <1>2, <1>6, <1>7

LEMMA instantiate_callCIInv ==
  ASSUME CIInv, NEW u \in Users, NEW inner, inner \in {{}} \cup {{c} : c \in stored},
         instantiate_call(u, inner)
  PROVE  CIInv'
  <1> DEFINE new == Len(contracts) + 1
             mine == [code |-> cmd[u].target, by |-> u]
             k == Cardinality(inner)
             runs == ConstructorRuns[cmd[u].data]
             other == [code |-> CHOOSE c \in inner : TRUE, by |-> new]
             C == [code : stored, by : Users \cup 1..MaxContracts]
             E == {"CodeStored", "Instantiated"} \X Answer
  <1>1. /\ cmd[u] \in Command /\ cmd[u].kind = "instantiate" /\ cmd[u].pc = "built" /\ Asked(cmd[u])
        /\ cmd[u].typed \in Lines /\ cmd[u].data = Encoded[cmd[u].typed][2] /\ cmd[u].target \in Codes
        /\ stored' = stored
    BY DEF CIInv, CTyped, Asked, instantiate_call
  <1>2. /\ contracts \in Seq(C) /\ Len(contracts) <= MaxContracts /\ MaxContracts \in Nat /\ new \in Nat \ {0}
    BY CommandsAssumption DEF CIInv, CTyped
  <1>3. CASE cmd[u].target \notin stored \/ runs = {}
    <2>1. PICK r : r = [cmd[u] EXCEPT !.pc = "applied", !.ran = <<>>, !.events = <<>>]
      OBVIOUS
    <2>2. Step(u, r) /\ UNCHANGED <<stored, contracts>>
      BY <1>1, <1>3, <2>1 DEF instantiate_call, Executed
    <2>3. /\ r \in Command /\ r.pc = "applied" /\ r.kind = "instantiate" /\ r.target = cmd[u].target
          /\ r.ran = <<>> /\ r.events = <<>>
      BY <1>1, <2>1, NoEvents DEF Command
    <2>4. Asked(r) /\ Shown(u, r)
      BY <1>1, <2>3 DEF Asked, Shown
    <2>5. QED
      BY <2>2, <2>3, <2>4, KeepCIInv
  <1>4. CASE ~(cmd[u].target \notin stored \/ runs = {})
    <2> DEFINE ran == CHOOSE r \in runs : TRUE
               also == [i \in 1..k |-> other]
               nested == <<"Instantiated", new + 1>>
               first == [i \in 1..k |-> nested]
               own == <<"Instantiated", new>>
    <2>1. /\ new + k <= MaxContracts
          /\ contracts' = (contracts \o <<mine>>) \o also
          /\ Executed(u, ran, first \o <<own>>)
      BY <1>4 DEF instantiate_call
    <2>2. ran \in runs /\ ran # <<>>
      BY <1>1, <1>4, EncodedIs
    <2>3. k \in 0..1 /\ (k = 1 => other \in C) /\ mine \in C
      <3>1. k \in 0..1 /\ (k = 1 => (CHOOSE c \in inner : TRUE) \in stored)
        BY InnerIs
      <3>2. new \in 1..MaxContracts
        BY <3>1, <2>1, <1>2
      <3>3. QED
        BY <3>1, <3>2, <1>4
    <2>4. own \in E /\ (k = 1 => nested \in E)
      BY <2>1, <2>3, <1>2 DEF Answer
    <2>5. PICK e, r : /\ e = first \o <<own>>
                      /\ r = [cmd[u] EXCEPT !.pc = "applied", !.ran = ran, !.events = e]
      OBVIOUS
    <2> HIDE DEF C, E, k, other, mine, own, nested, new
    <2>6. also \in Seq(C) /\ Len(also) = k
      BY <2>3, Repeated
    <2>7. first \in Seq(E) /\ Len(first) = k /\ \A i \in 1..k : first[i] = nested
      BY <2>3, <2>4, Repeated
    <2> HIDE DEF also, first, ran
    <2>8. /\ contracts' \in Seq(C) /\ Len(contracts') = Len(contracts) + 1 + k
          /\ \A a \in DOMAIN contracts : a \in DOMAIN contracts' /\ contracts'[a] = contracts[a]
          /\ Len(contracts) + 1 \in DOMAIN contracts' /\ contracts'[Len(contracts) + 1] = mine
      BY <1>2, <2>1, <2>3, <2>6, ContractsGrow
    <2>9. /\ e \in Seq(E) /\ Len(e) = k + 1 /\ (Len(e) = 1 => e[1] = own)
          /\ \A i \in DOMAIN e : e[i] = own \/ (k = 1 /\ e[i] = nested)
      BY <2>3, <2>4, <2>5, <2>7, EventsAre
    <2>10. ran \in Ran
      BY <1>1, <2>2 DEF Ran
    <2>17. e \in EventList
      BY <2>9 DEF E, EventList
    <2>11. /\ r \in Command /\ r.pc = "applied" /\ r.kind = "instantiate" /\ r.target = cmd[u].target
           /\ r.ran = ran /\ r.events = e
      BY <1>1, <2>5, <2>9, <2>10, <2>17 DEF Command
    <2>12. Step(u, r)
      BY <2>1, <2>5 DEF Executed
    <2>13. Asked(r)'
      BY <1>1, <2>11 DEF Asked
    <2>14. Shown(u, r)'
      <3>1. e # <<>>
        BY <2>9, <2>3
      <3>2. own[1] = "Instantiated" /\ own[2] \in DOMAIN contracts' /\ contracts'[own[2]] = mine
        BY <2>8 DEF own, new
      <3>3. k = 1 => nested[1] = "Instantiated" /\ nested[2] \in DOMAIN contracts'
        BY <2>8, <2>3, <1>2 DEF new, nested
      <3>4. \A i \in DOMAIN e : e[i][1] = "Instantiated" /\ e[i][2] \in DOMAIN contracts'
        BY <3>2, <3>3, <2>9
      <3>5. Len(e) = 1 => contracts'[e[1][2]] = [code |-> r.target, by |-> u]
        BY <3>2, <2>9, <2>11 DEF mine
      <3>6. QED
        BY <2>2, <2>11, <3>1, <3>4, <3>5 DEF Shown
    <2>15. Len(contracts') <= MaxContracts
      BY <2>1, <2>8, <2>3, <1>2 DEF new
    <2>16. QED
      BY <1>1, <2>8, <2>11, <2>12, <2>13, <2>14, <2>15, MoveCIInv DEF C, CIInv, CTyped
  <1>5. QED
    BY <1>3, <1>4

LEMMA call_callCIInv ==
  ASSUME CIInv, NEW u \in Users, call_call(u)
  PROVE  CIInv'
  <1> DEFINE runs == MessageRuns[cmd[u].data]
             ran == IF runs = {} THEN <<>> ELSE CHOOSE r \in runs : TRUE
  <1>1. /\ cmd[u] \in Command /\ cmd[u].kind = "call" /\ cmd[u].pc = "built" /\ Asked(cmd[u])
        /\ cmd[u].typed \in Lines /\ cmd[u].data = Encoded[cmd[u].typed][2]
    BY DEF CIInv, CTyped, Asked, call_call
  <1>2. ran \in Ran
    BY <1>1 DEF Ran
  <1> HIDE DEF ran
  <1>3. PICK r : r = [cmd[u] EXCEPT !.pc = "applied", !.ran = ran, !.events = <<>>]
    OBVIOUS
  <1>4. Step(u, r) /\ UNCHANGED <<stored, contracts>>
    BY <1>3 DEF call_call, Executed, ran
  <1>5. r \in Command /\ r.pc = "applied" /\ r.kind = "call" /\ r.target = cmd[u].target
    BY <1>1, <1>2, <1>3, NoEvents DEF Command
  <1>6. Asked(r) /\ Shown(u, r)
    BY <1>1, <1>5 DEF Asked, Shown
  <1>7. QED
    BY <1>4, <1>5, <1>6, KeepCIInv

\* what find_event answers: the first event of the kind that was waited for
LEMMA FoundIs ==
  ASSUME CIInv, NEW u \in Users, NEW r \in Command, Asked(r), Shown(u, r), r.pc # "idle"
  PROVE  /\ find_event(r) \in Answer
         /\ r.kind = "put_code" => find_event(r) = r.target
         /\ r.kind = "instantiate" /\ find_event(r) # Failed =>
                /\ r.ran # <<>> /\ find_event(r) \in DOMAIN contracts
                /\ Len(r.events) = 1 => find_event(r) = r.events[1][2]
         /\ r.kind = "call" /\ find_event(r) # Failed => r.ran # <<>> /\ find_event(r) = r.target
  <1> DEFINE e == r.events
             found == {i \in DOMAIN e : e[i][1] = Wanted(r.kind)}
  <1>1. /\ e \in Seq({"CodeStored", "Instantiated"} \X Answer) /\ Failed \in Answer
        /\ r.target \in Answer /\ r.kind \in {"put_code", "instantiate", "call"}
    BY CommandsAssumption DEF Command, Asked, Answer, Failed, EventList
  <1>2. found \subseteq Nat
    BY <1>1
  <1>3. found # {} => Min(found) \in found
    <2>1. ASSUME found # {} PROVE \E m \in found : \A n \in found : m <= n
      BY <1>2, <2>1, LeastNumber
    <2>2. QED
      BY <2>1 DEF Min
  <1>4. CASE r.kind = "call"
    BY <1>1, <1>4 DEF find_event
  <1>5. CASE r.kind = "put_code"
    <2>1. e = <<<<"CodeStored", r.target>>>> /\ Wanted(r.kind) = "CodeStored"
      BY <1>5 DEF Shown, Wanted
    <2>2. found = {1}
      BY <2>1
    <2>3. Min(found) = 1
      BY <1>3, <2>2
    <2>4. find_event(r) = e[Min(found)][2]
      BY <1>5, <2>2 DEF find_event
    <2>5. find_event(r) = r.target
      BY <2>1, <2>3, <2>4
    <2>6. QED
      BY <1>1, <1>5, <2>5
  <1>6. CASE r.kind = "instantiate"
    <2>0. Wanted(r.kind) = "Instantiated"
      BY <1>6 DEF Wanted
    <2>1. found = DOMAIN e
      BY <1>6, <2>0 DEF Shown
    <2>2. CASE found = {}
      <3>1. find_event(r) = Failed
        BY <1>6, <2>2 DEF find_event
      <3>2. QED
        BY <1>1, <1>6, <3>1
    <2>3. CASE found # {}
      <3>1. find_event(r) = e[Min(found)][2]
        BY <1>6, <2>3 DEF find_event
      <3>2. Min(found) \in DOMAIN e
        BY <1>3, <2>1, <2>3
      <3>3. e[Min(found)] \in {"CodeStored", "Instantiated"} \X Answer
        BY <1>1, <3>2, ElementIs
      <3>4. e # <<>>
        BY <1>1, <3>2
      <3>5. Len(e) = 1 => Min(found) = 1
        BY <1>1, <3>2
      <3>6. r.ran # <<>> /\ e[Min(found)][2] \in DOMAIN contracts
        BY <1>6, <3>2, <3>4 DEF Shown
      <3>7. QED
        BY <1>6, <3>1, <3>3, <3>5, <3>6
    <2>4. QED
      BY <2>2, <2>3
  <1>7. QED
    BY <1>1, <1>4, <1>5, <1>6

LEMMA watchedCIInv ==
  ASSUME CIInv, NEW u \in Users, watched(u)
  PROVE  CIInv'
  <1>1. /\ cmd[u] \in Command /\ cmd[u].pc = "applied" /\ Asked(cmd[u]) /\ Shown(u, cmd[u])
        /\ UNCHANGED <<stored, contracts>>
    BY DEF CIInv, CTyped, watched
  <1>2. PICK a, r : a = find_event(cmd[u]) /\ r = [cmd[u] EXCEPT !.pc = "ended", !.answer = a]
    OBVIOUS
  <1>3. a \in Answer
    BY <1>1, <1>2, FoundIs
  <1>4. Step(u, r)
    BY <1>2 DEF watched, Ended
  <1>5. /\ r \in Command /\ r.pc = "ended" /\ r.answer = a /\ r.kind = cmd[u].kind /\ r.target = cmd[u].target
        /\ r.ran = cmd[u].ran /\ r.events = cmd[u].events
    BY <1>1, <1>2, <1>3 DEF Command
  <1>6. Asked(r) /\ Shown(u, r)
    BY <1>1, <1>5 DEF Asked, Shown
  <1>7. find_event(r) = a
    BY <1>2, <1>5 DEF find_event
  <1>8. QED
    BY <1>1, <1>4, <1>5, <1>6, <1>7, KeepCIInv

LEMMA failsCIInv ==
  ASSUME CIInv, NEW u \in Users, fails(u)
  PROVE  CIInv'
  <1>1. /\ cmd[u] \in Command /\ cmd[u].pc \in {"built", "applied"} /\ Asked(cmd[u])
        /\ UNCHANGED <<stored, contracts>>
    BY DEF CIInv, CTyped, fails
  <1>2. PICK r : r = [cmd[u] EXCEPT !.pc = "ended", !.answer = Failed]
    OBVIOUS
  <1>3. Step(u, r)
    BY <1>2 DEF fails, Ended
  <1>4. r \in Command /\ r.pc = "ended" /\ r.answer = Failed /\ r.kind = cmd[u].kind /\ r.target = cmd[u].target
    <2>1. Failed \in Answer
      BY CommandsAssumption DEF Answer, Failed
    <2> HIDE DEF Failed
    <2>2. QED
      BY <1>1, <1>2, <2>1 DEF Command
  <1>5. Asked(r)
    BY <1>1, <1>4 DEF Asked
  <1>6. QED
    BY <1>1, <1>3, <1>4, <1>5, KeepCIInv

LEMMA StepCIInv == CIInv /\ [CNext]_cvars => CIInv'
  <1> SUFFICES ASSUME CIInv, [CNext]_cvars PROVE CIInv'
    OBVIOUS
  <1>1. CASE UNCHANGED cvars
    <2>1. /\ stored' = stored /\ contracts' = contracts /\ cmd' = cmd
      BY <1>1 DEF cvars
    <2>2. CTyped'
      BY <2>1 DEF CIInv, CTyped
    <2>3. ASSUME NEW u \in Users
          PROVE  /\ Asked(cmd[u])'
                 /\ (cmd[u].pc = "applied" => Shown(u, cmd[u]))'
                 /\ (cmd[u].pc = "ended" /\ cmd[u].answer # Failed =>
                        Shown(u, cmd[u]) /\ cmd[u].answer = find_event(cmd[u]))'
      <3>1. (Asked(cmd[u]) <=> Asked(cmd[u])') /\ (Shown(u, cmd[u]) <=> Shown(u, cmd[u])')
        BY <2>1 DEF Asked, Shown
      <3>2. find_event(cmd[u])' = find_event(cmd[u])
        BY <2>1 DEF find_event, Wanted
      <3>3. QED
        BY <2>1, <3>1, <3>2 DEF CIInv
    <2>4. QED
      BY <2>2, <2>3 DEF CIInv
  <1>2. ASSUME NEW u \in Users, NEW c \in Codes, exec(u, c) PROVE CIInv'
    BY <1>2, execCIInv
  <1>3. ASSUME NEW u \in Users, NEW c \in Codes, NEW t \in Typed[u], instantiate(u, c, t) PROVE CIInv'
    BY <1>3, startCIInv DEF instantiate
  <1>4. ASSUME NEW u \in Users, NEW a \in 1..MaxContracts, NEW t \in Typed[u], call(u, a, t) PROVE CIInv'
    BY <1>4, startCIInv DEF call
  <1>5. ASSUME NEW u \in Users, put_code(u) PROVE CIInv'
    BY <1>5, put_codeCIInv
  <1>6. ASSUME NEW u \in Users, NEW inner \in {{}} \cup {{c} : c \in stored}, instantiate_call(u, inner)
        PROVE  CIInv'
    BY <1>6, instantiate_callCIInv
  <1>7. ASSUME NEW u \in Users, call_call(u) PROVE CIInv'
    BY <1>7, call_callCIInv
  <1>8. ASSUME NEW u \in Users, watched(u) PROVE CIInv'
    BY <1>8, watchedCIInv
  <1>9. ASSUME NEW u \in Users, fails(u) PROVE CIInv'
    BY <1>9, failsCIInv
  <1>10. QED
    BY <1>1, <1>2, <1>3, <1>4, <1>5, <1>6, <1>7, <1>8, <1>9 DEF CNext

LEMMA AnswersFollow == CIInv => AnswersAreRight
  <1> SUFFICES ASSUME CIInv PROVE AnswersAreRight
    OBVIOUS
  <1>1. CTypeOK
    <2>1. ASSUME NEW a \in DOMAIN contracts PROVE contracts[a].code \in stored
      <3>1. contracts[a] \in [code : stored, by : Users \cup 1..MaxContracts]
        BY ElementIs DEF CIInv, CTyped
      <3>2. QED
        BY <3>1
    <2>2. \A u \in Users : cmd[u] \in Command
      BY DEF CIInv, CTyped
    <2>3. QED
      BY <2>1, <2>2 DEF CTypeOK, CIInv, CTyped, Command, Answer
  <1>2. ASSUME NEW u \in Users, cmd[u].pc = "ended", cmd[u].answer # Failed
        PROVE  /\ cmd[u].kind = "instantiate" /\ Len(cmd[u].events) = 1 =>
                      contracts[cmd[u].answer] = [code |-> cmd[u].target, by |-> u]
               /\ IF cmd[u].kind = "put_code" THEN cmd[u].answer = cmd[u].target /\ cmd[u].target \in stored
                  ELSE cmd[u].ran # <<>> /\ cmd[u].answer \in DOMAIN contracts
    <2>1. /\ cmd[u] \in Command /\ Asked(cmd[u]) /\ Shown(u, cmd[u]) /\ cmd[u].answer = find_event(cmd[u])
      BY <1>2 DEF CIInv, CTyped
    <2>2. cmd[u].kind \in {"put_code", "instantiate", "call"}
      BY <1>2, <2>1 DEF Command, Asked
    <2>3. CASE cmd[u].kind = "put_code"
      BY <1>2, <2>1, <2>3, FoundIs DEF Shown
    <2>4. CASE cmd[u].kind = "instantiate"
      BY <1>2, <2>1, <2>4, FoundIs DEF Shown
    <2>5. CASE cmd[u].kind = "call"
      BY <1>2, <2>1, <2>5, FoundIs DEF Asked
    <2>6. QED
      BY <2>2, <2>3, <2>4, <2>5
  <1>3. QED
    BY <1>1, <1>2 DEF AnswersAreRight, AnswersOwnContract, AnsweredWasApplied

(* For every set of users, codes and typed lines, and whatever a contract   *)
(* does with its data, CIInv holds in every reachable state.                *)
THEOREM CommandsInvariant == CSpec => []CIInv
  <1>1. CInit => CIInv
    BY InitCIInv
  <1>2. CIInv /\ [CNext]_cvars => CIInv'
    BY StepCIInv
  <1>3. QED
    BY <1>1, <1>2, PTL DEF CSpec

(* Whose contract is answered, and that what is answered a success was      *)
(* applied (find_event after instantiate, call and exec), in every          *)
(* reachable state.                                                         *)
THEOREM AnswersStayRight == CSpec => []AnswersAreRight
  BY CommandsInvariant, AnswersFollow, PTL

-----------------------------------------------------------------------------
(* Requests: the keys and the calls a client asks its metadata for.         *)

\* the elements of a list
LEMMA ListIs ==
  ASSUME NEW s, IsList(s)
  PROVE  /\ s \in Seq(ToSet(s)) /\ Len(s) \in Nat /\ DOMAIN s = 1..Len(s)
         /\ \A i \in DOMAIN s : s[i] \in ToSet(s)
  BY DEF IsList

LEMMA Widened ==
  ASSUME NEW s, IsList(s), NEW S, ToSet(s) \subseteq S
  PROVE  s \in Seq(S)
  BY DEF IsList

LEMMA Listed ==
  ASSUME NEW S, NEW s \in Seq(S)
  PROVE  IsList(s)
  <1>1. \A i \in DOMAIN s : s[i] \in ToSet(s)
    BY DEF ToSet
  <1>2. QED
    BY <1>1 DEF IsList

LEMMA UnitIs ==
  ASSUME NEW a
  PROVE  IsList(<<a>>) /\ Len(<<a>>) = 1 /\ <<a>>[1] = a
  <1>1. <<a>> \in Seq({a})
    OBVIOUS
  <1>2. QED
    BY <1>1, Listed

\* two lists one after the other
LEMMA OnePast ==
  ASSUME NEW s, NEW t, IsList(s), IsList(t)
  PROVE  /\ IsList(s \o t) /\ Len(s \o t) = Len(s) + Len(t)
         /\ \A i \in 1..Len(s) : (s \o t)[i] = s[i]
         /\ \A i \in 1..Len(t) : (s \o t)[Len(s) + i] = t[i]
  <1> DEFINE S == ToSet(s) \cup ToSet(t)
  <1>1. s \in Seq(S) /\ t \in Seq(S)
    BY Widened
  <1> HIDE DEF S
  <1>2. s \o t \in Seq(S) /\ Len(s) \in Nat /\ Len(t) \in Nat
    BY <1>1
  <1>3. Len(s \o t) = Len(s) + Len(t)
    BY <1>1
  <1>4. \A i \in 1..Len(s) : (s \o t)[i] = s[i]
    BY <1>1
  <1>5. ASSUME NEW i \in 1..Len(t) PROVE (s \o t)[Len(s) + i] = t[i]
    BY <1>1, <1>2
  <1>6. QED
    BY <1>2, <1>3, <1>4, <1>5, Listed

LEMMA SameList ==
  ASSUME NEW s, NEW t, IsList(s), IsList(t), Len(s) = Len(t), \A i \in 1..Len(s) : s[i] = t[i]
  PROVE  s = t
  <1> DEFINE S == ToSet(s) \cup ToSet(t)
  <1>1. s \in Seq(S) /\ t \in Seq(S)
    BY Widened
  <1> HIDE DEF S
  <1>2. QED
    BY <1>1

\* sequences that begin alike go on alike
LEMMA Cancel ==
  ASSUME NEW k, NEW x, NEW y, IsList(k), IsList(x), IsList(y), k \o x = k \o y
  PROVE  x = y
  <1>0. Len(k) \in Nat /\ Len(x) \in Nat /\ Len(y) \in Nat
    BY ListIs
  <1>1. Len(x) = Len(y)
    <2>1. Len(k \o x) = Len(k) + Len(x) /\ Len(k \o y) = Len(k) + Len(y)
      BY OnePast
    <2>2. QED
      BY <1>0, <2>1
  <1>2. ASSUME NEW i \in 1..Len(x) PROVE x[i] = y[i]
    <2>1. (k \o x)[Len(k) + i] = x[i] /\ (k \o y)[Len(k) + i] = y[i]
      BY <1>1, OnePast
    <2>2. QED
      BY <2>1
  <1>3. QED
    BY <1>1, <1>2, SameList

\* of two sequences that begin the same one, one begins the other
LEMMA OneBegins ==
  ASSUME NEW k, NEW l, NEW x, NEW y, IsList(k), IsList(l), IsList(x), IsList(y), k \o x = l \o y,
         Len(k) <= Len(l)
  PROVE  IsPrefix(k, l)
  <1>0. Len(k) \in Nat /\ Len(l) \in Nat
    BY ListIs
  <1>1. ASSUME NEW i \in 1..Len(k) PROVE k[i] = l[i]
    <2>1. i \in 1..Len(l)
      BY <1>0
    <2>2. (k \o x)[i] = k[i] /\ (l \o y)[i] = l[i]
      BY <2>1, OnePast
    <2>3. QED
      BY <2>2
  <1>2. PICK S : k \in Seq(S) /\ l \in Seq(S)
    <2>1. k \in Seq(ToSet(k) \cup ToSet(l)) /\ l \in Seq(ToSet(k) \cup ToSet(l))
      BY Widened
    <2>2. QED
      BY <2>1
  <1>3. SubSeq(l, 1, Len(k)) \in Seq(S) /\ Len(SubSeq(l, 1, Len(k))) = Len(k)
    BY <1>0, <1>2
  <1>4. ASSUME NEW i \in 1..Len(k) PROVE SubSeq(l, 1, Len(k))[i] = l[i]
    BY <1>0, <1>2
  <1>5. k = SubSeq(l, 1, Len(k))
    BY <1>1, <1>2, <1>3, <1>4
  <1>6. QED
    BY <1>5 DEF IsPrefix

LEMMA Largest ==
  ASSUME NEW S, NEW n \in Nat, S \subseteq 1..n, S # {}
  PROVE  \E i \in S : \A j \in S : j <= i
  <1> DEFINE T == {n - i : i \in S}
  <1>0. \A i \in S : i \in Nat /\ n - i \in Nat
    OBVIOUS
  <1>1. T \subseteq Nat /\ T # {}
    BY <1>0
  <1>2. PICK t \in T : \A u \in T : t <= u
    BY <1>1, LeastNumber
  <1>3. PICK i \in S : t = n - i
    OBVIOUS
  <1>4. ASSUME NEW j \in S PROVE j <= i
    <2>1. n - j \in T /\ t <= n - j
      BY <1>2
    <2>2. QED
      BY <1>0, <1>3, <2>1
  <1>5. QED
    BY <1>4

\* a table holds, under each name, what the last pair of the name gives
LEMMA TableIs ==
  ASSUME NEW pairs, NEW n \in Nat, DOMAIN pairs \subseteq 1..n, NEW k \in DOMAIN Table(pairs)
  PROVE  \E i \in DOMAIN pairs : pairs[i][1] = k /\ Table(pairs)[k] = pairs[i][2]
  <1> DEFINE S == {i \in DOMAIN pairs : pairs[i][1] = k}
  <1>1. S # {} /\ S \subseteq 1..n
    BY DEF Table
  <1>2. \E i \in S : \A j \in S : j <= i
    BY <1>1, Largest
  <1>3. \E i \in DOMAIN pairs : pairs[i][1] = k /\ \A j \in DOMAIN pairs : pairs[j][1] = k => j <= i
    BY <1>2
  <1> DEFINE last == CHOOSE i \in DOMAIN pairs : /\ pairs[i][1] = k
                                                 /\ \A j \in DOMAIN pairs : pairs[j][1] = k => j <= i
  <1>4. last \in DOMAIN pairs /\ pairs[last][1] = k
    BY <1>3
  <1>5. Table(pairs)[k] = pairs[last][2]
    BY DEF Table
  <1>6. QED
    BY <1>4, <1>5

LEMMA ModuleIs ==
  ASSUME NEW ms, IsList(ms), NEW p \in DOMAIN modules(ms)
  PROVE  \E m \in ToSet(ms) : m.name = p /\ modules(ms)[p] = [index |-> m.index, storage |-> storage_map(m)]
  <1> DEFINE pairs == [i \in DOMAIN ms |-> <<ms[i].name, [index |-> ms[i].index, storage |-> storage_map(ms[i])]>>]
  <1>1. modules(ms) = Table(pairs)
    BY DEF modules, NamedTable
  <1>2. Len(ms) \in Nat /\ DOMAIN pairs \subseteq 1..Len(ms)
    BY ListIs
  <1> HIDE DEF pairs
  <1>3. PICK i \in DOMAIN pairs : pairs[i][1] = p /\ Table(pairs)[p] = pairs[i][2]
    BY <1>1, <1>2, TableIs
  <1>4. i \in DOMAIN ms /\ pairs[i] = <<ms[i].name, [index |-> ms[i].index, storage |-> storage_map(ms[i])]>>
    BY DEF pairs
  <1>5. QED
    BY <1>1, <1>3, <1>4, ListIs

LEMMA EntryOfModule ==
  ASSUME NEW m, IsList(m.storage), NEW f \in DOMAIN storage_map(m)
  PROVE  /\ m.storage # <<>>
         /\ \E e \in ToSet(m.storage) : storage_map(m)[f] = [module |-> m.prefix, name |-> f, ty |-> e.ty]
  <1> DEFINE s == m.storage
             pairs == [i \in DOMAIN s |-> <<s[i].name, [module |-> m.prefix, name |-> s[i].name, ty |-> s[i].ty]>>]
  <1>1. storage_map(m) = Table(pairs)
    BY DEF storage_map, NamedTable
  <1>2. Len(s) \in Nat /\ DOMAIN pairs \subseteq 1..Len(s)
    BY ListIs
  <1> HIDE DEF pairs
  <1>3. PICK i \in DOMAIN pairs : pairs[i][1] = f /\ Table(pairs)[f] = pairs[i][2]
    BY <1>1, <1>2, TableIs
  <1>4. /\ i \in DOMAIN s
        /\ pairs[i] = <<s[i].name, [module |-> m.prefix, name |-> s[i].name, ty |-> s[i].ty]>>
    BY DEF pairs
  <1>5. s # <<>>
    BY <1>4, ListIs
  <1>6. QED
    BY <1>1, <1>3, <1>4, <1>5, ListIs

LEMMA MetadataIs ==
  ASSUME NEW r, try_from(r)[1] = "ok"
  PROVE  /\ try_from(r)[2].modules = modules(r.modules)
         /\ try_from(r)[2].calls = modules_with_calls(r.modules)
  BY DEF try_from, Then, Found, Failure

\* the entry that is asked for
Gives(r, md, p, f) == r \in Raws /\ try_from(r) = <<"ok", md>> /\ entry_of(md, p, f)[1] = "ok"

EntryFrom(r, m, p, f, entry) ==
    /\ m \in ToSet(r.modules) /\ m.name = p /\ m.storage # <<>>
    /\ \E e \in ToSet(m.storage) : entry = [module |-> m.prefix, name |-> f, ty |-> e.ty]

LEMMA EntryIs ==
  ASSUME NEW r, NEW md, NEW p, NEW f, Gives(r, md, p, f)
  PROVE  /\ entry_of(md, p, f) = <<"ok", entry_of(md, p, f)[2]>>
         /\ \E m : EntryFrom(r, m, p, f, entry_of(md, p, f)[2])
  <1>0. r \in Raws /\ try_from(r) = <<"ok", md>> /\ entry_of(md, p, f)[1] = "ok"
    BY DEF Gives
  <1> DEFINE ms == r.modules
  <1>1. md.modules = modules(ms) /\ IsList(ms) /\ \A m \in ToSet(ms) : IsList(m.storage)
    BY <1>0, MetadataIs, RequestsAssumption
  <1>2. /\ p \in DOMAIN md.modules /\ f \in DOMAIN md.modules[p].storage
        /\ entry_of(md, p, f) = <<"ok", md.modules[p].storage[f]>>
    BY <1>0 DEF entry_of, Then, module, storage_of, Get, Found, Failure
  <1> HIDE DEF ms
  <1>3. PICK m \in ToSet(ms) : m.name = p /\ modules(ms)[p] = [index |-> m.index, storage |-> storage_map(m)]
    BY <1>1, <1>2, ModuleIs
  <1>4. md.modules[p].storage = storage_map(m)
    BY <1>1, <1>3
  <1>5. /\ m.storage # <<>>
        /\ \E e \in ToSet(m.storage) : storage_map(m)[f] = [module |-> m.prefix, name |-> f, ty |-> e.ty]
    BY <1>1, <1>2, <1>4, EntryOfModule
  <1>6. QED
    BY <1>2, <1>3, <1>4, <1>5 DEF ms, EntryFrom

\* the prefix of an entry: two hashes, of the module's prefix and of the name
LEMMA PrefixIs ==
  ASSUME NEW e
  PROVE  prefix(e) = <<<<"Twox128", <<e.module>>>>, <<"Twox128", <<e.name>>>>>>
  <1>1. hash_key("Twox128", <<e.module>>) = <<<<"Twox128", <<e.module>>>>>>
    BY DEF hash_key
  <1>2. hash_key("Twox128", <<e.name>>) = <<<<"Twox128", <<e.name>>>>>>
    BY DEF hash_key
  <1>3. ASSUME NEW a, NEW b PROVE <<a>> \o <<b>> = <<a, b>>
    <2>1. <<a>> \in Seq({a, b}) /\ <<b>> \in Seq({a, b}) /\ <<a, b>> \in Seq({a, b})
      OBVIOUS
    <2>2. /\ Len(<<a>> \o <<b>>) = 2 /\ <<a>> \o <<b>> \in Seq({a, b})
          /\ (<<a>> \o <<b>>)[1] = a /\ (<<a>> \o <<b>>)[2] = b
      BY <2>1
    <2>3. IsList(<<a>> \o <<b>>) /\ IsList(<<a, b>>)
      BY <2>1, <2>2, Listed
    <2>4. Len(<<a, b>>) = 2 /\ <<a, b>>[1] = a /\ <<a, b>>[2] = b
      OBVIOUS
    <2>5. \A i \in 1..2 : i = 1 \/ i = 2
      OBVIOUS
    <2> DEFINE s == <<a>> \o <<b>>
               t == <<a, b>>
    <2>6. Len(s) = Len(t) /\ Len(s) = 2 /\ s[1] = t[1] /\ s[2] = t[2]
      BY <2>2, <2>4
    <2> HIDE DEF s, t
    <2>7. \A i \in 1..Len(s) : s[i] = t[i]
      BY <2>5, <2>6
    <2>8. s = t
      BY <2>3, <2>6, <2>7, SameList DEF s, t
    <2>9. QED
      BY <2>8 DEF s, t
  <1>4. QED
    BY <1>1, <1>2, <1>3 DEF prefix

LEMMA PrefixFound ==
  ASSUME NEW md, NEW p, NEW f, entry_of(md, p, f) = <<"ok", entry_of(md, p, f)[2]>>
  PROVE  /\ store_prefix(md, p, f)[2] = prefix(entry_of(md, p, f)[2])
         /\ \A args : store_key(md, p, f, args) = entry_key(entry_of(md, p, f)[2], args)
  <1>1. entry_of(md, p, f)[1] = "ok"
    OBVIOUS
  <1>2. QED
    BY <1>1 DEF store_prefix, store_key, Then, Found

\* a store key is only answered of an entry
LEMMA KeyHasEntry ==
  ASSUME NEW md, NEW p, NEW f, NEW args, store_key(md, p, f, args)[1] = "ok"
  PROVE  entry_of(md, p, f)[1] = "ok"
  BY DEF store_key, Then

\* a hashed key is a list that tells keys apart
LEMMA HashedIs ==
  ASSUME NEW h, NEW k, IsList(k)
  PROVE  /\ IsList(hash_key(h, k))
         /\ h # "Identity" => Len(hash_key(h, k)) >= 1 /\ hash_key(h, k)[1] = <<h, k>>
         /\ h = "Identity" => hash_key(h, k) = k
  <1>1. CASE h = "Identity"
    BY <1>1 DEF hash_key
  <1>2. CASE h \in {"Blake2_128Concat", "Twox64Concat"}
    <2>1. hash_key(h, k) = <<<<h, k>>>> \o k
      BY <1>2 DEF hash_key
    <2>2. IsList(<<<<h, k>>>>) /\ Len(<<<<h, k>>>>) = 1 /\ <<<<h, k>>>>[1] = <<h, k>>
      BY UnitIs
    <2>3. /\ IsList(<<<<h, k>>>> \o k) /\ Len(<<<<h, k>>>> \o k) = 1 + Len(k)
          /\ (<<<<h, k>>>> \o k)[1] = <<h, k>>
      BY <2>2, OnePast
    <2>4. Len(k) \in Nat
      BY ListIs
    <2>5. QED
      BY <1>2, <2>1, <2>3, <2>4
  <1>3. CASE h \notin {"Identity", "Blake2_128Concat", "Twox64Concat"}
    <2>1. hash_key(h, k) = <<<<h, k>>>>
      BY <1>3 DEF hash_key
    <2>2. QED
      BY <1>3, <2>1, UnitIs
  <1>4. QED
    BY <1>1, <1>2, <1>3

LEMMA HashTells ==
  ASSUME NEW h, NEW k, NEW l, IsList(k), IsList(l), hash_key(h, k) = hash_key(h, l)
  PROVE  k = l
  <1>1. CASE h = "Identity"
    BY <1>1, HashedIs
  <1>2. CASE h # "Identity"
    <2>1. <<h, k>> = <<h, l>>
      BY <1>2, HashedIs
    <2>2. QED
      BY <2>1
  <1>3. QED
    BY <1>1, <1>2

\* two keys one after the other: the first is told by its hash, or by its own end
Apart(h) == h # "Identity" \/ PrefixFree

OneKeyFrom(h, k, x, l, y) == /\ k \in KeyArgs /\ l \in KeyArgs /\ IsList(k) /\ IsList(l) /\ Apart(h)
                             /\ IsList(x) /\ IsList(y) /\ hash_key(h, k) \o x = hash_key(h, l) \o y

LEMMA FirstTells ==
  ASSUME NEW h, NEW k, NEW x, NEW l, NEW y, OneKeyFrom(h, k, x, l, y)
  PROVE  k = l /\ x = y
  <1>a. /\ k \in KeyArgs /\ l \in KeyArgs /\ IsList(k) /\ IsList(l) /\ Apart(h)
        /\ IsList(x) /\ IsList(y) /\ hash_key(h, k) \o x = hash_key(h, l) \o y
    BY DEF OneKeyFrom
  <1>0. IsList(hash_key(h, k)) /\ IsList(hash_key(h, l)) /\ Len(hash_key(h, k)) \in Nat /\ Len(hash_key(h, l)) \in Nat
    BY <1>a, HashedIs, ListIs
  <1>1. k = l
    <2>1. CASE h # "Identity"
      <3>1. /\ (hash_key(h, k) \o x)[1] = hash_key(h, k)[1]
            /\ (hash_key(h, l) \o y)[1] = hash_key(h, l)[1]
        <4>1. 1 \in 1..Len(hash_key(h, k)) /\ 1 \in 1..Len(hash_key(h, l))
          BY <1>0, <1>a, <2>1, HashedIs
        <4>2. QED
          BY <1>0, <1>a, <4>1, OnePast
      <3>2. <<h, k>> = <<h, l>>
        BY <1>a, <2>1, <3>1, HashedIs
      <3>3. QED
        BY <3>2
    <2>2. CASE h = "Identity"
      <3>1. k \o x = l \o y /\ PrefixFree
        BY <1>a, <2>2, HashedIs DEF Apart
      <3>2. Len(k) \in Nat /\ Len(l) \in Nat
        BY <1>a, ListIs
      <3>3. CASE Len(k) <= Len(l)
        <4>1. IsPrefix(k, l)
          BY <1>a, <3>1, <3>3, OneBegins
        <4>2. QED
          BY <1>a, <3>1, <4>1 DEF PrefixFree
      <3>4. CASE Len(l) <= Len(k)
        <4>1. IsPrefix(l, k)
          BY <1>a, <3>1, <3>4, OneBegins
        <4>2. QED
          BY <1>a, <3>1, <4>1 DEF PrefixFree
      <3>5. QED
        BY <3>2, <3>3, <3>4
    <2>3. QED
      BY <2>1, <2>2
  <1>2. x = y
    BY <1>0, <1>1, <1>a, Cancel
  <1>3. QED
    BY <1>1, <1>2

\* what is asked for: so many keys
LEMMA KeyedIs ==
  ASSUME NEW args, Keyed(args)
  PROVE  /\ args \in Seq(KeyArgs) /\ Len(args) \in 0..2 /\ DOMAIN args = 1..Len(args)
         /\ \A i \in DOMAIN args : args[i] \in KeyArgs /\ IsList(args[i])
         /\ args = <<>> <=> Len(args) = 0
  <1>1. PICK n \in 0..2 : args \in [1..n -> KeyArgs]
    BY DEF Keyed
  <1>2. args \in Seq(KeyArgs) /\ Len(args) = n /\ DOMAIN args = 1..n
    BY <1>1
  <1>3. \A i \in DOMAIN args : args[i] \in KeyArgs
    BY <1>2
  <1>4. QED
    BY <1>2, <1>3, RequestsAssumption

LEMMA NoKeys ==
  ASSUME NEW e, NEW args, Len(Tail(e.ty)) = Len(args), Len(args) = 0
  PROVE  entry_key(e, args) = Found(prefix(e))
  BY DEF entry_key

LEMMA OneKey ==
  ASSUME NEW e, NEW args, Len(Tail(e.ty)) = Len(args), Len(args) = 1
  PROVE  entry_key(e, args) = Found(prefix(e) \o hash_key(Tail(e.ty)[1], args[1]))
  BY DEF entry_key

LEMMA TwoKeys ==
  ASSUME NEW e, NEW args, Len(Tail(e.ty)) = Len(args), Len(args) = 2
  PROVE  entry_key(e, args) =
            Found((prefix(e) \o hash_key(Tail(e.ty)[1], args[1])) \o hash_key(Tail(e.ty)[2], args[2]))
  <1>1. Len(args) # 1 /\ Len(args) # 0
    OBVIOUS
  <1>2. QED
    BY <1>1, Zenon DEF entry_key

LEMMA TailIs ==
  ASSUME NEW S, NEW s \in Seq(S), s # <<>>, NEW k \in 0..2, Len(Tail(s)) = k
  PROVE  /\ Len(s) = k + 1
         /\ k >= 1 => Tail(s)[1] = s[2]
         /\ k = 2 => Tail(s)[2] = s[3]
  <1>1. Len(Tail(s)) = Len(s) - 1 /\ Len(s) \in Nat
    OBVIOUS
  <1>2. ASSUME Len(s) >= 2 PROVE Tail(s)[1] = s[2]
    BY <1>2
  <1>3. ASSUME Len(s) >= 3 PROVE Tail(s)[2] = s[3]
    BY <1>3
  <1>4. Len(s) = k + 1
    BY <1>1
  <1>5. QED
    BY <1>2, <1>3, <1>4

\* the key of an entry: its prefix, and the hashes of the keys
Rest(e, args, rest) == /\ IsList(rest) /\ entry_key(e, args)[2] = prefix(e) \o rest
                       /\ Len(args) = 0 => rest = <<>>
                       /\ Len(args) = 1 => rest = hash_key(e.ty[2], args[1])
                       /\ Len(args) = 2 => rest = hash_key(e.ty[2], args[1]) \o hash_key(e.ty[3], args[2])

LEMMA PrefixList ==
  ASSUME NEW e
  PROVE  IsList(prefix(e)) /\ Len(prefix(e)) = 2
  <1>1. PICK a, b : prefix(e) = <<a, b>>
    BY PrefixIs
  <1>2. <<a, b>> \in Seq({a, b}) /\ Len(<<a, b>>) = 2
    OBVIOUS
  <1>3. QED
    BY <1>1, <1>2, Listed

LEMMA KeyIs ==
  ASSUME NEW e, IsList(e.ty), e.ty # <<>>, NEW args, Keyed(args), entry_key(e, args)[1] = "ok"
  PROVE  /\ Len(e.ty) = Len(args) + 1
         /\ \E rest : Rest(e, args, rest)
  <1>1. Len(Tail(e.ty)) = Len(args)
    BY DEF entry_key, Failure
  <1>3. Len(args) \in 0..2
    BY KeyedIs
  <1>2. /\ Len(e.ty) = Len(args) + 1
        /\ Len(args) >= 1 => Tail(e.ty)[1] = e.ty[2]
        /\ Len(args) = 2 => Tail(e.ty)[2] = e.ty[3]
    <2>1. PICK t : t = e.ty
      OBVIOUS
    <2>2. PICK S : t \in Seq(S)
      BY <2>1, ListIs
    <2>3. PICK k : k = Len(args)
      OBVIOUS
    <2>4. t # <<>> /\ k \in 0..2 /\ Len(Tail(t)) = k
      BY <1>1, <1>3, <2>1, <2>3
    <2>5. /\ Len(t) = k + 1
          /\ k >= 1 => Tail(t)[1] = t[2]
          /\ k = 2 => Tail(t)[2] = t[3]
      BY <2>2, <2>4, TailIs
    <2>6. QED
      BY <2>1, <2>3, <2>5
  <1>4. IsList(prefix(e))
    BY PrefixList
  <1>5. CASE Len(args) = 0
    <2>1. entry_key(e, args) = <<"ok", prefix(e)>>
      BY <1>1, <1>5, NoKeys DEF Found
    <2>2. <<>> \in Seq({}) /\ prefix(e) \o <<>> = prefix(e)
      BY <1>4, ListIs
    <2>3. IsList(<<>>)
      BY <2>2, Listed
    <2>4. Rest(e, args, <<>>)
      BY <1>5, <2>1, <2>2, <2>3 DEF Rest
    <2>5. QED
      BY <1>2, <2>4
  <1>6. CASE Len(args) = 1
    <2>1. PICK a : a = hash_key(Tail(e.ty)[1], args[1])
      OBVIOUS
    <2>2. entry_key(e, args) = <<"ok", prefix(e) \o a>>
      BY <1>1, <1>6, <2>1, OneKey DEF Found
    <2>3. IsList(args[1])
      <3>1. 1 \in DOMAIN args
        BY <1>6, KeyedIs
      <3>2. QED
        BY <3>1, KeyedIs
    <2>4. IsList(a) /\ a = hash_key(e.ty[2], args[1])
      BY <1>2, <1>6, <2>1, <2>3, HashedIs
    <2>5. Rest(e, args, a)
      BY <1>6, <2>2, <2>4 DEF Rest
    <2>6. QED
      BY <1>2, <2>5
  <1>7. CASE Len(args) = 2
    <2>1. PICK a, b : a = hash_key(Tail(e.ty)[1], args[1]) /\ b = hash_key(Tail(e.ty)[2], args[2])
      OBVIOUS
    <2>2. entry_key(e, args) = <<"ok", (prefix(e) \o a) \o b>>
      BY <1>1, <1>7, <2>1, TwoKeys DEF Found
    <2>3. IsList(args[1]) /\ IsList(args[2])
      <3>1. 1 \in DOMAIN args /\ 2 \in DOMAIN args
        BY <1>7, KeyedIs
      <3>2. QED
        BY <3>1, KeyedIs
    <2>4. a = hash_key(e.ty[2], args[1]) /\ b = hash_key(e.ty[3], args[2])
      BY <1>2, <1>7, <2>1
    <2>4a. IsList(a) /\ IsList(b)
      BY <2>1, <2>3, HashedIs
    <2>5. (prefix(e) \o a) \o b = prefix(e) \o (a \o b)
      <3> DEFINE S == (ToSet(prefix(e)) \cup ToSet(a)) \cup ToSet(b)
      <3>1. prefix(e) \in Seq(S) /\ a \in Seq(S) /\ b \in Seq(S)
        BY <1>4, <2>4a, Widened
      <3> HIDE DEF S
      <3>2. \A s, t, u \in Seq(S) : (s \o t) \o u = s \o (t \o u)
        BY ConcatAssociative
      <3>3. QED
        BY <3>1, <3>2
    <2>7. IsList(a \o b)
      BY <2>4a, OnePast
    <2>8. entry_key(e, args)[2] = prefix(e) \o (a \o b)
      BY <2>2, <2>5
    <2>9. Rest(e, args, a \o b)
      BY <1>7, <2>4, <2>7, <2>8 DEF Rest
    <2>10. QED
      BY <1>2, <2>9
  <1>8. QED
    BY <1>3, <1>5, <1>6, <1>7

\* two lists of keys of one entry that give one key are one
LEMMA KeysDiffer ==
  ASSUME NEW e, IsList(e.ty), e.ty # <<>>, Len(e.ty) = 3 => e.ty[2] # "Identity" \/ PrefixFree,
         NEW args, Keyed(args), entry_key(e, args)[1] = "ok",
         NEW others, Keyed(others), entry_key(e, others)[1] = "ok",
         entry_key(e, args)[2] = entry_key(e, others)[2]
  PROVE  args = others
  <1>1. /\ Len(e.ty) = Len(args) + 1 /\ Len(args) \in 0..2
        /\ Len(e.ty) = Len(others) + 1 /\ Len(others) \in 0..2
    BY KeyIs, KeyedIs
  <1>2. Len(args) = Len(others)
    BY <1>1
  <1>3. PICK r : Rest(e, args, r)
    BY KeyIs
  <1>4. PICK s : Rest(e, others, s)
    BY KeyIs
  <1>5. r = s
    <2>1. IsList(r) /\ IsList(s) /\ IsList(prefix(e)) /\ prefix(e) \o r = prefix(e) \o s
      BY <1>3, <1>4, PrefixList DEF Rest
    <2>2. QED
      BY <2>1, Cancel
  <1>6. ASSUME NEW i \in 1..Len(args) PROVE args[i] = others[i]
    <2>1. \A j \in 1..Len(args) : /\ args[j] \in KeyArgs /\ IsList(args[j])
                                  /\ others[j] \in KeyArgs /\ IsList(others[j])
      BY <1>2, KeyedIs
    <2>2. CASE Len(args) = 1
      <3>1. i = 1 /\ IsList(args[1]) /\ IsList(others[1])
        BY <2>1, <2>2
      <3>2. hash_key(e.ty[2], args[1]) = hash_key(e.ty[2], others[1])
        BY <1>2, <1>3, <1>4, <1>5, <2>2 DEF Rest
      <3>3. args[1] = others[1]
        BY <3>1, <3>2, HashTells
      <3>4. QED
        BY <3>1, <3>3
    <2>3. CASE Len(args) = 2
      <3>0. 1 \in 1..Len(args) /\ 2 \in 1..Len(args) /\ i \in {1, 2} /\ Len(e.ty) = 3
        BY <1>1, <2>3
      <3>1. PICK x : x = hash_key(e.ty[3], args[2])
        OBVIOUS
      <3>2. PICK y : y = hash_key(e.ty[3], others[2])
        OBVIOUS
      <3>3. hash_key(e.ty[2], args[1]) \o x = hash_key(e.ty[2], others[1]) \o y
        BY <1>2, <1>3, <1>4, <1>5, <2>3, <3>1, <3>2 DEF Rest
      <3>4. /\ args[1] \in KeyArgs /\ IsList(args[1]) /\ others[1] \in KeyArgs /\ IsList(others[1])
            /\ IsList(args[2]) /\ IsList(others[2])
        BY <2>1, <3>0
      <3>5. IsList(x) /\ IsList(y)
        BY <3>1, <3>2, <3>4, HashedIs
      <3>5a. e.ty[2] # "Identity" \/ PrefixFree
        BY <3>0
      <3>5b. PICK h, k, l : h = e.ty[2] /\ k = args[1] /\ l = others[1]
        OBVIOUS
      <3>5c. OneKeyFrom(h, k, x, l, y)
        BY <3>3, <3>4, <3>5, <3>5a, <3>5b DEF Apart, OneKeyFrom
      <3>5d. k = l /\ x = y
        BY <3>5c, FirstTells
      <3>6. args[1] = others[1] /\ x = y
        BY <3>5b, <3>5d
      <3>7. args[2] = others[2]
        BY <3>1, <3>2, <3>4, <3>6, HashTells
      <3>8. QED
        BY <3>0, <3>6, <3>7
    <2>4. QED
      BY <1>1, <2>2, <2>3
  <1>7. IsList(args) /\ IsList(others)
    BY KeyedIs, Listed
  <1>8. QED
    BY <1>2, <1>6, <1>7, SameList

\* a key begins with its two hashes
LEMMA KeyBegins ==
  ASSUME NEW e, NEW rest, IsList(rest)
  PROVE  /\ IsList(prefix(e) \o rest) /\ Len(prefix(e) \o rest) >= 2
         /\ (prefix(e) \o rest)[1] = <<"Twox128", <<e.module>>>>
         /\ (prefix(e) \o rest)[2] = <<"Twox128", <<e.name>>>>
  <1>1. PICK q : q = prefix(e)
    OBVIOUS
  <1>2. IsList(q) /\ Len(q) = 2
    BY <1>1, PrefixList
  <1>3. q[1] = <<"Twox128", <<e.module>>>> /\ q[2] = <<"Twox128", <<e.name>>>>
    BY <1>1, PrefixIs
  <1>a. IsList(q)
    BY <1>2
  <1>4. /\ IsList(q \o rest) /\ Len(q \o rest) = Len(q) + Len(rest)
        /\ \A i \in 1..Len(q) : (q \o rest)[i] = q[i]
    BY <1>a, OnePast
  <1>5. Len(rest) \in Nat /\ 1 \in 1..2 /\ 2 \in 1..2
    BY ListIs
  <1>6. (q \o rest)[1] = q[1] /\ (q \o rest)[2] = q[2] /\ Len(q \o rest) >= 2
    BY <1>2, <1>4, <1>5
  <1>7. QED
    BY <1>1, <1>3, <1>4, <1>6

\* what lies under the prefix of an entry begins as its keys do
LEMMA UnderPrefix ==
  ASSUME NEW e, NEW s, IsList(s), IsPrefix(prefix(e), s)
  PROVE  s[1] = <<"Twox128", <<e.module>>>> /\ s[2] = <<"Twox128", <<e.name>>>>
  <1>1. PICK q : q = prefix(e)
    OBVIOUS
  <1>2. IsList(q) /\ Len(q) = 2
    BY <1>1, PrefixList
  <1>3. q[1] = <<"Twox128", <<e.module>>>> /\ q[2] = <<"Twox128", <<e.name>>>>
    BY <1>1, PrefixIs
  <1>4. 2 <= Len(s) /\ SubSeq(q, 1, 2) = SubSeq(s, 1, 2)
    BY <1>1, <1>2 DEF IsPrefix
  <1>5. PICK S : s \in Seq(S) /\ q \in Seq(S)
    <2>1. s \in Seq(ToSet(s) \cup ToSet(q)) /\ q \in Seq(ToSet(s) \cup ToSet(q))
      BY <1>2, Widened
    <2>2. QED
      BY <2>1
  <1>6. SubSeq(s, 1, 2)[1] = s[1] /\ SubSeq(s, 1, 2)[2] = s[2]
    BY <1>4, <1>5
  <1>7. SubSeq(q, 1, 2)[1] = q[1] /\ SubSeq(q, 1, 2)[2] = q[2]
    BY <1>2, <1>5
  <1>8. QED
    BY <1>3, <1>4, <1>6, <1>7

\* entries whose keys begin alike are one
LEMMA EntryTold ==
  ASSUME NEW r, NEW md, NEW p, NEW f, Gives(r, md, p, f), NEW q, NEW g, Gives(r, md, q, g),
         entry_of(md, p, f)[2].module = entry_of(md, q, g)[2].module,
         entry_of(md, p, f)[2].name = entry_of(md, q, g)[2].name
  PROVE  p = q /\ f = g
  <1>1. PICK m : EntryFrom(r, m, p, f, entry_of(md, p, f)[2])
    BY EntryIs
  <1>2. PICK n : EntryFrom(r, n, q, g, entry_of(md, q, g)[2])
    BY EntryIs
  <1>3. m.prefix = n.prefix /\ f = g
    BY <1>1, <1>2 DEF EntryFrom
  <1>4. m = n
    BY <1>1, <1>2, <1>3, RequestsAssumption DEF Gives, EntryFrom
  <1>5. QED
    BY <1>1, <1>2, <1>3, <1>4 DEF EntryFrom

\* the bytes of a call: the index of its module, and its place among the calls
LEMMA CallIs ==
  ASSUME NEW r \in Raws, NEW md, try_from(r) = <<"ok", md>>, NEW p, NEW fn, call_bytes(md, p, fn)[1] = "ok"
  PROVE  \E m \in ToSet(r.modules) : \E i \in DOMAIN The(m.calls) :
            /\ m.name = p /\ m.calls # {} /\ The(m.calls)[i] = fn
            /\ call_bytes(md, p, fn)[2] = <<m.index, AsByte(i)>>
  <1> DEFINE ms == r.modules
             had == {i \in DOMAIN ms : ms[i].calls # {}}
             pairs == [i \in had |-> <<ms[i].name, [index |-> ms[i].index, calls |-> call_map(The(ms[i].calls))]>>]
  <1>1. md.calls = modules_with_calls(ms) /\ IsList(ms) /\ \A m \in ToSet(ms) : \A c \in m.calls : IsList(c)
    BY MetadataIs, RequestsAssumption
  <1>2. /\ p \in DOMAIN md.calls /\ fn \in DOMAIN md.calls[p].calls
        /\ call_bytes(md, p, fn) = <<"ok", <<md.calls[p].index, md.calls[p].calls[fn]>>>>
    BY DEF call_bytes, call_of, Then, module_with_calls, Get, Found, Failure
  <1>3. modules_with_calls(ms) = Table(pairs)
    <2>1. modules_with_calls(ms) =
             Table([i \in DOMAIN [j \in had |-> ms[j]] |->
                      <<[j \in had |-> ms[j]][i].name,
                        [index |-> [j \in had |-> ms[j]][i].index,
                         calls |-> call_map(The([j \in had |-> ms[j]][i].calls))]>>])
      BY DEF modules_with_calls, NamedTable, Having
    <2>2. [i \in DOMAIN [j \in had |-> ms[j]] |->
                      <<[j \in had |-> ms[j]][i].name,
                        [index |-> [j \in had |-> ms[j]][i].index,
                         calls |-> call_map(The([j \in had |-> ms[j]][i].calls))]>>] = pairs
      OBVIOUS
    <2>3. QED
      BY <2>1, <2>2
  <1>4. Len(ms) \in Nat /\ DOMAIN pairs \subseteq 1..Len(ms)
    BY <1>1, ListIs
  <1>4a. Table(pairs) = md.calls /\ p \in DOMAIN Table(pairs)
    BY <1>1, <1>2, <1>3
  <1> HIDE DEF pairs
  <1>5. PICK i \in DOMAIN pairs : pairs[i][1] = p /\ Table(pairs)[p] = pairs[i][2]
    BY <1>4, <1>4a, TableIs
  <1>6. /\ i \in DOMAIN ms /\ ms[i].calls # {}
        /\ pairs[i] = <<ms[i].name, [index |-> ms[i].index, calls |-> call_map(The(ms[i].calls))]>>
    BY DEF pairs
  <1>7. PICK m : m = ms[i]
    OBVIOUS
  <1>8. /\ m \in ToSet(ms) /\ m.name = p /\ m.calls # {}
        /\ md.calls[p] = [index |-> m.index, calls |-> call_map(The(m.calls))]
    BY <1>1, <1>4a, <1>5, <1>6, <1>7, ListIs
  <1>9. PICK c : c = The(m.calls)
    OBVIOUS
  <1>10. IsList(c)
    BY <1>1, <1>8, <1>9 DEF The
  <1> DEFINE places == [j \in DOMAIN c |-> <<c[j], AsByte(j)>>]
  <1>11. call_map(c) = Table(places)
    BY DEF call_map
  <1>12. Len(c) \in Nat /\ DOMAIN places \subseteq 1..Len(c) /\ fn \in DOMAIN Table(places)
    BY <1>2, <1>8, <1>9, <1>10, <1>11, ListIs
  <1> HIDE DEF places
  <1>13. PICK j \in DOMAIN places : places[j][1] = fn /\ Table(places)[fn] = places[j][2]
    BY <1>12, TableIs
  <1>14. j \in DOMAIN c /\ c[j] = fn /\ Table(places)[fn] = AsByte(j)
    BY <1>13 DEF places
  <1>15. call_bytes(md, p, fn)[2] = <<m.index, AsByte(j)>>
    BY <1>2, <1>8, <1>9, <1>11, <1>14
  <1>16. QED
    BY <1>8, <1>9, <1>14, <1>15

\* the index of a module is its own
LEMMA ModuleTold ==
  ASSUME NEW r \in Raws, NEW m \in ToSet(r.modules)
  PROVE  The({n \in ToSet(r.modules) : n.index = m.index}) = m
  <1>1. {n \in ToSet(r.modules) : n.index = m.index} = {m}
    BY RequestsAssumption
  <1>2. QED
    BY <1>1 DEF The

LEMMA PlaceIs ==
  ASSUME NEW n \in Nat, n <= ByteSpan, NEW i \in 1..n
  PROVE  AsByte(i) + 1 = i
  <1>1. i - 1 \in 0..(ByteSpan - 1)
    BY ByteSpanAssumption
  <1>2. (i - 1) % ByteSpan = i - 1
    BY <1>1, ByteSpanAssumption
  <1>3. QED
    BY <1>2 DEF AsByte


\* a key that was asked for, as the metadata gives it
AskedKey(a, md, p, f, args) ==
    /\ metadata = <<"ok", md>> /\ Gives(raw, md, p, f) /\ Keyed(args)
    /\ a[1] = <<"key", p, f, args>> /\ a[2] = store_key(md, p, f, args) /\ a[2][1] = "ok"

LEMMA KeyAsked ==
  ASSUME NEW a, KeyOfMetadata(a), raw \in Raws, metadata = try_from(raw), metadata[1] = "ok", a[2][1] = "ok"
  PROVE  \E md, p, f, args : AskedKey(a, md, p, f, args)
  <1>1. PICK p, f, args : a[1] = <<"key", p, f, args>> /\ Keyed(args) /\ a = <<a[1], store_key(metadata[2], p, f, args)>>
    BY DEF KeyOfMetadata
  <1>2. PICK md : metadata = <<"ok", md>>
    BY DEF try_from, Then, Found, Failure
  <1>3. a[2] = store_key(md, p, f, args) /\ store_key(md, p, f, args)[1] = "ok"
    BY <1>1, <1>2
  <1>4. Gives(raw, md, p, f)
    BY <1>2, <1>3, KeyHasEntry DEF Gives
  <1>5. AskedKey(a, md, p, f, args)
    BY <1>1, <1>2, <1>3, <1>4 DEF AskedKey
  <1>6. QED
    BY <1>5

KeyOfEntry(a, e, args) ==
    /\ IsList(e.ty) /\ e.ty # <<>> /\ (Len(e.ty) = 3 => Apart(e.ty[2])) /\ a[2] = entry_key(e, args)
    /\ \E rest : IsList(rest) /\ a[2][2] = prefix(e) \o rest

LEMMA KeyShape ==
  ASSUME NEW a, NEW md, NEW p, NEW f, NEW args, AskedKey(a, md, p, f, args)
  PROVE  /\ KeyOfEntry(a, entry_of(md, p, f)[2], args)
         /\ store_prefix(md, p, f)[2] = prefix(entry_of(md, p, f)[2])
  <1>1. PICK e : e = entry_of(md, p, f)[2]
    OBVIOUS
  <1>2. Gives(raw, md, p, f) /\ Keyed(args) /\ a[2] = store_key(md, p, f, args) /\ a[2][1] = "ok"
    BY DEF AskedKey
  <1>3. entry_of(md, p, f) = <<"ok", entry_of(md, p, f)[2]>> /\ \E m : EntryFrom(raw, m, p, f, entry_of(md, p, f)[2])
    BY <1>2, EntryIs
  <1>4. a[2] = entry_key(e, args) /\ store_prefix(md, p, f)[2] = prefix(e)
    BY <1>1, <1>2, <1>3, PrefixFound
  <1>5. PICK m : EntryFrom(raw, m, p, f, e)
    BY <1>1, <1>3
  <1>6. PICK d \in ToSet(m.storage) : m \in ToSet(raw.modules) /\ e.ty = d.ty
    BY <1>5 DEF EntryFrom
  <1>7. raw \in Raws
    BY <1>2 DEF Gives
  <1>8. IsList(e.ty) /\ e.ty # <<>> /\ (Len(e.ty) = 3 => Apart(e.ty[2]))
    BY <1>6, <1>7, RequestsAssumption DEF Apart
  <1>9. PICK rest : Rest(e, args, rest)
    BY <1>2, <1>4, <1>8, KeyIs
  <1>10. IsList(rest) /\ a[2][2] = prefix(e) \o rest
    BY <1>4, <1>9 DEF Rest
  <1>11. KeyOfEntry(a, e, args)
    BY <1>4, <1>8, <1>10 DEF KeyOfEntry
  <1>12. QED
    BY <1>1, <1>4, <1>11

\* keys of different stores begin differently
LEMMA StoresApart ==
  ASSUME NEW a, NEW md, NEW p, NEW f, NEW args, AskedKey(a, md, p, f, args),
         NEW b, NEW q, NEW g, NEW others, AskedKey(b, md, q, g, others), <<p, f>> # <<q, g>>
  PROVE  a[2] # b[2] /\ ~IsPrefix(store_prefix(md, q, g)[2], a[2][2])
  <1>1. PICK e, d : e = entry_of(md, p, f)[2] /\ d = entry_of(md, q, g)[2]
    OBVIOUS
  <1>2. KeyOfEntry(a, e, args) /\ KeyOfEntry(b, d, others) /\ store_prefix(md, q, g)[2] = prefix(d)
    BY <1>1, KeyShape
  <1>3. PICK x : IsList(x) /\ a[2][2] = prefix(e) \o x
    BY <1>2 DEF KeyOfEntry
  <1>4. PICK y : IsList(y) /\ b[2][2] = prefix(d) \o y
    BY <1>2 DEF KeyOfEntry
  <1>5. /\ IsList(prefix(e) \o x)
        /\ a[2][2][1] = <<"Twox128", <<e.module>>>> /\ a[2][2][2] = <<"Twox128", <<e.name>>>>
    BY <1>3, KeyBegins
  <1>6. b[2][2][1] = <<"Twox128", <<d.module>>>> /\ b[2][2][2] = <<"Twox128", <<d.name>>>>
    BY <1>4, KeyBegins
  <1>7. ~(e.module = d.module /\ e.name = d.name)
    <2>1. Gives(raw, md, p, f) /\ Gives(raw, md, q, g)
      BY DEF AskedKey
    <2>2. QED
      BY <1>1, <2>1, EntryTold
  <1>8. \A v, w : <<"Twox128", <<v>>>> = <<"Twox128", <<w>>>> => v = w
    OBVIOUS
  <1>9. a[2] # b[2]
    BY <1>5, <1>6, <1>7, <1>8
  <1>10. ASSUME IsPrefix(prefix(d), a[2][2]) PROVE FALSE
    <2>1. IsPrefix(prefix(d), prefix(e) \o x)
      BY <1>3, <1>10
    <2>2. /\ (prefix(e) \o x)[1] = <<"Twox128", <<d.module>>>>
          /\ (prefix(e) \o x)[2] = <<"Twox128", <<d.name>>>>
      BY <1>5, <2>1, UnderPrefix
    <2>3. QED
      BY <1>3, <1>5, <1>7, <1>8, <2>2
  <1>11. QED
    BY <1>2, <1>9, <1>10

\* and so do the keys of one store
LEMMA KeysApart ==
  ASSUME NEW a, NEW md, NEW p, NEW f, NEW args, AskedKey(a, md, p, f, args),
         NEW b, NEW others, AskedKey(b, md, p, f, others), a[2] = b[2]
  PROVE  args = others
  <1>1. PICK e : e = entry_of(md, p, f)[2]
    OBVIOUS
  <1>2. KeyOfEntry(a, e, args) /\ KeyOfEntry(b, e, others)
    BY <1>1, KeyShape
  <1>3. /\ IsList(e.ty) /\ e.ty # <<>> /\ (Len(e.ty) = 3 => e.ty[2] # "Identity" \/ PrefixFree)
        /\ Keyed(args) /\ entry_key(e, args)[1] = "ok" /\ Keyed(others) /\ entry_key(e, others)[1] = "ok"
        /\ entry_key(e, args)[2] = entry_key(e, others)[2]
    BY <1>2 DEF KeyOfEntry, AskedKey, Apart
  <1>4. QED
    BY <1>3, KeysDiffer

\* what is answered is right
LEMMA Right ==
  ASSUME RIInv
  PROVE  RequestsAreRight
  <1>1. ASSUME NEW a \in asked, a[1][1] = "key", a[2][1] = "ok" PROVE \E md, p, f, args : AskedKey(a, md, p, f, args)
    <2>1. metadata[1] = "ok" /\ raw \in Raws /\ metadata = try_from(raw) /\ KeyOfMetadata(a)
      BY <1>1 DEF RIInv, NotConnected, CallOfMetadata
    <2>2. QED
      BY <1>1, <2>1, KeyAsked
  <1>2. KeysAreDistinct
    <2> SUFFICES ASSUME NEW a \in asked, a[1][1] = "key", a[2][1] = "ok",
                        NEW b \in asked, b[1][1] = "key", b[2][1] = "ok", a[1] # b[1]
                 PROVE  /\ a[2] # b[2]
                        /\ <<a[1][2], a[1][3]>> # <<b[1][2], b[1][3]>> =>
                               ~IsPrefix(store_prefix(metadata[2], b[1][2], b[1][3])[2], a[2][2])
      BY DEF KeysAreDistinct
    <2>1. PICK md, p, f, args : AskedKey(a, md, p, f, args)
      BY <1>1
    <2>2. PICK nd, q, g, others : AskedKey(b, nd, q, g, others)
      BY <1>1
    <2>3. /\ md = nd /\ metadata[2] = md /\ a[1] = <<"key", p, f, args>> /\ b[1] = <<"key", q, g, others>>
          /\ a[1][2] = p /\ a[1][3] = f /\ b[1][2] = q /\ b[1][3] = g
      BY <2>1, <2>2 DEF AskedKey
    <2>4. AskedKey(b, md, q, g, others)
      BY <2>2, <2>3
    <2>5. CASE <<p, f>> = <<q, g>>
      <3>1. args # others /\ AskedKey(b, md, p, f, others)
        BY <2>3, <2>4, <2>5
      <3>2. a[2] # b[2]
        BY <2>1, <3>1, KeysApart
      <3>3. QED
        BY <2>3, <2>5, <3>2
    <2>6. CASE <<p, f>> # <<q, g>>
      <3>1. a[2] # b[2] /\ ~IsPrefix(store_prefix(md, q, g)[2], a[2][2])
        BY <2>1, <2>4, <2>6, StoresApart
      <3>2. QED
        BY <2>3, <3>1
    <2>7. QED
      BY <2>5, <2>6
  <1>3. CallIsTheNamedOne
    <2> SUFFICES ASSUME NEW a \in asked, a[1][1] = "call", a[2][1] = "ok"
                 PROVE  LET m == The({m \in ToSet(raw.modules) : m.index = a[2][2][1]})
                            calls == The(m.calls)
                        IN m.name = a[1][2] /\ (Len(calls) <= ByteSpan => calls[a[2][2][2] + 1] = a[1][3])
      BY DEF CallIsTheNamedOne
    <2>1. metadata[1] = "ok" /\ raw \in Raws /\ metadata = try_from(raw) /\ CallOfMetadata(a)
      BY DEF RIInv, NotConnected, KeyOfMetadata
    <2>2. PICK md : metadata = <<"ok", md>> /\ try_from(raw) = <<"ok", md>>
      BY <2>1 DEF try_from, Then, Found, Failure
    <2>3. PICK p, fn : p = a[1][2] /\ fn = a[1][3]
      OBVIOUS
    <2>4. a[2] = call_bytes(md, p, fn) /\ call_bytes(md, p, fn)[1] = "ok"
      BY <2>1, <2>2, <2>3 DEF CallOfMetadata
    <2>5. PICK m \in ToSet(raw.modules) : \E i \in DOMAIN The(m.calls) :
             /\ m.name = p /\ m.calls # {} /\ The(m.calls)[i] = fn
             /\ call_bytes(md, p, fn)[2] = <<m.index, AsByte(i)>>
      BY <2>1, <2>2, <2>4, CallIs
    <2>6. PICK i \in DOMAIN The(m.calls) :
             /\ m.name = p /\ m.calls # {} /\ The(m.calls)[i] = fn
             /\ a[2][2][1] = m.index /\ a[2][2][2] = AsByte(i)
      BY <2>4, <2>5
    <2>7. The({n \in ToSet(raw.modules) : n.index = a[2][2][1]}) = m
      BY <2>1, <2>6, ModuleTold
    <2>8. IsList(The(m.calls))
      BY <2>1, <2>6, RequestsAssumption DEF The
    <2>9. ASSUME Len(The(m.calls)) <= ByteSpan PROVE The(m.calls)[a[2][2][2] + 1] = fn
      <3>1. Len(The(m.calls)) \in Nat /\ i \in 1..Len(The(m.calls))
        BY <2>8, ListIs
      <3>2. AsByte(i) + 1 = i
        BY <2>9, <3>1, PlaceIs
      <3>3. QED
        BY <2>6, <3>2
    <2>10. QED
      BY <2>3, <2>6, <2>7, <2>9
  <1>4. QED
    BY <1>2, <1>3 DEF RequestsAreRight

(* What the client made of its node's metadata never changes, and every     *)
(* answer is given of it (rpc.rs metadata, metadata.rs, store.rs, call.rs). *)
THEOREM RequestsInvariant == RSpec => []RIInv
  <1>1. RInit => RIInv
    BY DEF RInit, RIInv
  <1>2. RIInv /\ [RNext]_rvars => RIInv'
    <2> SUFFICES ASSUME RIInv, [RNext]_rvars PROVE RIInv'
      OBVIOUS
    <2>1. CASE connect
      BY <2>1 DEF connect, RIInv, NotConnected
    <2>2. ASSUME NEW s \in Stores, NEW args \in [1..s[3] -> KeyArgs], ask_key(s[1], s[2], args) PROVE RIInv'
      <3>1. PICK p, f, told : p = s[1] /\ f = s[2] /\ told = store_key(metadata[2], p, f, args)
        OBVIOUS
      <3>2. /\ asked' = asked \cup {<<<<"key", p, f, args>>, told>>}
            /\ metadata[1] = "ok" /\ metadata' = metadata /\ raw' = raw
        BY <2>2, <3>1 DEF ask_key, Ask
      <3>3. Keyed(args)
        <4>1. s[3] \in 0..2
          BY RequestsAssumption DEF Stores, Pallets, System, Balances, Staking, Session, Sudo, ContractsPallet
        <4>2. QED
          BY <4>1 DEF Keyed
      <3>4. KeyOfMetadata(<<<<"key", p, f, args>>, told>>)'
        BY <3>1, <3>2, <3>3 DEF KeyOfMetadata, Keyed
      <3>5. QED
        BY <3>2, <3>4 DEF RIInv, KeyOfMetadata, CallOfMetadata
    <2>3. ASSUME NEW p \in DOMAIN Pallets, NEW fn \in Pallets[p].calls, ask_call(p, fn) PROVE RIInv'
      <3>1. PICK told : told = call_bytes(metadata[2], p, fn)
        OBVIOUS
      <3>2. /\ asked' = asked \cup {<<<<"call", p, fn>>, told>>}
            /\ metadata[1] = "ok" /\ metadata' = metadata /\ raw' = raw
        BY <2>3, <3>1 DEF ask_call, Ask
      <3>4. CallOfMetadata(<<<<"call", p, fn>>, told>>)'
        BY <3>1, <3>2 DEF CallOfMetadata
      <3>5. QED
        BY <3>2, <3>4 DEF RIInv, KeyOfMetadata, CallOfMetadata
    <2>4. CASE UNCHANGED rvars
      BY <2>4 DEF rvars, RIInv, KeyOfMetadata, CallOfMetadata
    <2>5. QED
      BY <2>1, <2>2, <2>3, <2>4 DEF RNext
  <1>3. QED
    BY <1>1, <1>2, PTL DEF RSpec

(* The storage keys a client is answered never collide, and its calls are   *)
(* the named ones, for every metadata of unique indexes and prefixes.       *)
THEOREM RequestsStayRight == RSpec => []RequestsAreRight
  BY RequestsInvariant, Right, PTL
=============================================================================
