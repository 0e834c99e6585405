---------------------------- MODULE WalletsProofs ----------------------------
(***************************************************************************)
(* Proofs about Wallets for every set of requests and users: the inductive *)
(* invariant, what a row holds, and which requests replace a wallet.       *)
(***************************************************************************)
EXTENDS Wallets, TLAPS

(* The kinds of requests are apart, and each has a row.                    *)
LEMMA Kinds ==
  /\ Requests = Apps \cup Apis \cup Waves
  /\ \A r \in Apps : r \in Requests /\ r \notin Apis /\ r \notin Waves /\ Owner[r] \in Users /\ Owner[r] \in Rows
  /\ \A r \in Apis : r \in Requests /\ r \notin Apps /\ r \notin Waves /\ r \in Rows /\ r \notin Users
  /\ \A r \in Waves : r \in Requests /\ r \notin Apps /\ r \notin Apis /\ Owner[r] \in Users /\ Owner[r] \in Rows
  /\ \A r \in Requests : r # NoKey /\ Key(r) \in Keys /\ Key(r) # NoKey
  /\ NoKey \notin Rows
  BY WalletsAssumption DEF Requests, Rows, Keys, Key

(* Whatever the wallet service answers is a key pair or nothing.           *)
LEMMA Answered ==
  ASSUME NEW r \in Requests
  PROVE  Answers(Key(r)) \subseteq {Key(r), NoKey} /\ Answers(<<r, 2>>) \subseteq MaybeKey
  BY DEF Answers, Keys, MaybeKey

LEMMA InitIInv == Init => IInv
  <1> SUFFICES ASSUME Init PROVE IInv
    OBVIOUS
  <1> USE Kinds DEF Init
  <1>1. TypeOK
    BY DEF TypeOK, MaybeKey, Nothing, Busy, Ended, Pending
  <1>2. StepsAgree /\ WritersAgree
    BY DEF StepsAgree, WritersAgree
  <1>3. AloneAgrees
    BY DEF AloneAgrees, Reads, Busy, Pending
  <1>4. StoredIsTold
    BY DEF StoredIsTold
  <1>5. QED
    BY <1>1, <1>2, <1>3, <1>4 DEF IInv

LEMMA BeginAppIInv ==
  ASSUME IInv, NEW r \in Apps, BeginApp(r)
  PROVE  IInv'
  <1>0. /\ pc[r] = "idle"
        /\ \E next \in {"denied", "had", "unverified", "fetch"} : pc' = [pc EXCEPT ![r] = next]
    BY DEF BeginApp, Goto, atoms, db
  <1>a. UNCHANGED <<xwallet, wxwallet, userId, wallet, seed, writer, future, local, told, disturbed>>
    BY DEF BeginApp, Goto, atoms, db
  <1>b. /\ pc[r] = "idle" /\ pc'[r] \in {"denied", "had", "unverified", "fetch"}
        /\ \A q \in Requests \ {r} : pc'[q] = pc[q]
    BY <1>0, Kinds DEF IInv, TypeOK
  <1>r. \A q \in Requests \ {r} : Reads(q)' <=> Reads(q)
    BY <1>a, <1>b, Kinds DEF Reads
  <1>1. TypeOK'
    BY <1>0, <1>a, <1>b, <1>r, Kinds DEF IInv, TypeOK, Busy, Ended, Pending, MaybeKey
  <1>2. StepsAgree'
    BY <1>0, <1>a, <1>b, <1>r, Kinds DEF IInv, StepsAgree
  <1>3. WritersAgree'
    BY <1>0, <1>a, <1>b, <1>r, Kinds DEF IInv, WritersAgree
  <1>4. AloneAgrees'
    BY <1>0, <1>a, <1>b, <1>r, Kinds DEF IInv, AloneAgrees, Reads, Busy, Pending
  <1>5. StoredIsTold'
    BY <1>0, <1>a, <1>b, <1>r, Kinds DEF IInv, StoredIsTold
  <1>6. QED
    BY <1>1, <1>2, <1>3, <1>4, <1>5 DEF IInv

LEMMA TellAppAddressIInv ==
  ASSUME IInv, NEW r \in Apps, TellApp(r), pc[r] = "tell"
  PROVE  IInv'
  <1>0. /\ pc[r] = "tell"
        /\ \E next \in {"tellseed"} : pc' = [pc EXCEPT ![r] = next]
        /\ told' = [told EXCEPT ![r].id = Owner[r], ![r].wallet = xwallet]
    BY DEF TellApp, Goto, atoms, db
  <1>a. UNCHANGED <<xwallet, wxwallet, userId, wallet, seed, writer, future, local, disturbed>>
    BY DEF TellApp, Goto, atoms, db
  <1>b. /\ pc[r] = "tell" /\ pc'[r] \in {"tellseed"}
        /\ \A q \in Requests \ {r} : pc'[q] = pc[q]
        /\ told'[r].id = Owner[r] /\ told'[r].wallet = xwallet
        /\ \A q \in Requests \ {r} : told'[q] = told[q]
    BY <1>0, Kinds DEF IInv, TypeOK
  <1>r. \A q \in Requests \ {r} : Reads(q)' <=> Reads(q)
    BY <1>a, <1>b, Kinds DEF Reads
  <1>1. TypeOK'
    <2>1. pc' \in [Requests -> {"idle"} \cup Busy \cup Ended]
      BY <1>0, Kinds DEF IInv, TypeOK, Busy, Ended
    <2> DEFINE R == [id : Rows \cup {NoKey}, wallet : MaybeKey, seed : MaybeKey]
    <2>0. told \in [Requests -> R] /\ r \in Requests
      BY Kinds DEF IInv, TypeOK
    <2>2. told' \in [Requests -> R]
      <3>1. told[r] \in R /\ Owner[r] \in Rows /\ xwallet \in MaybeKey
        BY <2>0, Kinds, WalletsAssumption DEF IInv, TypeOK, StepsAgree, Rows
      <3>2. [told[r] EXCEPT !.id = Owner[r], !.wallet = xwallet] \in R
        BY <3>1
      <3>3. QED
        BY <1>0, <2>0, <3>2
    <2>8. \A q \in Apps : pc'[q] = "crashed" => future'[q] \notin Pending
      BY <1>a, <1>b, Kinds DEF IInv, TypeOK
    <2>9. QED
      BY <1>a, <2>1, <2>2, <2>8 DEF IInv, TypeOK
  <1>2. StepsAgree'
    BY <1>0, <1>a, <1>b, <1>r, Kinds DEF IInv, StepsAgree
  <1>3. WritersAgree'
    BY <1>0, <1>a, <1>b, <1>r, Kinds DEF IInv, WritersAgree
  <1>4. AloneAgrees'
    <2> SUFFICES ASSUME NEW q \in (Apps \cup Apis) \ disturbed, Reads(q)'
                 PROVE  /\ \A p \in (Apps \cup Apis) \ {q} : ~Reads(p)'
                        /\ xwallet \in {Key(q), NoKey}
                        /\ \A i \in Rows : writer[i] = q => xwallet = Key(q)
                        /\ q \in Apps =>
                             /\ future[q] = "seed" => local[q].wallet = xwallet
                             /\ pc'[q] \in {"tellseed", "replied"} => told'[q].id = Owner[q] /\ told'[q].wallet = xwallet
                             /\ pc'[q] = "replied" => told'[q].seed = xwallet
                        /\ q \in Apis =>
                             /\ pc'[q] \in {"readid", "address", "seed", "tellid", "tell"} => userId = q
                             /\ pc'[q] \in {"address", "seed"} => local[q].id = q
                             /\ pc'[q] = "seed" => local[q].wallet = xwallet
                             /\ pc'[q] = "tell" => told'[q].id = q
      BY <1>a DEF AloneAgrees
    <2>1. Reads(r)
      BY <1>b, Kinds DEF Reads, Busy
    <2>2. q = r
      BY <1>r, <2>1, Kinds DEF IInv, AloneAgrees
    <2>3. \A p \in (Apps \cup Apis) \ {q} : ~Reads(p)'
      BY <1>r, <2>1, <2>2, Kinds DEF IInv, AloneAgrees
    <2>4. QED
      BY <1>b, <2>1, <2>2, <2>3, Kinds DEF IInv, AloneAgrees
  <1>5. StoredIsTold'
    <2> SUFFICES ASSUME NEW i \in Rows, NEW q \in (Apps \cup Apis) \ disturbed, writer[i] = q
                 PROVE  /\ wallet[i] = Key(q) /\ seed[i] = Key(q)
                        /\ pc'[q] = "replied" =>
                             /\ told'[q].id = i /\ told'[q].wallet = wallet[i]
                             /\ q \in Apps => told'[q].seed = seed[i]
      BY <1>a DEF StoredIsTold
    <2>1. /\ wallet[i] = Key(q) /\ seed[i] = Key(q)
          /\ pc[q] = "replied" => /\ told[q].id = i /\ told[q].wallet = wallet[i]
                                  /\ q \in Apps => told[q].seed = seed[i]
      BY DEF IInv, StoredIsTold
    <2>2. CASE q # r
      BY <1>a, <1>b, <2>1, <2>2, Kinds
    <2>3. CASE q = r
      BY <1>b, <2>1, <2>3
    <2>4. QED
      BY <2>2, <2>3
  <1>6. QED
    BY <1>1, <1>2, <1>3, <1>4, <1>5 DEF IInv

LEMMA TellAppSeedIInv ==
  ASSUME IInv, NEW r \in Apps, TellApp(r), pc[r] = "tellseed"
  PROVE  IInv'
  <1>0. /\ pc[r] = "tellseed"
        /\ \E next \in {"replied"} : pc' = [pc EXCEPT ![r] = next]
        /\ told' = [told EXCEPT ![r].seed = xwallet]
    BY DEF TellApp, Goto, atoms, db
  <1>a. UNCHANGED <<xwallet, wxwallet, userId, wallet, seed, writer, future, local, disturbed>>
    BY DEF TellApp, Goto, atoms, db
  <1>b. /\ pc[r] = "tellseed" /\ pc'[r] \in {"replied"}
        /\ \A q \in Requests \ {r} : pc'[q] = pc[q]
        /\ told'[r].seed = xwallet /\ told'[r].id = told[r].id /\ told'[r].wallet = told[r].wallet
        /\ \A q \in Requests \ {r} : told'[q] = told[q]
    BY <1>0, Kinds DEF IInv, TypeOK
  <1>r. \A q \in Requests \ {r} : Reads(q)' <=> Reads(q)
    BY <1>a, <1>b, Kinds DEF Reads
  <1>1. TypeOK'
    <2>1. pc' \in [Requests -> {"idle"} \cup Busy \cup Ended]
      BY <1>0, Kinds DEF IInv, TypeOK, Busy, Ended
    <2> DEFINE R == [id : Rows \cup {NoKey}, wallet : MaybeKey, seed : MaybeKey]
    <2>0. told \in [Requests -> R] /\ r \in Requests
      BY Kinds DEF IInv, TypeOK
    <2>2. told' \in [Requests -> R]
      <3>1. told[r] \in R /\ xwallet \in MaybeKey
        BY <2>0, Kinds, WalletsAssumption DEF IInv, TypeOK, StepsAgree, Rows
      <3>2. [told[r] EXCEPT !.seed = xwallet] \in R
        BY <3>1
      <3>3. QED
        BY <1>0, <2>0, <3>2
    <2>8. \A q \in Apps : pc'[q] = "crashed" => future'[q] \notin Pending
      BY <1>a, <1>b, Kinds DEF IInv, TypeOK
    <2>9. QED
      BY <1>a, <2>1, <2>2, <2>8 DEF IInv, TypeOK
  <1>2. StepsAgree'
    BY <1>0, <1>a, <1>b, <1>r, Kinds DEF IInv, StepsAgree
  <1>3. WritersAgree'
    BY <1>0, <1>a, <1>b, <1>r, Kinds DEF IInv, WritersAgree
  <1>4. AloneAgrees'
    BY <1>0, <1>a, <1>b, <1>r, Kinds DEF IInv, AloneAgrees, Reads, Busy, Pending
  <1>5. StoredIsTold'
    <2> SUFFICES ASSUME NEW i \in Rows, NEW q \in (Apps \cup Apis) \ disturbed, writer[i] = q
                 PROVE  /\ wallet[i] = Key(q) /\ seed[i] = Key(q)
                        /\ pc'[q] = "replied" =>
                             /\ told'[q].id = i /\ told'[q].wallet = wallet[i]
                             /\ q \in Apps => told'[q].seed = seed[i]
      BY <1>a DEF StoredIsTold
    <2>1. /\ wallet[i] = Key(q) /\ seed[i] = Key(q)
          /\ pc[q] = "replied" => /\ told[q].id = i /\ told[q].wallet = wallet[i]
                                  /\ q \in Apps => told[q].seed = seed[i]
      BY DEF IInv, StoredIsTold
    <2>2. CASE q # r
      BY <1>a, <1>b, <2>1, <2>2, Kinds
    <2>3. CASE q = r
      <3>1. Reads(r)
        BY <1>b, Kinds DEF Reads, Busy
      <3>2. xwallet = Key(r) /\ i = Owner[r] /\ told[r].id = Owner[r] /\ told[r].wallet = xwallet
        BY <1>b, <2>3, <3>1, Kinds DEF IInv, AloneAgrees, WritersAgree
      <3>3. QED
        BY <1>b, <2>1, <2>3, <3>2, Kinds
    <2>4. QED
      BY <2>2, <2>3
  <1>6. QED
    BY <1>1, <1>2, <1>3, <1>4, <1>5 DEF IInv

LEMMA FutureReadsIInv ==
  ASSUME IInv, NEW r \in Apps, FutureReads(r)
  PROVE  IInv'
  <1>0. /\ future[r] = "asleep" /\ future' = [future EXCEPT ![r] = "seed"]
        /\ local' = [local EXCEPT ![r] = [id |-> Owner[r], wallet |-> xwallet]]
    BY DEF FutureReads, atoms, db
  <1>a. UNCHANGED <<xwallet, wxwallet, userId, wallet, seed, writer, pc, told, disturbed>>
    BY DEF FutureReads, atoms, db
  <1>b. /\ future[r] = "asleep" /\ future'[r] = "seed" /\ \A q \in Apps \ {r} : future'[q] = future[q]
        /\ local'[r].id = Owner[r] /\ local'[r].wallet = xwallet
        /\ \A q \in Requests \ {r} : local'[q] = local[q]
    BY <1>0, Kinds DEF IInv, TypeOK
  <1>r. \A q \in Requests \ {r} : Reads(q)' <=> Reads(q)
    BY <1>a, <1>b, Kinds DEF Reads
  <1>1. TypeOK'
    <2>1. future' \in [Apps -> Pending \cup {"none", "done", "failed", "crashed"}]
      BY <1>0 DEF IInv, TypeOK, Pending
    <2>2. local' \in [Requests -> [id : Rows \cup {NoKey}, wallet : MaybeKey]]
      BY <1>0, <1>b, Kinds DEF IInv, TypeOK
    <2>8. \A q \in Apps : pc'[q] = "crashed" => future'[q] \notin Pending
      BY <1>a, <1>b, Kinds DEF IInv, TypeOK
    <2>9. QED
      BY <1>a, <2>1, <2>2, <2>8 DEF IInv, TypeOK
  <1>2. StepsAgree'
    BY <1>0, <1>a, <1>b, <1>r, Kinds DEF IInv, StepsAgree
  <1>3. WritersAgree'
    BY <1>0, <1>a, <1>b, <1>r, Kinds DEF IInv, WritersAgree
  <1>4. AloneAgrees'
    BY <1>0, <1>a, <1>b, <1>r, Kinds DEF IInv, AloneAgrees, Reads, Busy, Pending
  <1>5. StoredIsTold'
    BY <1>0, <1>a, <1>b, <1>r, Kinds DEF IInv, StoredIsTold
  <1>6. QED
    BY <1>1, <1>2, <1>3, <1>4, <1>5 DEF IInv

LEMMA FutureStoresIInv ==
  ASSUME IInv, NEW r \in Apps, FutureStores(r), Store(r, local[r].id, local[r].wallet, xwallet), future' = [future EXCEPT ![r] = "done"]
  PROVE  IInv'
  <1>0. /\ xwallet # NoKey /\ wallet' = [wallet EXCEPT ![local[r].id] = local[r].wallet]
        /\ seed' = [seed EXCEPT ![local[r].id] = xwallet] /\ writer' = [writer EXCEPT ![local[r].id] = r]
        /\ future[r] = "seed" /\ future' = [future EXCEPT ![r] = "done"]
    BY DEF FutureStores, Store, atoms, Accepts
  <1>a. UNCHANGED <<xwallet, wxwallet, userId, pc, local, told, disturbed>>
    BY DEF FutureStores, Store, atoms
  <1>b. /\ future[r] = "seed" /\ future'[r] = "done" /\ \A q \in Apps \ {r} : future'[q] = future[q]
    BY <1>0, Kinds DEF IInv, TypeOK
  <1>c. local[r].id \in Rows /\ local[r].id = Owner[r]
    BY <1>0, Kinds DEF IInv, StepsAgree
  <1>d. /\ wallet'[local[r].id] = local[r].wallet /\ seed'[local[r].id] = xwallet /\ writer'[local[r].id] = r
        /\ \A j \in Rows \ {local[r].id} : wallet'[j] = wallet[j] /\ seed'[j] = seed[j] /\ writer'[j] = writer[j]
    BY <1>0, <1>c DEF IInv, TypeOK
  <1>r. \A q \in Requests \ {r} : Reads(q)' <=> Reads(q)
    BY <1>a, <1>b, Kinds DEF Reads
  <1>w. \A j \in Rows : writer[j] # r
    BY <1>0, Kinds DEF IInv, WritersAgree
  <1>1. TypeOK'
    <2>1. future' \in [Apps -> Pending \cup {"none", "done", "failed", "crashed"}]
      BY <1>0 DEF IInv, TypeOK, Pending
    <2>2. /\ wallet' \in [Rows -> MaybeKey] /\ seed' \in [Rows -> MaybeKey]
          /\ writer' \in [Rows -> Requests \cup {NoKey}]
      BY <1>0, Kinds DEF IInv, TypeOK
    <2>9. QED
      BY <1>a, <1>b, <2>1, <2>2, Kinds DEF IInv, TypeOK, Pending
  <1>2. StepsAgree'
    BY <1>0, <1>a, <1>b, <1>c, <1>d, <1>r, <1>w, Kinds DEF IInv, StepsAgree
  <1>3. WritersAgree'
    BY <1>0, <1>a, <1>b, <1>c, <1>d, <1>r, <1>w, Kinds DEF IInv, WritersAgree
  <1>4. AloneAgrees'
    BY <1>0, <1>a, <1>b, <1>c, <1>d, <1>r, <1>w, Kinds DEF IInv, AloneAgrees, Reads, Busy, Pending
  <1>5. StoredIsTold'
    <2> SUFFICES ASSUME NEW i \in Rows, NEW q \in (Apps \cup Apis) \ disturbed, writer'[i] = q
                 PROVE  /\ wallet'[i] = Key(q) /\ seed'[i] = Key(q)
                        /\ pc[q] = "replied" =>
                             /\ told[q].id = i /\ told[q].wallet = wallet'[i]
                             /\ q \in Apps => told[q].seed = seed'[i]
      BY <1>a DEF StoredIsTold
    <2>1. CASE i # local[r].id
      <3>1. writer[i] = q /\ wallet'[i] = wallet[i] /\ seed'[i] = seed[i] /\ q # r
        BY <1>d, <1>w, <2>1
      <3>2. QED
        BY <1>a, <1>b, <3>1, Kinds DEF IInv, StoredIsTold
    <2>2. CASE i = local[r].id
      <3>1. q = r /\ Reads(r) /\ r \notin disturbed
        BY <1>b, <1>d, <2>2, Kinds DEF Reads, Busy, Pending
      <3>2. /\ xwallet = Key(r) /\ local[r].wallet = xwallet
            /\ pc[r] = "replied" => told[r].id = Owner[r] /\ told[r].wallet = xwallet /\ told[r].seed = xwallet
        BY <1>0, <1>b, <3>1, Kinds DEF IInv, AloneAgrees
      <3>3. QED
        BY <1>a, <1>b, <1>c, <1>d, <2>2, <3>1, <3>2, Kinds
    <2>3. QED
      BY <2>1, <2>2
  <1>6. QED
    BY <1>1, <1>2, <1>3, <1>4, <1>5 DEF IInv

LEMMA FutureStoresRefusedIInv ==
  ASSUME IInv, NEW r \in Apps, FutureStores(r), future' = [future EXCEPT ![r] = "failed"], UNCHANGED db
  PROVE  IInv'
  <1>0. /\ future[r] = "seed" /\ future' = [future EXCEPT ![r] = "failed"]
    BY DEF FutureStores, atoms, db
  <1>a. UNCHANGED <<xwallet, wxwallet, userId, wallet, seed, writer, pc, local, told, disturbed>>
    BY DEF FutureStores, atoms, db
  <1>b. /\ future[r] = "seed" /\ future'[r] = "failed" /\ \A q \in Apps \ {r} : future'[q] = future[q]
    BY <1>0, Kinds DEF IInv, TypeOK
  <1>r. \A q \in Requests \ {r} : Reads(q)' <=> Reads(q)
    BY <1>a, <1>b, Kinds DEF Reads
  <1>1. TypeOK'
    BY <1>0, <1>a, <1>b, <1>r, Kinds DEF IInv, TypeOK, Busy, Ended, Pending, MaybeKey
  <1>2. StepsAgree'
    BY <1>0, <1>a, <1>b, <1>r, Kinds DEF IInv, StepsAgree
  <1>3. WritersAgree'
    BY <1>0, <1>a, <1>b, <1>r, Kinds DEF IInv, WritersAgree
  <1>4. AloneAgrees'
    BY <1>0, <1>a, <1>b, <1>r, Kinds DEF IInv, AloneAgrees, Reads, Busy, Pending
  <1>5. StoredIsTold'
    BY <1>0, <1>a, <1>b, <1>r, Kinds DEF IInv, StoredIsTold
  <1>6. QED
    BY <1>1, <1>2, <1>3, <1>4, <1>5 DEF IInv

LEMMA BeginByApiIInv ==
  ASSUME IInv, NEW r \in Apis, BeginByApi(r)
  PROVE  IInv'
  <1>0. /\ pc[r] = "idle"
        /\ \E next \in {"denied", "fetch"} : pc' = [pc EXCEPT ![r] = next]
    BY DEF BeginByApi, Goto, atoms, db
  <1>a. UNCHANGED <<xwallet, wxwallet, userId, wallet, seed, writer, future, local, told, disturbed>>
    BY DEF BeginByApi, Goto, atoms, db
  <1>b. /\ pc[r] = "idle" /\ pc'[r] \in {"denied", "fetch"}
        /\ \A q \in Requests \ {r} : pc'[q] = pc[q]
    BY <1>0, Kinds DEF IInv, TypeOK
  <1>r. \A q \in Requests \ {r} : Reads(q)' <=> Reads(q)
    BY <1>a, <1>b, Kinds DEF Reads
  <1>1. TypeOK'
    BY <1>0, <1>a, <1>b, <1>r, Kinds DEF IInv, TypeOK, Busy, Ended, Pending, MaybeKey
  <1>2. StepsAgree'
    BY <1>0, <1>a, <1>b, <1>r, Kinds DEF IInv, StepsAgree
  <1>3. WritersAgree'
    BY <1>0, <1>a, <1>b, <1>r, Kinds DEF IInv, WritersAgree
  <1>4. AloneAgrees'
    BY <1>0, <1>a, <1>b, <1>r, Kinds DEF IInv, AloneAgrees, Reads, Busy, Pending
  <1>5. StoredIsTold'
    BY <1>0, <1>a, <1>b, <1>r, Kinds DEF IInv, StoredIsTold
  <1>6. QED
    BY <1>1, <1>2, <1>3, <1>4, <1>5 DEF IInv

LEMMA StampIdIInv ==
  ASSUME IInv, NEW r \in Apis, StampId(r)
  PROVE  IInv'
  <1>0. /\ pc[r] = "stampid"
        /\ \E next \in {"readid"} : pc' = [pc EXCEPT ![r] = next]
        /\ userId' = r
    BY DEF StampId, Goto, db
  <1>a. UNCHANGED <<xwallet, wxwallet, wallet, seed, writer, future, local, told, disturbed>>
    BY DEF StampId, Goto, db
  <1>b. /\ pc[r] = "stampid" /\ pc'[r] \in {"readid"}
        /\ \A q \in Requests \ {r} : pc'[q] = pc[q]
    BY <1>0, Kinds DEF IInv, TypeOK
  <1>r. \A q \in Requests \ {r} : Reads(q)' <=> Reads(q)
    BY <1>a, <1>b, Kinds DEF Reads
  <1>1. TypeOK'
    BY <1>0, <1>a, <1>b, <1>r, Kinds DEF IInv, TypeOK, Busy, Ended, Pending, MaybeKey
  <1>2. StepsAgree'
    BY <1>0, <1>a, <1>b, <1>r, Kinds DEF IInv, StepsAgree
  <1>3. WritersAgree'
    BY <1>0, <1>a, <1>b, <1>r, Kinds DEF IInv, WritersAgree
  <1>4. AloneAgrees'
    BY <1>0, <1>a, <1>b, <1>r, Kinds DEF IInv, AloneAgrees, Reads, Busy, Pending
  <1>5. StoredIsTold'
    BY <1>0, <1>a, <1>b, <1>r, Kinds DEF IInv, StoredIsTold
  <1>6. QED
    BY <1>1, <1>2, <1>3, <1>4, <1>5 DEF IInv

LEMMA ReadByApiIdIInv ==
  ASSUME IInv, NEW r \in Apis, ReadByApi(r), pc[r] = "readid"
  PROVE  IInv'
  <1>0. /\ pc[r] = "readid"
        /\ \E next \in {"address"} : pc' = [pc EXCEPT ![r] = next]
        /\ local' = [local EXCEPT ![r].id = userId]
    BY DEF ReadByApi, Goto, atoms, db
  <1>a. UNCHANGED <<xwallet, wxwallet, userId, wallet, seed, writer, future, told, disturbed>>
    BY DEF ReadByApi, Goto, atoms, db
  <1>b. /\ pc[r] = "readid" /\ pc'[r] \in {"address"}
        /\ \A q \in Requests \ {r} : pc'[q] = pc[q]
        /\ local'[r].id = userId /\ local'[r].wallet = local[r].wallet
        /\ \A q \in Requests \ {r} : local'[q] = local[q]
    BY <1>0, Kinds DEF IInv, TypeOK
  <1>r. \A q \in Requests \ {r} : Reads(q)' <=> Reads(q)
    BY <1>a, <1>b, Kinds DEF Reads
  <1>1. TypeOK'
    <2>1. pc' \in [Requests -> {"idle"} \cup Busy \cup Ended]
      BY <1>0, Kinds DEF IInv, TypeOK, Busy, Ended
    <2>2. local' \in [Requests -> [id : Rows \cup {NoKey}, wallet : MaybeKey]]
      BY <1>0, <1>b, Kinds DEF IInv, TypeOK
    <2>8. \A q \in Apps : pc'[q] = "crashed" => future'[q] \notin Pending
      BY <1>a, <1>b, Kinds DEF IInv, TypeOK
    <2>9. QED
      BY <1>a, <2>1, <2>2, <2>8 DEF IInv, TypeOK
  <1>2. StepsAgree'
    BY <1>0, <1>a, <1>b, <1>r, Kinds DEF IInv, StepsAgree
  <1>3. WritersAgree'
    BY <1>0, <1>a, <1>b, <1>r, Kinds DEF IInv, WritersAgree
  <1>4. AloneAgrees'
    BY <1>0, <1>a, <1>b, <1>r, Kinds DEF IInv, AloneAgrees, Reads, Busy, Pending
  <1>5. StoredIsTold'
    BY <1>0, <1>a, <1>b, <1>r, Kinds DEF IInv, StoredIsTold
  <1>6. QED
    BY <1>1, <1>2, <1>3, <1>4, <1>5 DEF IInv

LEMMA ReadByApiAddressIInv ==
  ASSUME IInv, NEW r \in Apis, ReadByApi(r), pc[r] = "address"
  PROVE  IInv'
  <1>0. /\ pc[r] = "address"
        /\ \E next \in {"seed"} : pc' = [pc EXCEPT ![r] = next]
        /\ local' = [local EXCEPT ![r].wallet = xwallet]
    BY DEF ReadByApi, Goto, atoms, db
  <1>a. UNCHANGED <<xwallet, wxwallet, userId, wallet, seed, writer, future, told, disturbed>>
    BY DEF ReadByApi, Goto, atoms, db
  <1>b. /\ pc[r] = "address" /\ pc'[r] \in {"seed"}
        /\ \A q \in Requests \ {r} : pc'[q] = pc[q]
        /\ local'[r].wallet = xwallet /\ local'[r].id = local[r].id
        /\ \A q \in Requests \ {r} : local'[q] = local[q]
    BY <1>0, Kinds DEF IInv, TypeOK
  <1>r. \A q \in Requests \ {r} : Reads(q)' <=> Reads(q)
    BY <1>a, <1>b, Kinds DEF Reads
  <1>1. TypeOK'
    <2>1. pc' \in [Requests -> {"idle"} \cup Busy \cup Ended]
      BY <1>0, Kinds DEF IInv, TypeOK, Busy, Ended
    <2>2. local' \in [Requests -> [id : Rows \cup {NoKey}, wallet : MaybeKey]]
      BY <1>0, <1>b, Kinds DEF IInv, TypeOK
    <2>8. \A q \in Apps : pc'[q] = "crashed" => future'[q] \notin Pending
      BY <1>a, <1>b, Kinds DEF IInv, TypeOK
    <2>9. QED
      BY <1>a, <2>1, <2>2, <2>8 DEF IInv, TypeOK
  <1>2. StepsAgree'
    BY <1>0, <1>a, <1>b, <1>r, Kinds DEF IInv, StepsAgree
  <1>3. WritersAgree'
    BY <1>0, <1>a, <1>b, <1>r, Kinds DEF IInv, WritersAgree
  <1>4. AloneAgrees'
    BY <1>0, <1>a, <1>b, <1>r, Kinds DEF IInv, AloneAgrees, Reads, Busy, Pending
  <1>5. StoredIsTold'
    BY <1>0, <1>a, <1>b, <1>r, Kinds DEF IInv, StoredIsTold
  <1>6. QED
    BY <1>1, <1>2, <1>3, <1>4, <1>5 DEF IInv

LEMMA InsertByApiIInv ==
  ASSUME IInv, NEW r \in Apis, InsertByApi(r), Store(r, local[r].id, local[r].wallet, xwallet), Goto(r, "tellid")
  PROVE  IInv'
  <1>0. /\ xwallet # NoKey /\ wallet' = [wallet EXCEPT ![local[r].id] = local[r].wallet]
        /\ seed' = [seed EXCEPT ![local[r].id] = xwallet] /\ writer' = [writer EXCEPT ![local[r].id] = r]
        /\ pc[r] = "seed" /\ pc' = [pc EXCEPT ![r] = "tellid"]
    BY DEF InsertByApi, Store, Goto, atoms, Accepts
  <1>a. UNCHANGED <<xwallet, wxwallet, userId, future, local, told, disturbed>>
    BY DEF InsertByApi, Store, Goto, atoms
  <1>b. /\ pc[r] = "seed" /\ pc'[r] \in {"tellid"}
        /\ \A q \in Requests \ {r} : pc'[q] = pc[q]
    BY <1>0, Kinds DEF IInv, TypeOK
  <1>c. local[r].id \in Rows /\ local[r].id \in Apis
    BY <1>0, Kinds DEF IInv, StepsAgree
  <1>d. /\ wallet'[local[r].id] = local[r].wallet /\ seed'[local[r].id] = xwallet /\ writer'[local[r].id] = r
        /\ \A j \in Rows \ {local[r].id} : wallet'[j] = wallet[j] /\ seed'[j] = seed[j] /\ writer'[j] = writer[j]
    BY <1>0, <1>c DEF IInv, TypeOK
  <1>r. \A q \in Requests \ {r} : Reads(q)' <=> Reads(q)
    BY <1>a, <1>b, Kinds DEF Reads
  <1>w. \A j \in Rows : writer[j] # r
    BY <1>0, Kinds DEF IInv, WritersAgree
  <1>1. TypeOK'
    <2>1. pc' \in [Requests -> {"idle"} \cup Busy \cup Ended]
      BY <1>0, Kinds DEF IInv, TypeOK, Busy, Ended
    <2>2. /\ wallet' \in [Rows -> MaybeKey] /\ seed' \in [Rows -> MaybeKey]
          /\ writer' \in [Rows -> Requests \cup {NoKey}]
      BY <1>0, Kinds DEF IInv, TypeOK
    <2>9. QED
      BY <1>a, <1>b, <2>1, <2>2, Kinds DEF IInv, TypeOK, Pending
  <1>2. StepsAgree'
    BY <1>0, <1>a, <1>b, <1>c, <1>d, <1>r, <1>w, Kinds DEF IInv, StepsAgree
  <1>3. WritersAgree'
    <2> SUFFICES ASSUME NEW i \in Rows, NEW q \in Requests, writer'[i] = q
                 PROVE  /\ q \in Apps => i = Owner[q] /\ future[q] = "done"
                        /\ q \in Apis => pc'[q] \in {"tellid", "tell", "replied", "crashed"} /\ (q \in disturbed \/ i = q)
                        /\ q \in Waves => pc'[q] \in {"tell", "replied", "crashed"}
      BY <1>a DEF WritersAgree
    <2>1. CASE i # local[r].id
      BY <1>b, <1>d, <1>w, <2>1, Kinds DEF IInv, WritersAgree
    <2>2. CASE i = local[r].id
      <3>1. q = r /\ Reads(r)
        BY <1>b, <1>d, <2>2, Kinds DEF Reads, Busy
      <3>2. r \in disturbed \/ local[r].id = r
        BY <1>b, <3>1, Kinds DEF IInv, AloneAgrees
      <3>3. QED
        BY <1>b, <2>2, <3>1, <3>2, Kinds
    <2>3. QED
      BY <2>1, <2>2
  <1>4. AloneAgrees'
    BY <1>0, <1>a, <1>b, <1>c, <1>d, <1>r, <1>w, Kinds DEF IInv, AloneAgrees, Reads, Busy, Pending
  <1>5. StoredIsTold'
    <2> SUFFICES ASSUME NEW i \in Rows, NEW q \in (Apps \cup Apis) \ disturbed, writer'[i] = q
                 PROVE  /\ wallet'[i] = Key(q) /\ seed'[i] = Key(q)
                        /\ pc'[q] = "replied" =>
                             /\ told[q].id = i /\ told[q].wallet = wallet'[i]
                             /\ q \in Apps => told[q].seed = seed'[i]
      BY <1>a DEF StoredIsTold
    <2>1. CASE i # local[r].id
      <3>1. writer[i] = q /\ wallet'[i] = wallet[i] /\ seed'[i] = seed[i] /\ q # r
        BY <1>d, <1>w, <2>1
      <3>2. QED
        BY <1>a, <1>b, <3>1, Kinds DEF IInv, StoredIsTold
    <2>2. CASE i = local[r].id
      <3>1. q = r /\ Reads(r) /\ r \notin disturbed
        BY <1>b, <1>d, <2>2, Kinds DEF Reads, Busy, Pending
      <3>2. xwallet = Key(r) /\ local[r].wallet = xwallet
        BY <1>0, <1>b, <3>1, Kinds DEF IInv, AloneAgrees
      <3>3. QED
        BY <1>a, <1>b, <1>c, <1>d, <2>2, <3>1, <3>2, Kinds
    <2>3. QED
      BY <2>1, <2>2
  <1>6. QED
    BY <1>1, <1>2, <1>3, <1>4, <1>5 DEF IInv

LEMMA InsertByApiRefusedIInv ==
  ASSUME IInv, NEW r \in Apis, InsertByApi(r), UNCHANGED db, Goto(r, "error")
  PROVE  IInv'
  <1>0. /\ pc[r] = "seed"
        /\ \E next \in {"error"} : pc' = [pc EXCEPT ![r] = next]
    BY DEF InsertByApi, Goto, atoms, db
  <1>a. UNCHANGED <<xwallet, wxwallet, userId, wallet, seed, writer, future, local, told, disturbed>>
    BY DEF InsertByApi, Goto, atoms, db
  <1>b. /\ pc[r] = "seed" /\ pc'[r] \in {"error"}
        /\ \A q \in Requests \ {r} : pc'[q] = pc[q]
    BY <1>0, Kinds DEF IInv, TypeOK
  <1>r. \A q \in Requests \ {r} : Reads(q)' <=> Reads(q)
    BY <1>a, <1>b, Kinds DEF Reads
  <1>1. TypeOK'
    BY <1>0, <1>a, <1>b, <1>r, Kinds DEF IInv, TypeOK, Busy, Ended, Pending, MaybeKey
  <1>2. StepsAgree'
    BY <1>0, <1>a, <1>b, <1>r, Kinds DEF IInv, StepsAgree
  <1>3. WritersAgree'
    BY <1>0, <1>a, <1>b, <1>r, Kinds DEF IInv, WritersAgree
  <1>4. AloneAgrees'
    BY <1>0, <1>a, <1>b, <1>r, Kinds DEF IInv, AloneAgrees, Reads, Busy, Pending
  <1>5. StoredIsTold'
    BY <1>0, <1>a, <1>b, <1>r, Kinds DEF IInv, StoredIsTold
  <1>6. QED
    BY <1>1, <1>2, <1>3, <1>4, <1>5 DEF IInv

LEMMA TellByApiIdIInv ==
  ASSUME IInv, NEW r \in Apis, TellByApi(r), pc[r] = "tellid"
  PROVE  IInv'
  <1>0. /\ pc[r] = "tellid"
        /\ \E next \in {"tell"} : pc' = [pc EXCEPT ![r] = next]
        /\ told' = [told EXCEPT ![r].id = userId]
    BY DEF TellByApi, Goto, atoms, db
  <1>a. UNCHANGED <<xwallet, wxwallet, userId, wallet, seed, writer, future, local, disturbed>>
    BY DEF TellByApi, Goto, atoms, db
  <1>b. /\ pc[r] = "tellid" /\ pc'[r] \in {"tell"}
        /\ \A q \in Requests \ {r} : pc'[q] = pc[q]
        /\ told'[r].id = userId
        /\ \A q \in Requests \ {r} : told'[q] = told[q]
    BY <1>0, Kinds DEF IInv, TypeOK
  <1>r. \A q \in Requests \ {r} : Reads(q)' <=> Reads(q)
    BY <1>a, <1>b, Kinds DEF Reads
  <1>1. TypeOK'
    <2>1. pc' \in [Requests -> {"idle"} \cup Busy \cup Ended]
      BY <1>0, Kinds DEF IInv, TypeOK, Busy, Ended
    <2> DEFINE R == [id : Rows \cup {NoKey}, wallet : MaybeKey, seed : MaybeKey]
    <2>0. told \in [Requests -> R] /\ r \in Requests
      BY Kinds DEF IInv, TypeOK
    <2>2. told' \in [Requests -> R]
      <3>1. told[r] \in R /\ userId \in Rows \cup {NoKey}
        BY <2>0, Kinds, WalletsAssumption DEF IInv, TypeOK, StepsAgree, Rows
      <3>2. [told[r] EXCEPT !.id = userId] \in R
        BY <3>1
      <3>3. QED
        BY <1>0, <2>0, <3>2
    <2>8. \A q \in Apps : pc'[q] = "crashed" => future'[q] \notin Pending
      BY <1>a, <1>b, Kinds DEF IInv, TypeOK
    <2>9. QED
      BY <1>a, <2>1, <2>2, <2>8 DEF IInv, TypeOK
  <1>2. StepsAgree'
    BY <1>0, <1>a, <1>b, <1>r, Kinds DEF IInv, StepsAgree
  <1>3. WritersAgree'
    BY <1>0, <1>a, <1>b, <1>r, Kinds DEF IInv, WritersAgree
  <1>4. AloneAgrees'
    BY <1>0, <1>a, <1>b, <1>r, Kinds DEF IInv, AloneAgrees, Reads, Busy, Pending
  <1>5. StoredIsTold'
    BY <1>0, <1>a, <1>b, <1>r, Kinds DEF IInv, StoredIsTold
  <1>6. QED
    BY <1>1, <1>2, <1>3, <1>4, <1>5 DEF IInv

LEMMA TellByApiAddressIInv ==
  ASSUME IInv, NEW r \in Apis, TellByApi(r), pc[r] = "tell"
  PROVE  IInv'
  <1>0. /\ pc[r] = "tell"
        /\ \E next \in {"replied"} : pc' = [pc EXCEPT ![r] = next]
        /\ told' = [told EXCEPT ![r].wallet = xwallet]
    BY DEF TellByApi, Goto, atoms, db
  <1>a. UNCHANGED <<xwallet, wxwallet, userId, wallet, seed, writer, future, local, disturbed>>
    BY DEF TellByApi, Goto, atoms, db
  <1>b. /\ pc[r] = "tell" /\ pc'[r] \in {"replied"}
        /\ \A q \in Requests \ {r} : pc'[q] = pc[q]
        /\ told'[r].wallet = xwallet /\ told'[r].id = told[r].id
        /\ \A q \in Requests \ {r} : told'[q] = told[q]
    BY <1>0, Kinds DEF IInv, TypeOK
  <1>r. \A q \in Requests \ {r} : Reads(q)' <=> Reads(q)
    BY <1>a, <1>b, Kinds DEF Reads
  <1>1. TypeOK'
    <2>1. pc' \in [Requests -> {"idle"} \cup Busy \cup Ended]
      BY <1>0, Kinds DEF IInv, TypeOK, Busy, Ended
    <2> DEFINE R == [id : Rows \cup {NoKey}, wallet : MaybeKey, seed : MaybeKey]
    <2>0. told \in [Requests -> R] /\ r \in Requests
      BY Kinds DEF IInv, TypeOK
    <2>2. told' \in [Requests -> R]
      <3>1. told[r] \in R /\ xwallet \in MaybeKey
        BY <2>0, Kinds, WalletsAssumption DEF IInv, TypeOK, StepsAgree, Rows
      <3>2. [told[r] EXCEPT !.wallet = xwallet] \in R
        BY <3>1
      <3>3. QED
        BY <1>0, <2>0, <3>2
    <2>8. \A q \in Apps : pc'[q] = "crashed" => future'[q] \notin Pending
      BY <1>a, <1>b, Kinds DEF IInv, TypeOK
    <2>9. QED
      BY <1>a, <2>1, <2>2, <2>8 DEF IInv, TypeOK
  <1>2. StepsAgree'
    BY <1>0, <1>a, <1>b, <1>r, Kinds DEF IInv, StepsAgree
  <1>3. WritersAgree'
    BY <1>0, <1>a, <1>b, <1>r, Kinds DEF IInv, WritersAgree
  <1>4. AloneAgrees'
    BY <1>0, <1>a, <1>b, <1>r, Kinds DEF IInv, AloneAgrees, Reads, Busy, Pending
  <1>5. StoredIsTold'
    <2> SUFFICES ASSUME NEW i \in Rows, NEW q \in (Apps \cup Apis) \ disturbed, writer[i] = q
                 PROVE  /\ wallet[i] = Key(q) /\ seed[i] = Key(q)
                        /\ pc'[q] = "replied" =>
                             /\ told'[q].id = i /\ told'[q].wallet = wallet[i]
                             /\ q \in Apps => told'[q].seed = seed[i]
      BY <1>a DEF StoredIsTold
    <2>1. /\ wallet[i] = Key(q) /\ seed[i] = Key(q)
          /\ pc[q] = "replied" => /\ told[q].id = i /\ told[q].wallet = wallet[i]
                                  /\ q \in Apps => told[q].seed = seed[i]
      BY DEF IInv, StoredIsTold
    <2>2. CASE q # r
      BY <1>a, <1>b, <2>1, <2>2, Kinds
    <2>3. CASE q = r
      <3>1. Reads(r)
        BY <1>b, Kinds DEF Reads, Busy
      <3>2. xwallet = Key(r) /\ i = r /\ told[r].id = r
        BY <1>b, <2>3, <3>1, Kinds DEF IInv, AloneAgrees, WritersAgree
      <3>3. QED
        BY <1>b, <2>1, <2>3, <3>2, Kinds
    <2>4. QED
      BY <2>2, <2>3
  <1>6. QED
    BY <1>1, <1>2, <1>3, <1>4, <1>5 DEF IInv

LEMMA BeginWavesIInv ==
  ASSUME IInv, NEW r \in Waves, BeginWaves(r)
  PROVE  IInv'
  <1>0. /\ pc[r] = "idle"
        /\ \E next \in {"denied", "had", "fetch"} : pc' = [pc EXCEPT ![r] = next]
    BY DEF BeginWaves, Goto, atoms, db
  <1>a. UNCHANGED <<xwallet, wxwallet, userId, wallet, seed, writer, future, local, told, disturbed>>
    BY DEF BeginWaves, Goto, atoms, db
  <1>b. /\ pc[r] = "idle" /\ pc'[r] \in {"denied", "had", "fetch"}
        /\ \A q \in Requests \ {r} : pc'[q] = pc[q]
    BY <1>0, Kinds DEF IInv, TypeOK
  <1>r. \A q \in Requests \ {r} : Reads(q)' <=> Reads(q)
    BY <1>a, <1>b, Kinds DEF Reads
  <1>1. TypeOK'
    BY <1>0, <1>a, <1>b, <1>r, Kinds DEF IInv, TypeOK, Busy, Ended, Pending, MaybeKey
  <1>2. StepsAgree'
    BY <1>0, <1>a, <1>b, <1>r, Kinds DEF IInv, StepsAgree
  <1>3. WritersAgree'
    BY <1>0, <1>a, <1>b, <1>r, Kinds DEF IInv, WritersAgree
  <1>4. AloneAgrees'
    BY <1>0, <1>a, <1>b, <1>r, Kinds DEF IInv, AloneAgrees, Reads, Busy, Pending
  <1>5. StoredIsTold'
    BY <1>0, <1>a, <1>b, <1>r, Kinds DEF IInv, StoredIsTold
  <1>6. QED
    BY <1>1, <1>2, <1>3, <1>4, <1>5 DEF IInv

LEMMA ReadWavesIInv ==
  ASSUME IInv, NEW r \in Waves, ReadWaves(r)
  PROVE  IInv'
  <1>0. /\ pc[r] = "address"
        /\ \E next \in {"seed"} : pc' = [pc EXCEPT ![r] = next]
        /\ local' = [local EXCEPT ![r] = [id |-> Owner[r], wallet |-> wxwallet]]
    BY DEF ReadWaves, Goto, atoms, db
  <1>a. UNCHANGED <<xwallet, wxwallet, userId, wallet, seed, writer, future, told, disturbed>>
    BY DEF ReadWaves, Goto, atoms, db
  <1>b. /\ pc[r] = "address" /\ pc'[r] \in {"seed"}
        /\ \A q \in Requests \ {r} : pc'[q] = pc[q]
        /\ local'[r].id = Owner[r]
        /\ \A q \in Requests \ {r} : local'[q] = local[q]
    BY <1>0, Kinds DEF IInv, TypeOK
  <1>r. \A q \in Requests \ {r} : Reads(q)' <=> Reads(q)
    BY <1>a, <1>b, Kinds DEF Reads
  <1>1. TypeOK'
    <2>1. pc' \in [Requests -> {"idle"} \cup Busy \cup Ended]
      BY <1>0, Kinds DEF IInv, TypeOK, Busy, Ended
    <2>2. local' \in [Requests -> [id : Rows \cup {NoKey}, wallet : MaybeKey]]
      BY <1>0, <1>b, Kinds DEF IInv, TypeOK
    <2>8. \A q \in Apps : pc'[q] = "crashed" => future'[q] \notin Pending
      BY <1>a, <1>b, Kinds DEF IInv, TypeOK
    <2>9. QED
      BY <1>a, <2>1, <2>2, <2>8 DEF IInv, TypeOK
  <1>2. StepsAgree'
    BY <1>0, <1>a, <1>b, <1>r, Kinds DEF IInv, StepsAgree
  <1>3. WritersAgree'
    BY <1>0, <1>a, <1>b, <1>r, Kinds DEF IInv, WritersAgree
  <1>4. AloneAgrees'
    BY <1>0, <1>a, <1>b, <1>r, Kinds DEF IInv, AloneAgrees, Reads, Busy, Pending
  <1>5. StoredIsTold'
    BY <1>0, <1>a, <1>b, <1>r, Kinds DEF IInv, StoredIsTold
  <1>6. QED
    BY <1>1, <1>2, <1>3, <1>4, <1>5 DEF IInv

LEMMA StoreWavesIInv ==
  ASSUME IInv, NEW r \in Waves, StoreWaves(r), Store(r, local[r].id, local[r].wallet, wxwallet)
  PROVE  IInv'
  <1>0. /\ wxwallet # NoKey /\ wallet' = [wallet EXCEPT ![local[r].id] = local[r].wallet]
        /\ seed' = [seed EXCEPT ![local[r].id] = wxwallet] /\ writer' = [writer EXCEPT ![local[r].id] = r]
        /\ pc[r] = "seed" /\ pc' = [pc EXCEPT ![r] = "tell"]
    BY DEF StoreWaves, Store, Goto, atoms, Accepts
  <1>a. UNCHANGED <<xwallet, wxwallet, userId, future, local, told, disturbed>>
    BY DEF StoreWaves, Store, Goto, atoms
  <1>b. /\ pc[r] = "seed" /\ pc'[r] \in {"tell"}
        /\ \A q \in Requests \ {r} : pc'[q] = pc[q]
    BY <1>0, Kinds DEF IInv, TypeOK
  <1>c. local[r].id \in Rows /\ local[r].id = Owner[r]
    BY <1>0, Kinds DEF IInv, StepsAgree
  <1>d. /\ wallet'[local[r].id] = local[r].wallet /\ seed'[local[r].id] = wxwallet /\ writer'[local[r].id] = r
        /\ \A j \in Rows \ {local[r].id} : wallet'[j] = wallet[j] /\ seed'[j] = seed[j] /\ writer'[j] = writer[j]
    BY <1>0, <1>c DEF IInv, TypeOK
  <1>r. \A q \in Requests \ {r} : Reads(q)' <=> Reads(q)
    BY <1>a, <1>b, Kinds DEF Reads
  <1>w. \A j \in Rows : writer[j] # r
    BY <1>0, Kinds DEF IInv, WritersAgree
  <1>1. TypeOK'
    <2>1. pc' \in [Requests -> {"idle"} \cup Busy \cup Ended]
      BY <1>0, Kinds DEF IInv, TypeOK, Busy, Ended
    <2>2. /\ wallet' \in [Rows -> MaybeKey] /\ seed' \in [Rows -> MaybeKey]
          /\ writer' \in [Rows -> Requests \cup {NoKey}]
      BY <1>0, Kinds DEF IInv, TypeOK
    <2>9. QED
      BY <1>a, <1>b, <2>1, <2>2, Kinds DEF IInv, TypeOK, Pending
  <1>2. StepsAgree'
    BY <1>0, <1>a, <1>b, <1>c, <1>d, <1>r, <1>w, Kinds DEF IInv, StepsAgree
  <1>3. WritersAgree'
    BY <1>0, <1>a, <1>b, <1>c, <1>d, <1>r, <1>w, Kinds DEF IInv, WritersAgree
  <1>4. AloneAgrees'
    BY <1>0, <1>a, <1>b, <1>c, <1>d, <1>r, <1>w, Kinds DEF IInv, AloneAgrees, Reads, Busy, Pending
  <1>5. StoredIsTold'
    BY <1>0, <1>a, <1>b, <1>c, <1>d, <1>r, <1>w, Kinds DEF IInv, StoredIsTold
  <1>6. QED
    BY <1>1, <1>2, <1>3, <1>4, <1>5 DEF IInv

LEMMA StoreWavesRefusedIInv ==
  ASSUME IInv, NEW r \in Waves, StoreWaves(r), UNCHANGED db
  PROVE  IInv'
  <1>0. /\ pc[r] = "seed"
        /\ \E next \in {"tell"} : pc' = [pc EXCEPT ![r] = next]
    BY DEF StoreWaves, Goto, atoms, db
  <1>a. UNCHANGED <<xwallet, wxwallet, userId, wallet, seed, writer, future, local, told, disturbed>>
    BY DEF StoreWaves, Goto, atoms, db
  <1>b. /\ pc[r] = "seed" /\ pc'[r] \in {"tell"}
        /\ \A q \in Requests \ {r} : pc'[q] = pc[q]
    BY <1>0, Kinds DEF IInv, TypeOK
  <1>r. \A q \in Requests \ {r} : Reads(q)' <=> Reads(q)
    BY <1>a, <1>b, Kinds DEF Reads
  <1>1. TypeOK'
    BY <1>0, <1>a, <1>b, <1>r, Kinds DEF IInv, TypeOK, Busy, Ended, Pending, MaybeKey
  <1>2. StepsAgree'
    BY <1>0, <1>a, <1>b, <1>r, Kinds DEF IInv, StepsAgree
  <1>3. WritersAgree'
    BY <1>0, <1>a, <1>b, <1>r, Kinds DEF IInv, WritersAgree
  <1>4. AloneAgrees'
    BY <1>0, <1>a, <1>b, <1>r, Kinds DEF IInv, AloneAgrees, Reads, Busy, Pending
  <1>5. StoredIsTold'
    BY <1>0, <1>a, <1>b, <1>r, Kinds DEF IInv, StoredIsTold
  <1>6. QED
    BY <1>1, <1>2, <1>3, <1>4, <1>5 DEF IInv

LEMMA TellWavesIInv ==
  ASSUME IInv, NEW r \in Waves, TellWaves(r)
  PROVE  IInv'
  <1>s. /\ Answers(<<r, 2>>) \subseteq MaybeKey
        /\ \E k \in Answers(<<r, 2>>) : told' = [told EXCEPT ![r] = [id |-> Owner[r], wallet |-> k, seed |-> k]]
    BY Answered, Kinds DEF TellWaves
  <1>0. /\ pc[r] = "tell"
        /\ \E next \in {"replied"} : pc' = [pc EXCEPT ![r] = next]
        /\ \E k \in MaybeKey : told' = [told EXCEPT ![r] = [id |-> Owner[r], wallet |-> k, seed |-> k]]
    BY <1>s DEF TellWaves, Goto, atoms, db
  <1>a. UNCHANGED <<xwallet, wxwallet, userId, wallet, seed, writer, future, local, disturbed>>
    BY DEF TellWaves, Goto, atoms, db
  <1>b. /\ pc[r] = "tell" /\ pc'[r] \in {"replied"}
        /\ \A q \in Requests \ {r} : pc'[q] = pc[q]
        /\ \A q \in Requests \ {r} : told'[q] = told[q]
    BY <1>0, Kinds DEF IInv, TypeOK
  <1>r. \A q \in Requests \ {r} : Reads(q)' <=> Reads(q)
    BY <1>a, <1>b, Kinds DEF Reads
  <1>1. TypeOK'
    <2>1. pc' \in [Requests -> {"idle"} \cup Busy \cup Ended]
      BY <1>0, Kinds DEF IInv, TypeOK, Busy, Ended
    <2>2. told' \in [Requests -> [id : Rows \cup {NoKey}, wallet : MaybeKey, seed : MaybeKey]]
      BY <1>0, <1>b, Kinds DEF IInv, TypeOK
    <2>8. \A q \in Apps : pc'[q] = "crashed" => future'[q] \notin Pending
      BY <1>a, <1>b, Kinds DEF IInv, TypeOK
    <2>9. QED
      BY <1>a, <2>1, <2>2, <2>8 DEF IInv, TypeOK
  <1>2. StepsAgree'
    BY <1>0, <1>a, <1>b, <1>r, Kinds DEF IInv, StepsAgree
  <1>3. WritersAgree'
    BY <1>0, <1>a, <1>b, <1>r, Kinds DEF IInv, WritersAgree
  <1>4. AloneAgrees'
    BY <1>0, <1>a, <1>b, <1>r, Kinds DEF IInv, AloneAgrees, Reads, Busy, Pending
  <1>5. StoredIsTold'
    BY <1>0, <1>a, <1>b, <1>r, Kinds DEF IInv, StoredIsTold
  <1>6. QED
    BY <1>1, <1>2, <1>3, <1>4, <1>5 DEF IInv

LEMMA FetchAppIInv ==
  ASSUME IInv, NEW r \in Apps, FetchApp(r)
  PROVE  IInv'
  <1>0. /\ pc[r] = "fetch" /\ pc' = [pc EXCEPT ![r] = "tell"]
        /\ xwallet' \in {Key(r), NoKey}
        /\ disturbed' = disturbed \cup InFlight((Apps \cup Apis) \ {r}) \cup (IF InFlight((Apps \cup Apis) \ {r}) = {} THEN {} ELSE {r})
        /\ future' = [future EXCEPT ![r] = "asleep"]
    BY DEF FetchApp, Goto, Disturb, Answers, db
  <1>a. UNCHANGED <<wxwallet, userId, wallet, seed, writer, local, told>>
    BY DEF FetchApp, Goto, Disturb, Answers, db
  <1>b. /\ pc[r] = "fetch" /\ pc'[r] \in {"tell"}
        /\ \A q \in Requests \ {r} : pc'[q] = pc[q]
        /\ future'[r] = "asleep" /\ \A q \in Apps \ {r} : future'[q] = future[q]
    BY <1>0, Kinds DEF IInv, TypeOK
  <1>r. \A q \in Requests \ {r} : Reads(q)' <=> Reads(q)
    BY <1>a, <1>b, Kinds DEF Reads
  <1>d. disturbed \subseteq disturbed'
    BY <1>0
  <1>e. \A q \in (Apps \cup Apis) \ {r} : q \notin disturbed' => ~Reads(q)
    BY <1>0, Kinds DEF InFlight
  <1>f. r \notin disturbed' => \A q \in (Apps \cup Apis) \ {r} : ~Reads(q)
    BY <1>0, Kinds DEF InFlight
  <1>w. \A j \in Rows : writer[j] # r
    BY <1>0, Kinds DEF IInv, WritersAgree, StepsAgree
  <1>1. TypeOK'
    <2>1. pc' \in [Requests -> {"idle"} \cup Busy \cup Ended]
      BY <1>0, Kinds DEF IInv, TypeOK, Busy, Ended
    <2>2. future' \in [Apps -> Pending \cup {"none", "done", "failed", "crashed"}]
      BY <1>0 DEF IInv, TypeOK, Pending
    <2>3. xwallet' \in MaybeKey /\ disturbed' \subseteq Requests
      BY <1>0, Kinds DEF IInv, TypeOK, InFlight, MaybeKey
    <2>9. QED
      BY <1>a, <1>b, <2>1, <2>2, <2>3, Kinds DEF IInv, TypeOK
  <1>2. StepsAgree'
    BY <1>a, <1>b, <1>d, <1>r, Kinds DEF IInv, StepsAgree
  <1>3. WritersAgree'
    BY <1>a, <1>b, <1>d, <1>r, Kinds, <1>w DEF IInv, WritersAgree
  <1>4. AloneAgrees'
    <2>1. \A q \in (Apps \cup Apis) \ disturbed' : Reads(q)' => q = r
      BY <1>e, <1>r, Kinds
    <2>2. r \notin disturbed' => \A q \in (Apps \cup Apis) \ {r} : ~Reads(q)'
      BY <1>f, <1>r, Kinds
    <2> SUFFICES ASSUME NEW q \in (Apps \cup Apis) \ disturbed', Reads(q)'
                 PROVE  /\ \A p \in (Apps \cup Apis) \ {q} : ~Reads(p)'
                        /\ xwallet' \in {Key(q), NoKey}
                        /\ \A i \in Rows : writer[i] = q => xwallet' = Key(q)
                        /\ q \in Apps =>
                             /\ future'[q] = "seed" => local[q].wallet = xwallet'
                             /\ pc'[q] \in {"tellseed", "replied"} => told[q].id = Owner[q] /\ told[q].wallet = xwallet'
                             /\ pc'[q] = "replied" => told[q].seed = xwallet'
                        /\ q \in Apis =>
                             /\ pc'[q] \in {"readid", "address", "seed", "tellid", "tell"} => userId = q
                             /\ pc'[q] \in {"address", "seed"} => local[q].id = q
                             /\ pc'[q] = "seed" => local[q].wallet = xwallet'
                             /\ pc'[q] = "tell" => told[q].id = q
      BY <1>a DEF AloneAgrees
    <2>3. q = r /\ r \notin disturbed'
      BY <2>1
    <2>4. QED
      BY <1>0, <1>b, <1>w, <2>2, <2>3, Kinds
  <1>5. StoredIsTold'
    BY <1>a, <1>b, <1>d, <1>r, Kinds, <1>w DEF IInv, StoredIsTold
  <1>6. QED
    BY <1>1, <1>2, <1>3, <1>4, <1>5 DEF IInv

LEMMA FetchByApiIInv ==
  ASSUME IInv, NEW r \in Apis, FetchByApi(r)
  PROVE  IInv'
  <1>0. /\ pc[r] = "fetch" /\ pc' = [pc EXCEPT ![r] = "stampid"]
        /\ xwallet' \in {Key(r), NoKey}
        /\ disturbed' = disturbed \cup InFlight((Apps \cup Apis) \ {r}) \cup (IF InFlight((Apps \cup Apis) \ {r}) = {} THEN {} ELSE {r})
    BY DEF FetchByApi, Goto, Disturb, Answers, db
  <1>a. UNCHANGED <<wxwallet, userId, wallet, seed, writer, future, local, told>>
    BY DEF FetchByApi, Goto, Disturb, Answers, db
  <1>b. /\ pc[r] = "fetch" /\ pc'[r] \in {"stampid"}
        /\ \A q \in Requests \ {r} : pc'[q] = pc[q]
    BY <1>0, Kinds DEF IInv, TypeOK
  <1>r. \A q \in Requests \ {r} : Reads(q)' <=> Reads(q)
    BY <1>a, <1>b, Kinds DEF Reads
  <1>d. disturbed \subseteq disturbed'
    BY <1>0
  <1>e. \A q \in (Apps \cup Apis) \ {r} : q \notin disturbed' => ~Reads(q)
    BY <1>0, Kinds DEF InFlight
  <1>f. r \notin disturbed' => \A q \in (Apps \cup Apis) \ {r} : ~Reads(q)
    BY <1>0, Kinds DEF InFlight
  <1>w. \A j \in Rows : writer[j] # r
    BY <1>0, Kinds DEF IInv, WritersAgree, StepsAgree
  <1>1. TypeOK'
    <2>1. pc' \in [Requests -> {"idle"} \cup Busy \cup Ended]
      BY <1>0, Kinds DEF IInv, TypeOK, Busy, Ended
    <2>3. xwallet' \in MaybeKey /\ disturbed' \subseteq Requests
      BY <1>0, Kinds DEF IInv, TypeOK, InFlight, MaybeKey
    <2>9. QED
      BY <1>a, <1>b, <2>1, <2>3, Kinds DEF IInv, TypeOK
  <1>2. StepsAgree'
    BY <1>a, <1>b, <1>d, <1>r, Kinds DEF IInv, StepsAgree
  <1>3. WritersAgree'
    BY <1>a, <1>b, <1>d, <1>r, Kinds, <1>w DEF IInv, WritersAgree
  <1>4. AloneAgrees'
    <2>1. \A q \in (Apps \cup Apis) \ disturbed' : Reads(q)' => q = r
      BY <1>e, <1>r, Kinds
    <2>2. r \notin disturbed' => \A q \in (Apps \cup Apis) \ {r} : ~Reads(q)'
      BY <1>f, <1>r, Kinds
    <2> SUFFICES ASSUME NEW q \in (Apps \cup Apis) \ disturbed', Reads(q)'
                 PROVE  /\ \A p \in (Apps \cup Apis) \ {q} : ~Reads(p)'
                        /\ xwallet' \in {Key(q), NoKey}
                        /\ \A i \in Rows : writer[i] = q => xwallet' = Key(q)
                        /\ q \in Apps =>
                             /\ future'[q] = "seed" => local[q].wallet = xwallet'
                             /\ pc'[q] \in {"tellseed", "replied"} => told[q].id = Owner[q] /\ told[q].wallet = xwallet'
                             /\ pc'[q] = "replied" => told[q].seed = xwallet'
                        /\ q \in Apis =>
                             /\ pc'[q] \in {"readid", "address", "seed", "tellid", "tell"} => userId = q
                             /\ pc'[q] \in {"address", "seed"} => local[q].id = q
                             /\ pc'[q] = "seed" => local[q].wallet = xwallet'
                             /\ pc'[q] = "tell" => told[q].id = q
      BY <1>a DEF AloneAgrees
    <2>3. q = r /\ r \notin disturbed'
      BY <2>1
    <2>4. QED
      BY <1>0, <1>b, <1>w, <2>2, <2>3, Kinds
  <1>5. StoredIsTold'
    BY <1>a, <1>b, <1>d, <1>r, Kinds, <1>w DEF IInv, StoredIsTold
  <1>6. QED
    BY <1>1, <1>2, <1>3, <1>4, <1>5 DEF IInv

LEMMA FetchWavesIInv ==
  ASSUME IInv, NEW r \in Waves, FetchWaves(r)
  PROVE  IInv'
  <1>0. /\ pc[r] = "fetch" /\ pc' = [pc EXCEPT ![r] = "address"]
        /\ wxwallet' \in {Key(r), NoKey}
        /\ disturbed' = disturbed \cup InFlight(Waves \ {r}) \cup (IF InFlight(Waves \ {r}) = {} THEN {} ELSE {r})
    BY DEF FetchWaves, Goto, Disturb, Answers, db
  <1>a. UNCHANGED <<xwallet, userId, wallet, seed, writer, future, local, told>>
    BY DEF FetchWaves, Goto, Disturb, Answers, db
  <1>b. /\ pc[r] = "fetch" /\ pc'[r] \in {"address"}
        /\ \A q \in Requests \ {r} : pc'[q] = pc[q]
    BY <1>0, Kinds DEF IInv, TypeOK
  <1>r. \A q \in Requests \ {r} : Reads(q)' <=> Reads(q)
    BY <1>a, <1>b, Kinds DEF Reads
  <1>d. disturbed \subseteq disturbed'
    BY <1>0
  <1>1. TypeOK'
    <2>1. pc' \in [Requests -> {"idle"} \cup Busy \cup Ended]
      BY <1>0, Kinds DEF IInv, TypeOK, Busy, Ended
    <2>3. wxwallet' \in MaybeKey /\ disturbed' \subseteq Requests
      BY <1>0, Kinds DEF IInv, TypeOK, InFlight, MaybeKey
    <2>9. QED
      BY <1>a, <1>b, <2>1, <2>3, Kinds DEF IInv, TypeOK
  <1>2. StepsAgree'
    BY <1>a, <1>b, <1>d, <1>r, Kinds DEF IInv, StepsAgree
  <1>3. WritersAgree'
    BY <1>a, <1>b, <1>d, <1>r, Kinds DEF IInv, WritersAgree
  <1>4. AloneAgrees'
    BY <1>a, <1>b, <1>d, <1>r, Kinds DEF IInv, AloneAgrees, Reads, Busy, Pending
  <1>5. StoredIsTold'
    BY <1>a, <1>b, <1>d, <1>r, Kinds DEF IInv, StoredIsTold
  <1>6. QED
    BY <1>1, <1>2, <1>3, <1>4, <1>5 DEF IInv

LEMMA CrashApiIInv ==
  ASSUME IInv, CrashApi
  PROVE  IInv'
  <1>0. /\ pc' = [r \in Requests |-> IF pc[r] \in Busy THEN "crashed" ELSE pc[r]]
        /\ future' = [r \in Apps |-> IF future[r] \in Pending THEN "crashed" ELSE future[r]]
        /\ xwallet' = NoKey /\ wxwallet' = NoKey /\ userId' = NoKey
    BY DEF CrashApi
  <1>a. UNCHANGED <<wallet, seed, writer, local, told, disturbed>>
    BY DEF CrashApi, db
  <1>b. /\ \A r \in Requests : pc'[r] = IF pc[r] \in Busy THEN "crashed" ELSE pc[r]
        /\ \A r \in Apps : future'[r] = IF future[r] \in Pending THEN "crashed" ELSE future[r]
    BY <1>0, Kinds
  <1>r. \A r \in Requests : ~Reads(r)'
    BY <1>b DEF Reads, Busy, Pending
  <1>1. TypeOK'
    <2>1. pc' \in [Requests -> {"idle"} \cup Busy \cup Ended]
      BY <1>0, Kinds DEF IInv, TypeOK, Busy, Ended
    <2>2. future' \in [Apps -> Pending \cup {"none", "done", "failed", "crashed"}]
      BY <1>0 DEF IInv, TypeOK, Pending
    <2>3. \A r \in Apps : future'[r] \notin Pending
      BY <1>b DEF Pending
    <2>9. QED
      BY <1>0, <1>a, <2>1, <2>2, <2>3 DEF IInv, TypeOK, MaybeKey
  <1>2. StepsAgree'
    BY <1>a, <1>b, Kinds DEF IInv, StepsAgree, Busy, Pending
  <1>3. WritersAgree'
    BY <1>a, <1>b, Kinds DEF IInv, WritersAgree, Busy, Pending
  <1>4. AloneAgrees'
    BY <1>r, Kinds DEF AloneAgrees
  <1>5. StoredIsTold'
    BY <1>a, <1>b, Kinds DEF IInv, StoredIsTold, Busy
  <1>6. QED
    BY <1>1, <1>2, <1>3, <1>4, <1>5 DEF IInv

LEMMA NextIInv == IInv /\ [Next]_vars => IInv'
  <1> SUFFICES ASSUME IInv, [Next]_vars PROVE IInv'
    OBVIOUS
  <1>1. ASSUME NEW r \in Apps, BeginApp(r) \/ FetchApp(r) \/ TellApp(r) \/ FutureReads(r) \/ FutureStores(r)
        PROVE  IInv'
    <2>1. CASE BeginApp(r)
      BY <2>1, BeginAppIInv
    <2>2. CASE FetchApp(r)
      BY <2>2, FetchAppIInv
    <2>3. CASE TellApp(r)
      <3>1. pc[r] = "tell" \/ pc[r] = "tellseed"
        BY <2>3 DEF TellApp
      <3>2. QED
        BY <2>3, <3>1, TellAppAddressIInv, TellAppSeedIInv
    <2>4. CASE FutureReads(r)
      BY <2>4, FutureReadsIInv
    <2>5. CASE FutureStores(r)
      <3>1. \/ Store(r, local[r].id, local[r].wallet, xwallet) /\ future' = [future EXCEPT ![r] = "done"]
            \/ UNCHANGED db /\ future' = [future EXCEPT ![r] = "failed"]
        BY <2>5 DEF FutureStores, Refused
      <3>2. QED
        BY <2>5, <3>1, FutureStoresIInv, FutureStoresRefusedIInv
    <2>6. QED
      BY <1>1, <2>1, <2>2, <2>3, <2>4, <2>5
  <1>2. ASSUME NEW r \in Apis, \/ BeginByApi(r) \/ FetchByApi(r) \/ StampId(r)
                               \/ ReadByApi(r) \/ InsertByApi(r) \/ TellByApi(r)
        PROVE  IInv'
    <2>1. CASE BeginByApi(r)
      BY <2>1, BeginByApiIInv
    <2>2. CASE FetchByApi(r)
      BY <2>2, FetchByApiIInv
    <2>3. CASE StampId(r)
      BY <2>3, StampIdIInv
    <2>4. CASE ReadByApi(r)
      <3>1. pc[r] = "readid" \/ pc[r] = "address"
        BY <2>4 DEF ReadByApi
      <3>2. QED
        BY <2>4, <3>1, ReadByApiIdIInv, ReadByApiAddressIInv
    <2>5. CASE InsertByApi(r)
      <3>1. \/ Store(r, local[r].id, local[r].wallet, xwallet) /\ Goto(r, "tellid")
            \/ UNCHANGED db /\ Goto(r, "error")
        BY <2>5 DEF InsertByApi
      <3>2. QED
        BY <2>5, <3>1, InsertByApiIInv, InsertByApiRefusedIInv
    <2>6. CASE TellByApi(r)
      <3>1. pc[r] = "tellid" \/ pc[r] = "tell"
        BY <2>6 DEF TellByApi
      <3>2. QED
        BY <2>6, <3>1, TellByApiIdIInv, TellByApiAddressIInv
    <2>7. QED
      BY <1>2, <2>1, <2>2, <2>3, <2>4, <2>5, <2>6
  <1>3. ASSUME NEW r \in Waves, BeginWaves(r) \/ FetchWaves(r) \/ ReadWaves(r) \/ StoreWaves(r) \/ TellWaves(r)
        PROVE  IInv'
    <2>1. CASE StoreWaves(r)
      <3>1. Store(r, local[r].id, local[r].wallet, wxwallet) \/ UNCHANGED db
        BY <2>1 DEF StoreWaves, Refused
      <3>2. QED
        BY <2>1, <3>1, StoreWavesIInv, StoreWavesRefusedIInv
    <2>2. QED
      BY <1>3, <2>1, BeginWavesIInv, FetchWavesIInv, ReadWavesIInv, TellWavesIInv
  <1>4. CASE CrashApi
    BY <1>4, CrashApiIInv
  <1>5. CASE UNCHANGED vars
    BY <1>5 DEF vars, atoms, db, IInv, TypeOK, StepsAgree, WritersAgree, AloneAgrees, StoredIsTold, Reads
  <1>6. QED
    BY <1>1, <1>2, <1>3, <1>4, <1>5 DEF Next

(***************************************************************************)
(* The inductive invariant of Wallets: whatever requests run, in whatever  *)
(* order they reset and read the atoms of getwallet.clj and                *)
(* waves/wallet.clj, and wherever the API server restarts between them.    *)
(***************************************************************************)
THEOREM WalletsInvariant == Spec => []IInv
  <1>1. QED
    BY InitIInv, NextIInv, PTL DEF Spec

(***************************************************************************)
(* A row that the request of a user wrote while no other request's keys    *)
(* overlapped holds a wallet together with its own seed, and what the user *)
(* was told of it is what is stored (getwallet.clj:40-52, 70-83), for any  *)
(* number of requests and users.                                           *)
(***************************************************************************)
THEOREM RowsStayRight == Spec => []RowsAreRight
  <1>1. IInv => RowsAreRight
    BY DEF IInv, RowsAreRight
  <1>2. QED
    BY <1>1, WalletsInvariant, PTL

(* What one row may become when row i is stored for request r.             *)
LEMMA StoreKeeps ==
  ASSUME IInv, NEW r \in Apps \cup Waves, NEW x,
         Store(r, local[r].id, local[r].wallet, x), local[r].id = Owner[r],
         \A j \in Rows : writer[j] # r
  PROVE  \A i \in Rows :
           \/ wallet'[i] = wallet[i] /\ seed'[i] = seed[i]
           \/ i \in Users /\ writer'[i] \in Apps \cup Waves
              /\ Owner[writer'[i]] = i /\ writer'[i] # writer[i]
  <1>1. /\ wallet' = [wallet EXCEPT ![Owner[r]] = local[r].wallet]
        /\ seed' = [seed EXCEPT ![Owner[r]] = x] /\ writer' = [writer EXCEPT ![Owner[r]] = r]
    BY DEF Store
  <1>2. Owner[r] \in Rows /\ Owner[r] \in Users
    BY Kinds
  <1>3. QED
    BY <1>1, <1>2 DEF IInv, TypeOK

(***************************************************************************)
(* A wallet is replaced only by a request of the same user that was under  *)
(* way when it was stored and had not written yet; a partner's user keeps  *)
(* its wallet (getwallet.clj:33-52, 65-83, waves/wallet.clj:27-44).        *)
(***************************************************************************)
THEOREM WalletsAreKept == Spec => WalletIsKept
  <1> DEFINE Keeps ==
        \A i \in Rows : seed[i] # NoKey =>
          \/ wallet'[i] = wallet[i] /\ seed'[i] = seed[i]
          \/ i \in Users /\ writer'[i] \in Apps \cup Waves
             /\ Owner[writer'[i]] = i /\ writer'[i] # writer[i]
  <1>1. ASSUME IInv, [Next]_vars PROVE Keeps
    <2>1. CASE UNCHANGED db
      BY <2>1 DEF db
    <2>2. ASSUME NEW r \in Apps, FutureStores(r) PROVE Keeps
      <3>1. (Store(r, local[r].id, local[r].wallet, xwallet) \/ UNCHANGED db) /\ future[r] = "seed"
        BY <2>2 DEF FutureStores, Refused
      <3>2. local[r].id = Owner[r] /\ \A j \in Rows : writer[j] # r
        BY <1>1, <3>1, Kinds DEF IInv, StepsAgree, WritersAgree
      <3>3. QED
        BY <1>1, <2>1, <3>1, <3>2, StoreKeeps
    <2>3. ASSUME NEW r \in Waves, StoreWaves(r) PROVE Keeps
      <3>1. (Store(r, local[r].id, local[r].wallet, wxwallet) \/ UNCHANGED db) /\ pc[r] = "seed"
        BY <2>3 DEF StoreWaves, Refused
      <3>2. local[r].id = Owner[r] /\ \A j \in Rows : writer[j] # r
        BY <1>1, <3>1, Kinds DEF IInv, StepsAgree, WritersAgree
      <3>3. QED
        BY <1>1, <2>1, <3>1, <3>2, StoreKeeps
    <2>4. ASSUME NEW r \in Apis, InsertByApi(r) PROVE Keeps
      <3>1. \/ seed[local[r].id] = NoKey /\ Store(r, local[r].id, local[r].wallet, xwallet)
            \/ UNCHANGED db
        BY <2>4 DEF InsertByApi
      <3>2. CASE seed[local[r].id] = NoKey /\ Store(r, local[r].id, local[r].wallet, xwallet)
        BY <1>1, <3>2 DEF Store, IInv, TypeOK
      <3>3. QED
        BY <2>1, <3>1, <3>2
    <2>5. UNCHANGED db \/ (\E r \in Apps : FutureStores(r)) \/ (\E r \in Waves : StoreWaves(r))
                       \/ (\E r \in Apis : InsertByApi(r))
      BY <1>1 DEF Next, vars, BeginApp, FetchApp, TellApp, FutureReads, BeginByApi, FetchByApi, StampId,
                  ReadByApi, TellByApi, BeginWaves, FetchWaves, ReadWaves, TellWaves, CrashApi
    <2>6. QED
      BY <2>1, <2>2, <2>3, <2>4, <2>5
  <1>2. QED
    BY <1>1, WalletsInvariant, PTL DEF Spec, WalletIsKept
==============================================================================
