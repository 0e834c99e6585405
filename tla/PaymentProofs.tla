--------------------------- MODULE PaymentProofs ---------------------------
(***************************************************************************)
(* Proofs about Payment for every set of requests, users, accounts,        *)
(* amounts, priorities, balances and every combination of failures: the    *)
(* inductive invariant, the safety properties it implies, that a request   *)
(* pays at most once, and that Payment implements PaymentPromise.          *)
(***************************************************************************)
EXTENDS PaymentRefinement, TLAPS

LEMMA InitIInv == Init => IInv
  <1> SUFFICES ASSUME Init PROVE IInv
    OBVIOUS
  <1> USE PaymentAssumption DEF Init
  <1>1. TypeOK
    BY DEF TypeOK, Row
  <1>2. HandlerAgrees /\ ServiceAgrees /\ PoolIsReady
    BY DEF HandlerAgrees, ServiceAgrees, PoolIsReady, Accepted, Settled
  <1>3. ArchiveAgrees /\ ArchiveIsTrue
    BY DEF ArchiveAgrees, ArchiveIsTrue
  <1>4. QED
    BY <1>1, <1>2, <1>3 DEF IInv

-----------------------------------------------------------------------------
(* Steps of a handler that only move pc (and the atom). *)

LEMMA BeginIInv ==
  ASSUME IInv, NEW r \in Requests, BeginPay(r) \/ BeginApi(r)
  PROVE  IInv'
  <1> USE PaymentAssumption DEF IInv, svcVars, chainVars
  <1>1. PICK p \in {"stamp", "denied"} : /\ pc[r] = "idle"
                                         /\ pc' = [pc EXCEPT ![r] = p]
    BY DEF BeginPay, BeginApi, Goto
  <1>2. UNCHANGED <<txid, archive, svc, from, nonce, fate, bal, cnonce, wallet>>
    BY DEF BeginPay, BeginApi
  <1>3. TypeOK'
    BY <1>1, <1>2 DEF TypeOK, Running, Replied
  <1>4. HandlerAgrees'
    BY <1>1, <1>2 DEF TypeOK, HandlerAgrees
  <1>5. ServiceAgrees' /\ PoolIsReady' /\ ArchiveIsTrue'
    BY <1>2 DEF ServiceAgrees, PoolIsReady, ArchiveIsTrue
  <1>6. ArchiveAgrees'
    BY <1>1, <1>2 DEF TypeOK, Row, ArchiveAgrees
  <1>7. QED
    BY <1>3, <1>4, <1>5, <1>6

LEMMA StampIInv ==
  ASSUME IInv, NEW r \in Requests, Stamp(r)
  PROVE  IInv'
  <1> USE PaymentAssumption DEF IInv, Stamp, Goto, svcVars, chainVars
  <1>1. TypeOK'
    BY DEF TypeOK, Running
  <1>2. HandlerAgrees'
    BY DEF TypeOK, HandlerAgrees
  <1>3. ServiceAgrees' /\ PoolIsReady' /\ ArchiveIsTrue'
    BY DEF ServiceAgrees, PoolIsReady, ArchiveIsTrue
  <1>4. ArchiveAgrees'
    BY DEF TypeOK, Row, ArchiveAgrees
  <1>5. QED
    BY <1>1, <1>2, <1>3, <1>4

LEMMA PostIInv ==
  ASSUME IInv, NEW r \in Requests, Post(r)
  PROVE  IInv'
  <1> USE PaymentAssumption DEF IInv, Post, Goto, chainVars
  <1>1. svc[r] = "none" /\ fate[r] = "none"
    BY DEF HandlerAgrees, ServiceAgrees
  <1>2. wallet[Payer[r]] \in Accounts \cup {NoAccount}
    BY DEF TypeOK
  <1>3. TypeOK'
    BY <1>2 DEF TypeOK, Running, Replied, Working
  <1>4. HandlerAgrees'
    BY DEF TypeOK, HandlerAgrees
  <1>5. ServiceAgrees'
    BY <1>1, <1>2 DEF TypeOK, ServiceAgrees
  <1>6. \A s \in Requests : fate[s] # "none" => from'[s] = from[s]
    BY <1>1 DEF TypeOK
  <1>7. PoolIsReady'
    BY <1>6 DEF PoolIsReady
  <1>8. ArchiveAgrees'
    BY DEF TypeOK, Row, ArchiveAgrees
  <1>9. ArchiveIsTrue'
    BY <1>6 DEF TypeOK, Row, ArchiveIsTrue, Accepted, Settled
  <1>10. QED
    BY <1>3, <1>4, <1>5, <1>7, <1>8, <1>9

LEMMA ReceiveIInv ==
  ASSUME IInv, NEW r \in Requests, Receive(r)
  PROVE  IInv'
  <1> USE PaymentAssumption DEF IInv, Receive, Goto, svcVars, chainVars
  <1>1. TypeOK'
    BY DEF TypeOK, Running, Replied
  <1>2. HandlerAgrees'
    BY DEF TypeOK, HandlerAgrees
  <1>3. ServiceAgrees' /\ PoolIsReady' /\ ArchiveIsTrue'
    BY DEF ServiceAgrees, PoolIsReady, ArchiveIsTrue
  <1>4. ArchiveAgrees'
    BY DEF TypeOK, Row, ArchiveAgrees
  <1>5. QED
    BY <1>1, <1>2, <1>3, <1>4

LEMMA ArchiveIInv ==
  ASSUME IInv, NEW r \in Requests, Archive(r)
  PROVE  IInv'
  <1> USE PaymentAssumption DEF IInv, Archive, Goto, svcVars, chainVars
  <1>1. svc[r] = "hash" /\ fate[r] \in Accepted /\ from[r] = wallet[Payer[r]]
    BY DEF HandlerAgrees, ServiceAgrees
  <1>2. ArchiveRow(r) \in Row
    BY DEF TypeOK, Row, ArchiveRow
  <1>3. TypeOK'
    BY <1>2 DEF TypeOK, Replied
  <1>4. HandlerAgrees'
    BY <1>1 DEF TypeOK, HandlerAgrees
  <1>5. ServiceAgrees' /\ PoolIsReady'
    BY DEF ServiceAgrees, PoolIsReady
  <1>6. \A row \in archive : row.hash \in Requests /\ row.hash # r
    BY DEF TypeOK, Row, ArchiveAgrees
  <1>7. ArchiveRow(r).hash = r
    BY DEF ArchiveRow
  <1>8. ArchiveAgrees'
    BY <1>6, <1>7 DEF TypeOK, ArchiveAgrees
  <1>9. ArchiveIsTrue'
    <2>1. CASE IdTaken(txid)
      BY <2>1 DEF ArchiveIsTrue
    <2>2. CASE ~IdTaken(txid)
      <3>1. archive' = archive \cup {ArchiveRow(r)}
        BY <2>2
      <3>2. /\ ArchiveRow(r).sender = from[r]
            /\ ArchiveRow(r).dest = Dest[r]
            /\ ArchiveRow(r).amount = Amount[r]
        BY <1>1 DEF ArchiveRow
      <3>3. QED
        BY <3>1, <3>2, <1>1, <1>6, <1>7 DEF ArchiveIsTrue
    <2>3. QED
      BY <2>1, <2>2
  <1>10. QED
    BY <1>3, <1>4, <1>5, <1>8, <1>9

LEMMA ArchiveFailsIInv ==
  ASSUME IInv, NEW r \in Requests, ArchiveFails(r)
  PROVE  IInv'
  <1> USE PaymentAssumption DEF IInv, ArchiveFails, Goto, svcVars, chainVars
  <1>1. TypeOK'
    BY DEF TypeOK, Replied
  <1>2. HandlerAgrees'
    BY DEF TypeOK, HandlerAgrees
  <1>3. ServiceAgrees' /\ PoolIsReady' /\ ArchiveIsTrue'
    BY DEF ServiceAgrees, PoolIsReady, ArchiveIsTrue
  <1>4. ArchiveAgrees'
    BY DEF TypeOK, Row, ArchiveAgrees
  <1>5. QED
    BY <1>1, <1>2, <1>3, <1>4

LEMMA CrashApiIInv == IInv /\ CrashApi => IInv'
  <1> SUFFICES ASSUME IInv, CrashApi PROVE IInv'
    OBVIOUS
  <1> USE PaymentAssumption DEF IInv, CrashApi, svcVars, chainVars
  <1>1. TypeOK'
    BY DEF TypeOK, Replied
  <1>2. HandlerAgrees'
    BY DEF TypeOK, HandlerAgrees, Running
  <1>3. ServiceAgrees' /\ PoolIsReady' /\ ArchiveIsTrue'
    BY DEF ServiceAgrees, PoolIsReady, ArchiveIsTrue
  <1>4. \A r \in Requests : pc'[r] = "ontheway" <=> pc[r] = "ontheway"
    BY DEF TypeOK, Running
  <1>5. ArchiveAgrees'
    BY <1>4 DEF TypeOK, Row, ArchiveAgrees
  <1>6. QED
    BY <1>1, <1>2, <1>3, <1>5

-----------------------------------------------------------------------------
(* Steps of the wallet service. *)

LEMMA ServiceStepIInv ==
  ASSUME IInv, NEW r \in Requests,
         ReadBalance(r) \/ ReadNonce(r) \/ Answer(r) \/ LinkFails(r)
  PROVE  IInv'
  <1> USE PaymentAssumption DEF IInv, apiVars, chainVars
  <1> USE DEF ReadBalance, ReadNonce, Answer, LinkFails
  <1>1. UNCHANGED <<txid, pc, archive, from, fate, bal, cnonce, wallet>>
    OBVIOUS
  <1>2. svc[r] \in Working
    BY DEF Working
  <1>3. from[r] \in Accounts
    BY <1>2 DEF ServiceAgrees, Working
  <1>4. TypeOK'
    <2>1. \E s \in Working \cup Answered : svc' = [svc EXCEPT ![r] = s]
      BY DEF Working, Answered
    <2>2. nonce' = nonce \/ \E n \in Nat : nonce' = [nonce EXCEPT ![r] = n]
      BY <1>3 DEF TypeOK
    <2>3. svc' \in [Requests -> {"none"} \cup Working \cup Answered]
      BY ONLY <2>1, TypeOK DEF TypeOK
    <2>4. nonce' \in [Requests -> Nat]
      BY ONLY <2>2, TypeOK DEF TypeOK
    <2>5. QED
      BY <1>1, <2>3, <2>4 DEF TypeOK
  <1>5. HandlerAgrees'
    BY <1>1, <1>2 DEF TypeOK, HandlerAgrees, Working
  <1>6. ServiceAgrees'
    <2>1. CASE ReadBalance(r)
      BY <2>1, <1>1 DEF TypeOK, ServiceAgrees, Accepted, Settled
    <2>2. CASE ReadNonce(r)
      BY <2>2, <1>1, <1>3 DEF TypeOK, ServiceAgrees
    <2>3. CASE Answer(r)
      BY <2>3, <1>1 DEF TypeOK, ServiceAgrees, Accepted, Settled
    <2>4. CASE LinkFails(r)
      BY <2>4, <1>1 DEF TypeOK, ServiceAgrees, Working, Accepted, Settled
    <2>5. QED
      BY <2>1, <2>2, <2>3, <2>4
  <1>7. \A s \in Requests : fate[s] # "none" => nonce'[s] = nonce[s]
    BY DEF TypeOK, ServiceAgrees
  <1>8. PoolIsReady'
    BY <1>1, <1>7 DEF PoolIsReady
  <1>9. ArchiveAgrees' /\ ArchiveIsTrue'
    BY <1>1 DEF ArchiveAgrees, ArchiveIsTrue
  <1>10. QED
    BY <1>4, <1>5, <1>6, <1>8, <1>9

LEMMA CrashServiceIInv == IInv /\ CrashService => IInv'
  <1> SUFFICES ASSUME IInv, CrashService PROVE IInv'
    OBVIOUS
  <1> USE PaymentAssumption DEF IInv, CrashService, apiVars, chainVars
  <1>1. TypeOK'
    BY DEF TypeOK, Answered
  <1>2. HandlerAgrees'
    BY DEF TypeOK, HandlerAgrees, Working
  <1>3. ServiceAgrees'
    BY DEF TypeOK, ServiceAgrees, Working
  <1>4. PoolIsReady' /\ ArchiveAgrees' /\ ArchiveIsTrue'
    BY DEF PoolIsReady, ArchiveAgrees, ArchiveIsTrue
  <1>5. QED
    BY <1>1, <1>2, <1>3, <1>4

(* The pool: the nonce read at the best block is the only one that can be  *)
(* admitted, and whoever held it is replaced.                              *)
LEMMA SubmitIInv ==
  ASSUME IInv, NEW r \in Requests, Submit(r)
  PROVE  IInv'
  <1> USE PaymentAssumption DEF IInv, Submit, apiVars
  <1>1. fate[r] = "none" /\ from[r] \in Accounts /\ nonce[r] <= cnonce[from[r]]
    BY DEF ServiceAgrees
  <1>2. fate' \in [Requests -> {"none", "refused"} \cup Accepted]
    BY DEF TypeOK, Accepted, Settled
  <1>3. TypeOK'
    BY <1>2 DEF TypeOK, Working
  <1>4. \A s \in Requests \ {r} :
          /\ fate'[s] = fate[s] \/ (fate[s] = "pool" /\ fate'[s] = "dropped")
          /\ svc'[s] = svc[s]
    BY DEF TypeOK, Rivals
  <1>5. fate'[r] \in {"refused", "pool"} /\ svc'[r] = "sent"
    BY DEF TypeOK
  <1>6. HandlerAgrees'
    BY <1>4, <1>5 DEF HandlerAgrees
  <1>7. ServiceAgrees'
    BY <1>1, <1>4, <1>5 DEF ServiceAgrees, Accepted, Settled
  <1>8. PoolIsReady'
    <2>1. CASE Admissible(r)
      <3>1. nonce[r] = cnonce[from[r]]
        BY <1>1, <2>1 DEF TypeOK, Admissible
      <3>2. \A s \in Requests \ {r} : fate'[s] = "pool" =>
              fate[s] = "pool" /\ from[s] # from[r]
        BY <2>1, <3>1 DEF TypeOK, Rivals, PoolIsReady
      <3>3. QED
        BY <3>1, <3>2 DEF PoolIsReady
    <2>2. CASE ~Admissible(r)
      BY <2>2 DEF TypeOK, PoolIsReady
    <2>3. QED
      BY <2>1, <2>2
  <1>9. ArchiveAgrees'
    BY DEF ArchiveAgrees
  <1>10. ArchiveIsTrue'
    BY <1>1, <1>4 DEF TypeOK, Row, ArchiveIsTrue, Accepted, Settled
  <1>11. QED
    BY <1>3, <1>6, <1>7, <1>8, <1>9, <1>10

-----------------------------------------------------------------------------
(* Steps of the chain: accepted extrinsics stay accepted. *)

LEMMA FateAdvances ==
  ASSUME IInv, UNCHANGED <<txid, pc, archive, svc, from, nonce, wallet>>,
         fate' \in [Requests -> {"none", "refused"} \cup Accepted],
         \A s \in Requests : fate'[s] = fate[s]
                             \/ (fate[s] = "pool" /\ fate'[s] \in Settled),
         cnonce' \in [Accounts -> Nat], bal' \in [Accounts -> Nat],
         \A a \in Accounts : cnonce[a] <= cnonce'[a]
  PROVE  TypeOK' /\ HandlerAgrees' /\ ServiceAgrees' /\ ArchiveAgrees' /\ ArchiveIsTrue'
  <1> USE DEF IInv
  <1>1. TypeOK'
    BY DEF TypeOK
  <1>2. HandlerAgrees' /\ ArchiveAgrees'
    BY DEF HandlerAgrees, ArchiveAgrees
  <1>3. ServiceAgrees'
    BY DEF TypeOK, ServiceAgrees, Accepted, Settled
  <1>4. ArchiveIsTrue'
    BY DEF TypeOK, Row, ArchiveIsTrue, Accepted, Settled
  <1>5. QED
    BY <1>1, <1>2, <1>3, <1>4

LEMMA IncludeIInv ==
  ASSUME IInv, NEW r \in Requests, Include(r)
  PROVE  IInv'
  <1> USE PaymentAssumption DEF IInv, apiVars, svcVars
  <1> DEFINE a == from[r]
             f == IF bal[a] < Fee THEN "dropped"
                  ELSE IF bal[a] - Fee >= Amount[r] THEN "moved" ELSE "failed"
  <1>1. /\ fate[r] = "pool"
        /\ nonce[r] = cnonce[a]
        /\ fate' = [fate EXCEPT ![r] = f]
        /\ cnonce' = IF f = "dropped" THEN cnonce ELSE [cnonce EXCEPT ![a] = @ + 1]
        /\ UNCHANGED <<txid, pc, archive, svc, from, nonce, wallet>>
    BY DEF Include
  <1>2. a \in Accounts
    BY <1>1 DEF ServiceAgrees, TypeOK
  <1>3. f \in Settled
    BY DEF Settled
  <1>4. bal' \in [Accounts -> Nat]
    <2>1. CASE f = "dropped"
      BY <2>1 DEF Include, TypeOK
    <2>2. CASE f = "failed"
      <3>1. bal' = [bal EXCEPT ![a] = @ - Fee] /\ ~(bal[a] < Fee)
        BY <2>2 DEF Include
      <3>2. bal[a] - Fee \in Nat
        BY <1>2, <3>1 DEF TypeOK
      <3>3. QED
        BY <3>1, <3>2 DEF TypeOK
    <2>3. CASE f = "moved"
      <3>1. bal' = Moved(r) /\ ~(bal[a] < Fee) /\ bal[a] - Fee >= Amount[r]
        BY <2>3 DEF Include
      <3>2. bal[a] - (Fee + Amount[r]) \in Nat
        BY <1>2, <3>1 DEF TypeOK
      <3>3. QED
        BY <3>1, <3>2 DEF TypeOK, Moved
    <2>4. QED
      BY <2>1, <2>2, <2>3
  <1>5. cnonce' \in [Accounts -> Nat]
    BY <1>1, <1>2 DEF TypeOK
  <1>6. fate' \in [Requests -> {"none", "refused"} \cup Accepted]
    BY <1>1, <1>3 DEF TypeOK, Accepted
  <1>7. \A s \in Requests : fate'[s] = fate[s]
                            \/ (fate[s] = "pool" /\ fate'[s] \in Settled)
    BY <1>1, <1>3 DEF TypeOK
  <1>8. \A b \in Accounts : cnonce[b] <= cnonce'[b]
    BY <1>1, <1>2 DEF TypeOK
  <1> HIDE DEF f
  <1>9. PoolIsReady'
    <2>1. SUFFICES ASSUME NEW s \in Requests, fate'[s] = "pool"
                   PROVE  /\ nonce[s] = cnonce'[from[s]]
                          /\ \A t \in Requests \ {s} : fate'[t] = "pool" => from[t] # from[s]
      BY <1>1 DEF PoolIsReady
    <2>2. s # r /\ fate[s] = "pool"
      BY <1>1, <1>3, <2>1 DEF TypeOK, Settled
    <2>3. from[s] # a /\ nonce[s] = cnonce[from[s]]
      BY <1>1, <2>2 DEF PoolIsReady
    <2>4. from[s] \in Accounts
      BY <2>2 DEF ServiceAgrees, TypeOK
    <2>5. nonce[s] = cnonce'[from[s]]
      BY <1>1, <2>3, <2>4 DEF TypeOK
    <2>6. \A t \in Requests \ {s} : fate'[t] = "pool" => from[t] # from[s]
      BY <1>1, <1>3, <2>2 DEF TypeOK, PoolIsReady, Settled
    <2>7. QED
      BY <2>5, <2>6
  <1>10. TypeOK' /\ HandlerAgrees' /\ ServiceAgrees' /\ ArchiveAgrees' /\ ArchiveIsTrue'
    BY <1>1, <1>4, <1>5, <1>6, <1>7, <1>8, FateAdvances
  <1>11. QED
    BY <1>9, <1>10

LEMMA ForeignIInv ==
  ASSUME IInv, NEW a \in Accounts, Foreign(a)
  PROVE  IInv'
  <1> USE DEF IInv, apiVars, svcVars
  <1>1. UNCHANGED <<txid, pc, archive, svc, from, nonce, wallet>>
    BY DEF Foreign
  <1>2. PICK spent \in 0 .. bal[a] : bal' = [bal EXCEPT ![a] = @ - spent]
    BY DEF Foreign
  <1>3. bal' \in [Accounts -> Nat]
    BY <1>2 DEF TypeOK
  <1>4. /\ cnonce' = [cnonce EXCEPT ![a] = @ + 1]
        /\ cnonce' \in [Accounts -> Nat]
        /\ \A b \in Accounts : cnonce[b] <= cnonce'[b]
    BY DEF Foreign, TypeOK
  <1>5. fate' = [r \in Requests |->
                   IF fate[r] = "pool" /\ from[r] = a /\ nonce[r] <= cnonce[a]
                   THEN "dropped" ELSE fate[r]]
    BY DEF Foreign
  <1>6. fate' \in [Requests -> {"none", "refused"} \cup Accepted]
    BY <1>5 DEF TypeOK, Accepted, Settled
  <1>7. \A s \in Requests : fate'[s] = fate[s]
                            \/ (fate[s] = "pool" /\ fate'[s] \in Settled)
    BY <1>5 DEF Settled
  <1>8. PoolIsReady'
    <2>1. \A s \in Requests : fate'[s] = "pool" => fate[s] = "pool" /\ from[s] # a
      BY <1>5 DEF TypeOK, PoolIsReady
    <2>2. \A s \in Requests : fate[s] = "pool" => from[s] \in Accounts
      BY DEF ServiceAgrees, TypeOK
    <2>3. QED
      BY <1>1, <1>4, <2>1, <2>2 DEF TypeOK, PoolIsReady
  <1>9. TypeOK' /\ HandlerAgrees' /\ ServiceAgrees' /\ ArchiveAgrees' /\ ArchiveIsTrue'
    BY <1>1, <1>3, <1>4, <1>6, <1>7, FateAdvances
  <1>10. QED
    BY <1>8, <1>9

-----------------------------------------------------------------------------
LEMMA NextIInv == IInv /\ [Next]_vars => IInv'
  <1> SUFFICES ASSUME IInv, [Next]_vars PROVE IInv'
    OBVIOUS
  <1>1. CASE \E r \in Requests : Handler(r)
    BY <1>1, BeginIInv, StampIInv, PostIInv, ReceiveIInv, ArchiveIInv,
       ArchiveFailsIInv DEF Handler
  <1>2. CASE \E r \in Requests : Service(r)
    BY <1>2, ServiceStepIInv, SubmitIInv DEF Service
  <1>3. CASE \E r \in Requests : Include(r)
    BY <1>3, IncludeIInv
  <1>4. CASE \E a \in Accounts : Foreign(a)
    BY <1>4, ForeignIInv
  <1>5. CASE CrashApi \/ CrashService
    BY <1>5, CrashApiIInv, CrashServiceIInv
  <1>6. CASE UNCHANGED vars
    BY <1>6 DEF vars, apiVars, svcVars, chainVars, IInv, TypeOK, HandlerAgrees,
       ServiceAgrees, PoolIsReady, ArchiveAgrees, ArchiveIsTrue
  <1>7. QED
    BY <1>1, <1>2, <1>3, <1>4, <1>5, <1>6 DEF Next

(***************************************************************************)
(* The inductive invariant holds of every behaviour: the distances between *)
(* handler, wallet service, node and archive that pay.clj and the Rust     *)
(* service allow.                                                          *)
(***************************************************************************)
THEOREM Invariance == Spec => []IInv
  BY InitIInv, NextIInv, PTL DEF Spec

(***************************************************************************)
(* Every variable keeps its type; in particular no balance of the model    *)
(* goes below zero, whichever transfers the balance check lets through     *)
(* (balances.rs:170).                                                      *)
(***************************************************************************)
THEOREM TypeCorrect == Spec => []TypeOK
  <1>1. IInv => TypeOK
    BY DEF IInv
  <1>2. QED
    BY <1>1, Invariance, PTL

(***************************************************************************)
(* The nonce rule of create_signed leaves no gap and no rival in the pool. *)
(***************************************************************************)
THEOREM PoolAlwaysReady == Spec => []PoolIsReady
  <1>1. IInv => PoolIsReady
    BY DEF IInv
  <1>2. QED
    BY <1>1, Invariance, PTL

(***************************************************************************)
(* Every row of TRXARCHIVE is the truth about an accepted extrinsic, and   *)
(* "on the way" is only said of an archived one (pay.clj:107-116).         *)
(***************************************************************************)
THEOREM ArchiveAlwaysTrue == Spec => [](ArchiveIsTrue /\ OnTheWayIsArchived)
  <1>1. IInv => ArchiveIsTrue /\ OnTheWayIsArchived
    BY DEF IInv, HandlerAgrees, ServiceAgrees, ArchiveAgrees, OnTheWayIsArchived
  <1>2. QED
    BY <1>1, Invariance, PTL

(***************************************************************************)
(* What the user is told was refused never moves (pay.clj:104, 122).       *)
(***************************************************************************)
THEOREM RefusalIsFinal == Spec => []RefusedNeverMoves
  <1>1. IInv => RefusedNeverMoves
    BY DEF IInv, HandlerAgrees, ServiceAgrees, RefusedNeverMoves, Accepted, Settled
  <1>2. QED
    BY <1>1, Invariance, PTL

-----------------------------------------------------------------------------
(* What a step does to the fate of each request. *)

LEMMA FateStep ==
  ASSUME IInv, [Next]_vars, NEW r \in Requests
  PROVE  /\ fate[r] = "pool" => fate'[r] \in Accepted
         /\ fate[r] \in Settled => fate'[r] = fate[r]
  <1> USE DEF Accepted, Settled
  <1>1. CASE UNCHANGED fate
    BY <1>1
  <1>2. CASE \E s \in Requests : Submit(s)
    <2>1. PICK s \in Requests : Submit(s)
      BY <1>2
    <2>2. fate[s] = "none"
      BY <2>1 DEF Submit, IInv, ServiceAgrees
    <2>3. QED
      BY <2>1, <2>2 DEF Submit, Rivals, IInv, TypeOK
  <1>3. CASE \E s \in Requests : Include(s)
    BY <1>3 DEF Include, IInv, TypeOK
  <1>4. CASE \E a \in Accounts : Foreign(a)
    BY <1>4 DEF Foreign, IInv, TypeOK
  <1>5. QED
    BY <1>1, <1>2, <1>3, <1>4 DEF Next, Handler, Service, BeginPay, BeginApi, Stamp,
       Post, Receive, Archive, ArchiveFails, CrashApi, ReadBalance, ReadNonce, Answer,
       LinkFails, CrashService, vars, chainVars

(***************************************************************************)
(* A request pays at most once: pay! and transfer_balance submit one       *)
(* extrinsic per request and never a second one.                           *)
(***************************************************************************)
THEOREM PaysAtMostOnce == Spec => PaidAtMostOnce
  <1>1. IInv /\ [Next]_vars =>
          [\A r \in Requests :
             /\ fate[r] = "pool" => fate'[r] \in Accepted
             /\ fate[r] \in Settled => fate'[r] = fate[r]]_vars
    BY FateStep
  <1>2. QED
    BY <1>1, Invariance, PTL DEF Spec, PaidAtMostOnce

-----------------------------------------------------------------------------
(* Payment implements PaymentPromise. *)

Views == <<chainBar, toldBar, booksBar>>

LEMMA InitPromise == Init => Promise!Init
  BY DEF Init, Promise!Init, chainBar, toldBar, booksBar, ChainView, ToldView

LEMMA HandlerPromise ==
  ASSUME IInv, NEW r \in Requests, Handler(r)
  PROVE  [Promise!Next]_Views
  <1> USE DEF IInv, Goto, chainBar, toldBar, booksBar, ChainView, ToldView, Views
  <1>1. CASE BeginPay(r) \/ BeginApi(r)
    <2>1. UNCHANGED <<chainBar, booksBar>> /\ svc' = svc
      BY <1>1 DEF BeginPay, BeginApi, svcVars, chainVars
    <2>2. PICK p \in {"stamp", "denied"} : pc[r] = "idle" /\ pc' = [pc EXCEPT ![r] = p]
      BY <1>1 DEF BeginPay, BeginApi
    <2>3. CASE p = "stamp"
      BY <2>1, <2>2, <2>3 DEF TypeOK
    <2>4. CASE p = "denied"
      <3>1. fate[r] = "none"
        BY <2>2 DEF HandlerAgrees, ServiceAgrees
      <3>2. Promise!Refuse(r)
        BY <2>1, <2>2, <2>4, <3>1 DEF TypeOK, Promise!Refuse
      <3>3. QED
        BY <3>2 DEF Promise!Next
    <2>5. QED
      BY <2>2, <2>3, <2>4
  <1>2. CASE Stamp(r)
    BY <1>2 DEF Stamp, TypeOK, svcVars, chainVars
  <1>3. CASE Post(r)
    <2>1. UNCHANGED <<chainBar, booksBar>>
      BY <1>3 DEF Post, chainVars
    <2>2. UNCHANGED toldBar
      BY <1>3 DEF Post, TypeOK
    <2>3. QED
      BY <2>1, <2>2
  <1>4. CASE Receive(r)
    <2>1. UNCHANGED <<chainBar, booksBar>> /\ svc' = svc
      BY <1>4 DEF Receive, svcVars, chainVars
    <2>2. CASE svc[r] \in {"hash", "gone"}
      <3>1. UNCHANGED toldBar
        BY <1>4, <2>1, <2>2 DEF Receive, TypeOK
      <3>2. QED
        BY <2>1, <3>1
    <2>3. CASE svc[r] = "error"
      <3>1. fate[r] \in {"none", "refused"}
        BY <2>3 DEF ServiceAgrees, TypeOK
      <3>2. pc[r] = "wait" /\ pc' = [pc EXCEPT ![r] = "error"]
        BY <1>4, <2>3 DEF Receive
      <3>3. toldBar' = [toldBar EXCEPT ![r] = "refused"]
        BY <2>1, <2>3, <3>2 DEF TypeOK
      <3>4. toldBar[r] = "none" /\ chainBar[r] = "none"
        BY <3>1, <3>2
      <3>5. Promise!Refuse(r)
        BY <2>1, <3>3, <3>4 DEF Promise!Refuse
      <3>6. QED
        BY <3>5 DEF Promise!Next
    <2>4. CASE svc[r] = "cut"
      <3>1. pc[r] = "wait" /\ pc' = [pc EXCEPT ![r] = "error"]
        BY <1>4, <2>4 DEF Receive
      <3>2. toldBar' = [toldBar EXCEPT ![r] = "unsure"]
        BY <2>1, <2>4, <3>1 DEF TypeOK
      <3>3. toldBar[r] = "none"
        BY <3>1
      <3>4. Promise!Hedge(r)
        BY <2>1, <3>2, <3>3 DEF Promise!Hedge
      <3>5. QED
        BY <3>4 DEF Promise!Next
    <2>5. QED
      BY <1>4, <2>2, <2>3, <2>4 DEF Receive
  <1>5. CASE Archive(r)
    <2>1. UNCHANGED chainBar /\ svc' = svc
      BY <1>5 DEF Archive, svcVars, chainVars
    <2>2. CASE IdTaken(txid)
      BY <1>5, <2>1, <2>2 DEF Archive, TypeOK
    <2>3. CASE ~IdTaken(txid)
      <3>1. fate[r] \in Accepted /\ pc[r] = "archive"
        BY <1>5 DEF Archive, HandlerAgrees, ServiceAgrees
      <3>2. r \notin booksBar
        BY <3>1 DEF ArchiveAgrees
      <3>3. ArchiveRow(r).hash = r
        BY DEF ArchiveRow
      <3>4. booksBar' = booksBar \cup {r}
        BY <1>5, <2>3, <3>3 DEF Archive
      <3>5. toldBar' = [toldBar EXCEPT ![r] = "ontheway"] /\ toldBar[r] = "none"
        <4>1. pc' = [pc EXCEPT ![r] = "ontheway"] /\ UNCHANGED svc
          BY ONLY Archive(r), ~IdTaken(txid), <1>5, <2>3 DEF Archive, Goto, svcVars
        <4>2. QED
          BY <2>1, <3>1, <4>1 DEF TypeOK
      <3>6. chainBar[r] # "none"
        BY <3>1 DEF Accepted, Settled
      <3>7. Promise!Confirm(r)
        BY <2>1, <3>2, <3>4, <3>5, <3>6 DEF Promise!Confirm
      <3>8. QED
        BY <3>7 DEF Promise!Next
    <2>4. QED
      BY <2>2, <2>3
  <1>6. CASE ArchiveFails(r)
    BY <1>6 DEF ArchiveFails, TypeOK, svcVars, chainVars
  <1>7. QED
    BY <1>1, <1>2, <1>3, <1>4, <1>5, <1>6 DEF Handler

(* While the wallet service works on a request its user was told nothing.  *)
LEMMA WorkingUntold ==
  ASSUME IInv, NEW r \in Requests, svc[r] \in Working
  PROVE  pc[r] \notin {"ontheway", "denied", "error"}
  BY DEF IInv, HandlerAgrees, Working

LEMMA ServicePromise ==
  ASSUME IInv, NEW r \in Requests, Service(r)
  PROVE  [Promise!Next]_Views
  <1> USE DEF IInv, chainBar, toldBar, booksBar, ChainView, ToldView, Views
  <1>1. svc[r] \in Working /\ UNCHANGED <<pc, archive>>
    BY DEF Service, ReadBalance, ReadNonce, Submit, Answer, LinkFails, Working, apiVars
  <1>2. \A s \in Requests : s = r \/ svc'[s] = svc[s]
    BY DEF Service, ReadBalance, ReadNonce, Submit, Answer, LinkFails, TypeOK
  <1>3. UNCHANGED <<toldBar, booksBar>>
    BY <1>1, <1>2, WorkingUntold
  <1>4. CASE Submit(r)
    <2>1. fate[r] = "none" /\ toldBar[r] = "none"
      BY <1>1, <1>4, WorkingUntold DEF Submit, ServiceAgrees
    <2>2. CASE Admissible(r)
      <3>1. PICK D \in SUBSET Promise!Pending : D = Rivals(r)
        BY DEF Rivals, Promise!Pending
      <3>2. fate' = [s \in Requests |-> IF s = r THEN "pool"
                                        ELSE IF s \in D THEN "dropped"
                                        ELSE fate[s]]
        BY <1>4, <2>2, <3>1 DEF Submit
      <3>3. Promise!Accept(r, D)
        BY <1>3, <2>1, <3>2 DEF Promise!Accept
      <3>4. QED
        BY <3>3 DEF Promise!Next
    <2>3. CASE ~Admissible(r)
      BY <1>3, <1>4, <2>1, <2>3 DEF Submit, TypeOK
    <2>4. QED
      BY <2>2, <2>3
  <1>5. CASE ~Submit(r)
    BY <1>3, <1>5 DEF Service, ReadBalance, ReadNonce, Answer, LinkFails, chainVars
  <1>6. QED
    BY <1>4, <1>5

LEMMA ChainPromise ==
  ASSUME IInv, (\E r \in Requests : Include(r)) \/ (\E a \in Accounts : Foreign(a))
  PROVE  [Promise!Next]_Views
  <1> USE DEF IInv, chainBar, toldBar, booksBar, ChainView, ToldView, Views
  <1>1. UNCHANGED <<toldBar, booksBar>>
    BY DEF Include, Foreign, apiVars, svcVars
  <1>2. CASE \E r \in Requests : Include(r)
    <2>1. PICK r \in Requests : Include(r)
      BY <1>2
    <2>2. PICK f \in Settled : fate[r] = "pool" /\ fate' = [fate EXCEPT ![r] = f]
      BY <2>1 DEF Include, Settled
    <2>3. CASE f = "moved"
      <3>1. chainBar' = [chainBar EXCEPT ![r] = "moved"] /\ chainBar[r] = "accepted"
        BY <2>2, <2>3 DEF TypeOK
      <3>2. Promise!Move(r)
        BY <1>1, <3>1 DEF Promise!Move
      <3>3. QED
        BY <3>2 DEF Promise!Next
    <2>4. CASE f # "moved"
      <3>1. f \in {"failed", "dropped"}
        BY <2>4 DEF Settled
      <3>2. {r} \in SUBSET Promise!Pending
        BY <2>2 DEF Promise!Pending
      <3>3. Promise!GiveUp({r})
        BY <1>1, <2>2, <3>1 DEF TypeOK, Promise!GiveUp
      <3>4. QED
        BY <3>2, <3>3 DEF Promise!Next
    <2>5. QED
      BY <2>3, <2>4
  <1>3. CASE \E a \in Accounts : Foreign(a)
    <2>1. PICK a \in Accounts : Foreign(a)
      BY <1>3
    <2>2. PICK D \in SUBSET Promise!Pending :
                 D = {r \in Requests : fate[r] = "pool" /\ from[r] = a /\ nonce[r] <= cnonce[a]}
      BY DEF Promise!Pending
    <2>3. fate' = [r \in Requests |-> IF r \in D THEN "dropped" ELSE fate[r]]
      BY <2>1, <2>2 DEF Foreign
    <2>4. Promise!GiveUp(D)
      BY <1>1, <2>3 DEF Promise!GiveUp
    <2>5. QED
      BY <2>4 DEF Promise!Next
  <1>4. QED
    BY <1>2, <1>3

LEMMA CrashPromise ==
  ASSUME IInv, CrashApi \/ CrashService
  PROVE  UNCHANGED Views
  <1> USE DEF chainBar, toldBar, booksBar, ChainView, ToldView, Views, Running
  <1>1. UNCHANGED <<chainBar, booksBar>>
    BY DEF CrashApi, CrashService, apiVars, chainVars
  <1>2. UNCHANGED toldBar
    <2>1. CASE CrashApi
      BY <2>1 DEF CrashApi, svcVars
    <2>2. CASE CrashService
      BY <2>2, WorkingUntold DEF CrashService, apiVars
    <2>3. QED
      BY <2>1, <2>2
  <1>3. QED
    BY <1>1, <1>2

(***************************************************************************)
(* The handlers of pay.clj, the wallet service and TRXARCHIVE implement    *)
(* PaymentPromise: accepted at most once, refused for good, confirmed only *)
(* when on record.                                                         *)
(***************************************************************************)
THEOREM PaymentKeepsPromise == Spec => KeepsPromise
  <1>1. IInv /\ [Next]_vars => [Promise!Next]_Views
    <2> SUFFICES ASSUME IInv, [Next]_vars PROVE [Promise!Next]_Views
      OBVIOUS
    <2>1. CASE UNCHANGED vars
      BY <2>1 DEF vars, apiVars, svcVars, chainVars, Views, chainBar, toldBar, booksBar
    <2>2. CASE Next
      BY <2>2, HandlerPromise, ServicePromise, ChainPromise, CrashPromise DEF Next
    <2>3. QED
      BY <2>1, <2>2
  <1>2. QED
    BY <1>1, InitPromise, Invariance, PTL
    DEF Spec, KeepsPromise, Promise!Spec, Promise!pvars, Views
=============================================================================
