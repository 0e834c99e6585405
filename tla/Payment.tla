------------------------------ MODULE Payment ------------------------------
(***************************************************************************)
(* One payment from the HTTP handler of the API server (operation/pay.clj, *)
(* pay! and pay-by-api) through the wallet service (Rust, /transfer ->     *)
(* transfer_balance -> subxt) to the node's pool and the chain, and back   *)
(* into the TRXARCHIVE table.                                              *)
(*                                                                         *)
(* Every request is a thread of the API server.  It shares with the others *)
(* the namespace-level atom txid, the database and the chain; no lock and  *)
(* no transaction joins its steps.  A request names itself: the UUID that  *)
(* request r stores in txid, and the hash of the extrinsic the wallet      *)
(* service signs for r, are both written r.                                *)
(***************************************************************************)
EXTENDS Naturals, FiniteSets

CONSTANTS
  Requests,     \* payment requests, each sent once
  Users,        \* rows of USERS
  Accounts,     \* addresses on the chain
  NoId,         \* the initial content of the atom txid
  NoAccount,    \* a NULL wallet
  ByApi,        \* the requests that reach pay-by-api, the others reach pay!
  Payer, Dest, Amount,  \* what each request asks for
  Priority,     \* pool priority of the extrinsic signed for each request
  Fee,          \* fee the chain takes for one transfer
  Wallets,      \* the wallet columns Init starts from
  InitBalance,  \* free balance of every account at the start
  MaxForeign,   \* bound: other programs use an account below this nonce only
  Faults        \* failures that may happen: a subset of FaultKinds

FaultKinds == {"api", "service", "link", "db", "foreign"}

ASSUME PaymentAssumption ==
  /\ NoId \notin Requests
  /\ NoAccount \notin Accounts
  /\ ByApi \subseteq Requests
  /\ Payer \in [Requests -> Users]
  /\ Dest \in [Requests -> Accounts]
  /\ Amount \in [Requests -> Nat]
  /\ Priority \in [Requests -> Nat]
  /\ Fee \in Nat
  /\ Wallets \subseteq [Users -> Accounts \cup {NoAccount}]
  /\ InitBalance \in [Accounts -> Nat]
  /\ MaxForeign \in Nat
  /\ Faults \subseteq FaultKinds

VARIABLES
  txid,      \* the atom pay.clj:17, shared by every thread
  wallet,    \* USERS.WALLET (SEED is written by the same statement)
  pc,        \* where each request is in its handler, or how it ended
  svc,       \* where the wallet service is with it, or what it answered
  from,      \* account of the seed that was sent to the wallet service
  nonce,     \* nonce the wallet service signed with
  fate,      \* what the node did with the extrinsic
  bal,       \* free balance of each account at the best block
  cnonce,    \* nonce of each account at the best block
  archive    \* TRXARCHIVE

apiVars   == <<txid, pc, archive>>
svcVars   == <<svc, from, nonce>>
chainVars == <<fate, bal, cnonce>>
vars      == <<apiVars, svcVars, chainVars, wallet>>

(***************************************************************************)
(* A handler ends with a reply ("denied": credentials or PIN; "error": the *)
(* text the wallet service returned; "ontheway"), with a log line and no   *)
(* body ("blank": before anything was stored, "unsaved": the INSERT        *)
(* failed), or with the server ("crashed").                                *)
(***************************************************************************)
Running  == {"stamp", "post", "wait", "archive"}
Replied  == {"denied", "error", "ontheway", "blank", "unsaved", "crashed"}

Working  == {"recv", "funded", "signed", "sent"}
Answered == {"hash", "error", "cut", "gone"}

Settled  == {"moved", "failed", "dropped"}
Accepted == {"pool"} \cup Settled

Row == [id : Requests \cup {NoId}, hash : Requests,
        sender : Accounts \cup {NoAccount}, dest : Accounts, amount : Nat]

TypeOK ==
  /\ txid \in Requests \cup {NoId}
  /\ wallet \in [Users -> Accounts \cup {NoAccount}]
  /\ pc \in [Requests -> {"idle"} \cup Running \cup Replied]
  /\ svc \in [Requests -> {"none"} \cup Working \cup Answered]
  /\ from \in [Requests -> Accounts \cup {NoAccount}]
  /\ nonce \in [Requests -> Nat]
  /\ fate \in [Requests -> {"none", "refused"} \cup Accepted]
  /\ bal \in [Accounts -> Nat]
  /\ cnonce \in [Accounts -> Nat]
  /\ archive \subseteq Row

Init ==
  /\ txid = NoId
  /\ wallet \in Wallets
  /\ pc = [r \in Requests |-> "idle"]
  /\ svc = [r \in Requests |-> "none"]
  /\ from = [r \in Requests |-> NoAccount]
  /\ nonce = [r \in Requests |-> 0]
  /\ fate = [r \in Requests |-> "none"]
  /\ bal = InitBalance
  /\ cnonce = [a \in Accounts |-> 0]
  /\ archive = {}

-----------------------------------------------------------------------------
(* The API server. *)

Goto(r, next) == pc' = [pc EXCEPT ![r] = next]

(* pay!: the session token names a user of the database and the PIN's hash *)
(* matches, or the request is turned away.                                 *)
BeginPay(r) ==
  /\ r \notin ByApi
  /\ pc[r] = "idle"
  /\ \E credentialsMatch \in BOOLEAN :
       Goto(r, IF credentialsMatch THEN "stamp" ELSE "denied")
  /\ UNCHANGED <<txid, archive, svcVars, chainVars, wallet>>

(* pay-by-api: the key and its secret match a row of APIACC. *)
BeginApi(r) ==
  /\ r \in ByApi
  /\ pc[r] = "idle"
  /\ \E keysMatch \in BOOLEAN : Goto(r, IF keysMatch THEN "stamp" ELSE "denied")
  /\ UNCHANGED <<txid, archive, svcVars, chainVars, wallet>>

(* (reset! txid (UUID/randomUUID)) *)
Stamp(r) ==
  /\ pc[r] = "stamp"
  /\ txid' = r
  /\ Goto(r, "post")
  /\ UNCHANGED <<archive, svcVars, chainVars, wallet>>

(* The seed is read and decrypted and the transfer is posted.  Decrypting  *)
(* the NULL seed of a user without a wallet throws.                        *)
Post(r) ==
  /\ pc[r] = "post"
  /\ \/ /\ wallet[Payer[r]] = NoAccount
        /\ Goto(r, "blank")
        /\ UNCHANGED <<svc, from>>
     \/ /\ wallet[Payer[r]] # NoAccount
        /\ Goto(r, "wait")
        /\ svc' = [svc EXCEPT ![r] = "recv"]
        /\ from' = [from EXCEPT ![r] = wallet[Payer[r]]]
  /\ UNCHANGED <<txid, archive, nonce, chainVars, wallet>>

(* Mutant: the reply is not tested for a hash. *)
ReceiveUntested(r) ==
  /\ pc[r] = "wait"
  /\ \/ svc[r] \in {"hash", "error", "cut"} /\ Goto(r, "archive")
     \/ svc[r] = "gone" /\ Goto(r, "blank")
  /\ UNCHANGED <<txid, archive, svcVars, chainVars, wallet>>

(* Mutant: a broken connection is not noticed. *)
ReceiveForever(r) ==
  /\ pc[r] = "wait"
  /\ \/ svc[r] = "hash" /\ Goto(r, "archive")
     \/ svc[r] \in {"error", "cut"} /\ Goto(r, "error")
  /\ UNCHANGED <<txid, archive, svcVars, chainVars, wallet>>

(* The reply of the wallet service: a JSON object with a hash, a JSON      *)
(* string, or a dead connection, which clj-http throws.                    *)
Receive(r) ==
  /\ pc[r] = "wait"
  /\ \/ svc[r] = "hash" /\ Goto(r, "archive")
     \/ svc[r] \in {"error", "cut"} /\ Goto(r, "error")
     \/ svc[r] = "gone" /\ Goto(r, "blank")
  /\ UNCHANGED <<txid, archive, svcVars, chainVars, wallet>>

ArchiveRow(r) ==
  [id |-> txid, hash |-> r, sender |-> wallet[Payer[r]],
   dest |-> Dest[r], amount |-> Amount[r]]

IdTaken(id) == \E row \in archive : row.id = id

(* Mutant: the failed INSERT is ignored. *)
ArchiveIgnored(r) ==
  /\ pc[r] = "archive"
  /\ Goto(r, "ontheway")
  /\ archive' = IF IdTaken(txid) THEN archive ELSE archive \cup {ArchiveRow(r)}
  /\ UNCHANGED <<txid, svcVars, chainVars, wallet>>

(* INSERT INTO TRXARCHIVE under the id the atom holds now; a duplicate     *)
(* primary key throws, and the handler logs and returns nothing.           *)
Archive(r) ==
  /\ pc[r] = "archive"
  /\ IF IdTaken(txid)
     THEN Goto(r, "unsaved") /\ UNCHANGED archive
     ELSE Goto(r, "ontheway") /\ archive' = archive \cup {ArchiveRow(r)}
  /\ UNCHANGED <<txid, svcVars, chainVars, wallet>>

(* The database refuses the INSERT. *)
ArchiveFails(r) ==
  /\ "db" \in Faults
  /\ pc[r] = "archive"
  /\ Goto(r, "unsaved")
  /\ UNCHANGED <<txid, archive, svcVars, chainVars, wallet>>

(* The API server stops and restarts: its threads and atoms are gone. *)
CrashApi ==
  /\ "api" \in Faults
  /\ \E r \in Requests : pc[r] \in Running
  /\ pc' = [r \in Requests |-> IF pc[r] \in Running THEN "crashed" ELSE pc[r]]
  /\ txid' = NoId
  /\ UNCHANGED <<archive, svcVars, chainVars, wallet>>

-----------------------------------------------------------------------------
(* The wallet service. *)

(* transfer_balance: the free balance at the best block must exceed the    *)
(* amount, "Inefficient balance" otherwise.                                *)
ReadBalance(r) ==
  /\ svc[r] = "recv"
  /\ svc' = [svc EXCEPT ![r] = IF bal[from[r]] <= Amount[r] THEN "error" ELSE "funded"]
  /\ UNCHANGED <<from, nonce, apiVars, chainVars, wallet>>

(* Mutant: the last nonce used is taken for the next one. *)
ReadNonceLast(r) ==
  /\ svc[r] = "funded"
  /\ svc' = [svc EXCEPT ![r] = "signed"]
  /\ nonce' = [nonce EXCEPT ![r] = cnonce[from[r]] - 1]
  /\ UNCHANGED <<from, apiVars, chainVars, wallet>>

(* Mutant: the signer's nonce is incremented before it is used. *)
ReadNonceAhead(r) ==
  /\ svc[r] = "funded"
  /\ svc' = [svc EXCEPT ![r] = "signed"]
  /\ nonce' = [nonce EXCEPT ![r] = cnonce[from[r]] + 1]
  /\ UNCHANGED <<from, apiVars, chainVars, wallet>>

(* create_signed: the signer carries no nonce, so the account's nonce at   *)
(* the best block is fetched; the pool is not consulted.                   *)
ReadNonce(r) ==
  /\ svc[r] = "funded"
  /\ svc' = [svc EXCEPT ![r] = "signed"]
  /\ nonce' = [nonce EXCEPT ![r] = cnonce[from[r]]]
  /\ UNCHANGED <<from, apiVars, chainVars, wallet>>

(* The pool's verdict on a new extrinsic (external): outdated or unable to *)
(* pay its fee, too low a priority to replace a rival of the same nonce,   *)
(* or admitted.                                                            *)
Rivals(r) == {s \in Requests : /\ fate[s] = "pool"
                               /\ from[s] = from[r]
                               /\ nonce[s] = nonce[r]}
Admissible(r) ==
  /\ nonce[r] >= cnonce[from[r]]
  /\ bal[from[r]] >= Fee
  /\ \A s \in Rivals(r) : Priority[r] > Priority[s]

(* author_submitExtrinsic *)
Submit(r) ==
  /\ svc[r] = "signed"
  /\ svc' = [svc EXCEPT ![r] = "sent"]
  /\ fate' = IF Admissible(r)
             THEN [s \in Requests |-> IF s = r THEN "pool"
                                      ELSE IF s \in Rivals(r) THEN "dropped"
                                      ELSE fate[s]]
             ELSE [fate EXCEPT ![r] = "refused"]
  /\ UNCHANGED <<from, nonce, bal, cnonce, apiVars, wallet>>

(* Mutant: an extrinsic that is not yet in a block is answered as an error. *)
AnswerImpatient(r) ==
  /\ svc[r] = "sent"
  /\ svc' = [svc EXCEPT ![r] = IF fate[r] \in {"refused", "pool"} THEN "error" ELSE "hash"]
  /\ UNCHANGED <<from, nonce, apiVars, chainVars, wallet>>

(* The node's answer becomes the body of a 200 reply: the hash or the      *)
(* error text.                                                             *)
Answer(r) ==
  /\ svc[r] = "sent"
  /\ svc' = [svc EXCEPT ![r] = IF fate[r] = "refused" THEN "error" ELSE "hash"]
  /\ UNCHANGED <<from, nonce, apiVars, chainVars, wallet>>

(* Mutant: a submission without an answer is signed and sent again. *)
LinkRetried(r) ==
  /\ "link" \in Faults
  /\ svc[r] \in Working
  /\ svc' = [svc EXCEPT ![r] = IF svc[r] = "sent" THEN "funded" ELSE "error"]
  /\ UNCHANGED <<from, nonce, apiVars, chainVars, wallet>>

(* The connection to the node breaks.  The service answers an error text   *)
(* in every case, also when the extrinsic had been sent.                   *)
LinkFails(r) ==
  /\ "link" \in Faults
  /\ svc[r] \in Working
  /\ svc' = [svc EXCEPT ![r] = IF svc[r] = "sent" THEN "cut" ELSE "error"]
  /\ UNCHANGED <<from, nonce, apiVars, chainVars, wallet>>

(* The wallet service stops: its callers see a dead connection. *)
CrashService ==
  /\ "service" \in Faults
  /\ \E r \in Requests : svc[r] \in Working
  /\ svc' = [r \in Requests |-> IF svc[r] \in Working THEN "gone" ELSE svc[r]]
  /\ UNCHANGED <<from, nonce, apiVars, chainVars, wallet>>

-----------------------------------------------------------------------------
(* The chain (external). *)

(* The balances after r's transfer; a and Dest[r] may be the same account. *)
Moved(r) ==
  [x \in Accounts |->
     (IF x = from[r] THEN bal[x] - (Fee + Amount[r]) ELSE bal[x])
     + (IF x = Dest[r] THEN Amount[r] ELSE 0)]

(* A block applies a pooled extrinsic: it is dropped when its fee cannot   *)
(* be paid, else the fee and the nonce are taken and the transfer moves    *)
(* the amount or fails.                                                    *)
Include(r) ==
  LET a == from[r]
      f == IF bal[a] < Fee THEN "dropped"
           ELSE IF bal[a] - Fee >= Amount[r] THEN "moved" ELSE "failed"
  IN /\ fate[r] = "pool"
     /\ nonce[r] = cnonce[a]
     /\ fate' = [fate EXCEPT ![r] = f]
     /\ cnonce' = IF f = "dropped" THEN cnonce ELSE [cnonce EXCEPT ![a] = @ + 1]
     /\ \/ f = "dropped" /\ UNCHANGED bal
        \/ f = "failed" /\ bal' = [bal EXCEPT ![a] = @ - Fee]
        \/ f = "moved" /\ bal' = Moved(r)
     /\ UNCHANGED <<apiVars, svcVars, wallet>>

(* The user holds the mnemonic too: another program spends from the        *)
(* account, and the pool drops what became outdated.                       *)
Foreign(a) ==
  /\ "foreign" \in Faults
  /\ cnonce[a] < MaxForeign
  /\ \E spent \in 0 .. bal[a] : bal' = [bal EXCEPT ![a] = @ - spent]
  /\ cnonce' = [cnonce EXCEPT ![a] = @ + 1]
  /\ fate' = [r \in Requests |->
                IF fate[r] = "pool" /\ from[r] = a /\ nonce[r] <= cnonce[a]
                THEN "dropped" ELSE fate[r]]
  /\ UNCHANGED <<apiVars, svcVars, wallet>>

-----------------------------------------------------------------------------
Handler(r) == BeginPay(r) \/ BeginApi(r) \/ Stamp(r) \/ Post(r) \/ Receive(r)
              \/ Archive(r) \/ ArchiveFails(r)
Service(r) == ReadBalance(r) \/ ReadNonce(r) \/ Submit(r) \/ Answer(r)
              \/ LinkFails(r)

Next ==
  \/ \E r \in Requests : Handler(r) \/ Service(r) \/ Include(r)
  \/ \E a \in Accounts : Foreign(a)
  \/ CrashApi
  \/ CrashService

Spec == Init /\ [][Next]_vars

(***************************************************************************)
(* Fairness: a thread of either server that can step is scheduled, and the *)
(* chain keeps producing blocks.  Nothing obliges a client to send a       *)
(* request or a failure to happen.                                         *)
(***************************************************************************)
Fairness ==
  \A r \in Requests :
    /\ WF_vars(Stamp(r) \/ Post(r) \/ Receive(r) \/ Archive(r))
    /\ WF_vars(ReadBalance(r) \/ ReadNonce(r) \/ Submit(r) \/ Answer(r))
    /\ WF_vars(Include(r))

FairSpec == Spec /\ Fairness

-----------------------------------------------------------------------------
(* Safety. *)

(***************************************************************************)
(* No extrinsic of this service waits in the pool behind a nonce gap, and  *)
(* an account has at most one pending: the nonce is always the one of the  *)
(* best block (subxt create_signed), however requests, blocks, other       *)
(* programs and failures interleave.                                       *)
(***************************************************************************)
PoolIsReady ==
  \A r \in Requests : fate[r] = "pool" =>
    /\ nonce[r] = cnonce[from[r]]
    /\ \A s \in Requests \ {r} : fate[s] = "pool" => from[s] # from[r]

(***************************************************************************)
(* A request pays at most once: once the node accepted its extrinsic no    *)
(* step sends another one in its place, and what the chain settled is      *)
(* final.  The code has no retry; this is what one could break.            *)
(***************************************************************************)
PaidAtMostOnce ==
  [][\A r \in Requests :
       /\ fate[r] = "pool" => fate'[r] \in Accepted
       /\ fate[r] \in Settled => fate'[r] = fate[r]]_vars

(***************************************************************************)
(* Every row of TRXARCHIVE tells of an extrinsic the node accepted, with   *)
(* the account that really paid (the wallet is read again after the        *)
(* transfer, pay.clj:110), the destination and the amount; and no          *)
(* extrinsic is archived twice.                                            *)
(***************************************************************************)
ArchiveIsTrue ==
  /\ \A row \in archive :
       /\ fate[row.hash] \in Accepted
       /\ row.sender = from[row.hash]
       /\ row.dest = Dest[row.hash]
       /\ row.amount = Amount[row.hash]
  /\ \A row1, row2 \in archive : row1.hash = row2.hash => row1 = row2

(***************************************************************************)
(* "Your transaction is on the way!" is only said of an extrinsic the node *)
(* accepted and the archive holds, whatever the other threads did to txid. *)
(***************************************************************************)
OnTheWayIsArchived ==
  \A r \in Requests : pc[r] = "ontheway" =>
    /\ fate[r] \in Accepted
    /\ \E row \in archive : row.hash = r

(***************************************************************************)
(* A payment that was turned away, or that ended with an error text while  *)
(* the link to the node held, is never in the pool or on the chain, now or *)
(* later: the user may safely try again.                                   *)
(***************************************************************************)
RefusedNeverMoves ==
  \A r \in Requests :
    (pc[r] = "denied" \/ (pc[r] = "error" /\ svc[r] # "cut")) =>
      fate[r] \notin Accepted

(***************************************************************************)
(* The inductive invariant behind the properties above: how far a handler, *)
(* the wallet service and the node can be apart.                           *)
(***************************************************************************)
HandlerAgrees ==
  \A r \in Requests :
    /\ pc[r] \in {"idle", "stamp", "post", "denied"} => svc[r] = "none"
    /\ pc[r] \in {"archive", "ontheway"} => svc[r] = "hash"
    /\ pc[r] = "error" => svc[r] \in {"error", "cut"}

ServiceAgrees ==
  \A r \in Requests :
    /\ svc[r] # "none" => from[r] \in Accounts /\ from[r] = wallet[Payer[r]]
    /\ svc[r] \in {"none", "recv", "funded", "signed"} => fate[r] = "none"
    /\ svc[r] \in {"sent", "hash"} => fate[r] # "none"
    /\ svc[r] = "hash" => fate[r] \in Accepted
    /\ svc[r] = "error" => fate[r] \notin Accepted
    /\ svc[r] = "signed" => nonce[r] <= cnonce[from[r]]

ArchiveAgrees ==
  /\ \A row \in archive : pc[row.hash] = "ontheway"
  /\ \A r \in Requests : pc[r] = "ontheway" => \E row \in archive : row.hash = r

IInv == TypeOK /\ HandlerAgrees /\ ServiceAgrees /\ PoolIsReady
        /\ ArchiveAgrees /\ ArchiveIsTrue

-----------------------------------------------------------------------------
(* Liveness. *)

(***************************************************************************)
(* A request that was let in gets to its end: no handler waits for ever,   *)
(* although the HTTP call has no timeout, because the wallet service       *)
(* always answers or breaks the connection.                                *)
(***************************************************************************)
EveryRequestEnds ==
  \A r \in Requests : pc[r] \in Running ~> pc[r] \in Replied

(***************************************************************************)
(* A payment the node accepted is settled one way or the other: none stays *)
(* in the pool.  A nonce ahead of the chain's would break this.            *)
(***************************************************************************)
AcceptedSettles ==
  \A r \in Requests : fate[r] = "pool" ~> fate[r] \in Settled

-----------------------------------------------------------------------------
(* What the code's comments say and the code does not keep. *)

(***************************************************************************)
(* pay.clj:106 and 183, "save trx to local db": when nothing fails, a      *)
(* transfer whose hash came back is in TRXARCHIVE when its handler ends.   *)
(***************************************************************************)
TransferIsSaved ==
  \A r \in Requests :
    svc[r] = "hash" /\ pc[r] \in Replied => \E row \in archive : row.hash = r
=============================================================================
