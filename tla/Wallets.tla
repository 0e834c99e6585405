------------------------------ MODULE Wallets ------------------------------
(***************************************************************************)
(* How a user gets a wallet: operation/getwallet.clj (gen-wallet for the   *)
(* app, gen-wallet-by-api for partners) and waves/wallet.clj (gen-wallet   *)
(* of the KE token API).  The key pair comes from a wallet service and is  *)
(* put into an atom of the namespace; the handlers, and a future that      *)
(* sleeps five seconds, dereference that atom once for every field they    *)
(* need, while other requests reset it.  The first key pair request r is   *)
(* given is <<r, 1>>; its address and its mnemonic are both written so.    *)
(***************************************************************************)
EXTENDS Naturals, FiniteSets

CONSTANTS
  Apps,     \* requests for getwallet/gen-wallet
  Apis,     \* requests for getwallet/gen-wallet-by-api; each makes a user
  Waves,    \* requests for waves-wallet/gen-wallet
  Users,    \* registered users
  Owner,    \* the user of every app and waves request
  NoKey,    \* nil, or NULL in the database
  Temp,     \* USERS.TEMP_TOKEN of each user: "0", or a code still to be used
  Faults    \* failures that may happen: a subset of {"api", "service", "db"}

Requests == Apps \cup Apis \cup Waves
Key(r)   == <<r, 1>>
Keys     == Requests \X {1, 2}
Rows     == Users \cup Apis

ASSUME WalletsAssumption ==
  /\ Apps \cap (Apis \cup Waves) = {} /\ Apis \cap Waves = {}
  /\ Users \cap Apis = {}
  /\ NoKey \notin Keys /\ NoKey \notin Rows \cup Requests
  /\ Owner \in [Apps \cup Waves -> Users]
  /\ Temp \in [Users -> {"0", "code"}]
  /\ Faults \subseteq {"api", "service", "db"}

VARIABLES
  xwallet,    \* the atom getwallet.clj:32
  wxwallet,   \* the atom waves/wallet.clj:25
  userId,     \* the atom getwallet.clj:18
  wallet,     \* USERS.WALLET
  seed,       \* USERS.SEED
  pc,         \* where each handler is, or how it ended
  future,     \* where the future of each app request is
  local,      \* id and address read so far for the row to be written
  told,       \* what the reply says
  writer,     \* history: the request whose write of the row was the last
  disturbed   \* history: requests that another request's keys overlapped

atoms == <<xwallet, wxwallet, userId>>
db    == <<wallet, seed, writer>>
vars  == <<atoms, db, pc, future, local, told, disturbed>>

MaybeKey == Keys \cup {NoKey}
Nothing  == [id |-> NoKey, wallet |-> NoKey, seed |-> NoKey]

Busy    == {"fetch", "stampid", "readid", "address", "seed", "tellid", "tell", "tellseed"}
Ended   == {"denied", "had", "unverified", "error", "replied", "crashed"}
Pending == {"asleep", "seed"}

TypeOK ==
  /\ xwallet \in MaybeKey /\ wxwallet \in MaybeKey
  /\ userId \in Apis \cup {NoKey}
  /\ wallet \in [Rows -> MaybeKey] /\ seed \in [Rows -> MaybeKey]
  /\ writer \in [Rows -> Requests \cup {NoKey}]
  /\ pc \in [Requests -> {"idle"} \cup Busy \cup Ended]
  /\ future \in [Apps -> Pending \cup {"none", "done", "failed", "crashed"}]
  /\ local \in [Requests -> [id : Rows \cup {NoKey}, wallet : MaybeKey]]
  /\ told \in [Requests -> [id : Rows \cup {NoKey}, wallet : MaybeKey, seed : MaybeKey]]
  /\ disturbed \subseteq Requests
  /\ \A r \in Apps : pc[r] = "crashed" => future[r] \notin Pending

Init ==
  /\ xwallet = NoKey /\ wxwallet = NoKey /\ userId = NoKey
  /\ wallet = [i \in Rows |-> NoKey] /\ seed = [i \in Rows |-> NoKey]
  /\ writer = [i \in Rows |-> NoKey]
  /\ pc = [r \in Requests |-> "idle"]
  /\ future = [r \in Apps |-> "none"]
  /\ local = [r \in Requests |-> [id |-> NoKey, wallet |-> NoKey]]
  /\ told = [r \in Requests |-> Nothing]
  /\ disturbed = {}

Goto(r, next) == pc' = [pc EXCEPT ![r] = next]

(* Requests that read the atom of their namespace again. *)
Reads(r)    == pc[r] \in Busy \ {"fetch"} \/ (r \in Apps /\ future[r] \in Pending)
InFlight(S) == {r \in S : Reads(r)}

(* The history of a reset of the atom that the requests S share. *)
Disturb(r, S) ==
  disturbed' = disturbed \cup InFlight(S)
                         \cup (IF InFlight(S) = {} THEN {} ELSE {r})

(* The wallet service answers a fresh key pair; what it fails with has no  *)
(* field of that name, and reads as nil.                                   *)
Answers(k) == {k} \cup (IF "service" \in Faults THEN {NoKey} ELSE {})

(* The statement that stores a key pair: a nil mnemonic cannot be          *)
(* encrypted, WALLET is UNIQUE, and the database may refuse.               *)
Accepts(i, w, s) == s # NoKey /\ (w = NoKey \/ \A j \in Rows \ {i} : wallet[j] # w)

Store(r, i, w, s) ==
  /\ Accepts(i, w, s)
  /\ wallet' = [wallet EXCEPT ![i] = w]
  /\ seed' = [seed EXCEPT ![i] = s]
  /\ writer' = [writer EXCEPT ![i] = r]

Refused(i, w, s) == (~Accepts(i, w, s) \/ "db" \in Faults) /\ UNCHANGED db

-----------------------------------------------------------------------------
(* gen-wallet for the app. *)

(* The user must not have a wallet, and TEMP_TOKEN must be "0": the other  *)
(* half of the guard asks a query for a column it does not select, and is  *)
(* always true.                                                            *)
BeginApp(r) ==
  /\ r \in Apps /\ pc[r] = "idle"
  /\ \/ Goto(r, "denied")
     \/ Goto(r, IF wallet[Owner[r]] # NoKey THEN "had"
                ELSE IF Temp[Owner[r]] # "0" THEN "unverified" ELSE "fetch")
  /\ UNCHANGED <<atoms, db, future, local, told, disturbed>>

(* Mutant: the future is not started. *)
FetchAppForgets(r) ==
  /\ r \in Apps /\ pc[r] = "fetch"
  /\ \E k \in Answers(Key(r)) : xwallet' = k
  /\ Disturb(r, (Apps \cup Apis) \ {r})
  /\ Goto(r, "tell")
  /\ UNCHANGED <<wxwallet, userId, db, future, local, told>>

(* (reset! xwallet (wallets)); then the future starts to sleep. *)
FetchApp(r) ==
  /\ r \in Apps /\ pc[r] = "fetch"
  /\ \E k \in Answers(Key(r)) : xwallet' = k
  /\ Disturb(r, (Apps \cup Apis) \ {r})
  /\ future' = [future EXCEPT ![r] = "asleep"]
  /\ Goto(r, "tell")
  /\ UNCHANGED <<wxwallet, userId, db, local, told>>

(* The reply dereferences the atom for the address and for the mnemonic. *)
TellApp(r) ==
  /\ r \in Apps
  /\ \/ /\ pc[r] = "tell"
        /\ told' = [told EXCEPT ![r].id = Owner[r], ![r].wallet = xwallet]
        /\ Goto(r, "tellseed")
     \/ /\ pc[r] = "tellseed"
        /\ told' = [told EXCEPT ![r].seed = xwallet]
        /\ Goto(r, "replied")
  /\ UNCHANGED <<atoms, db, future, local, disturbed>>

(* Five seconds later the future reads the address ... *)
FutureReads(r) ==
  /\ r \in Apps /\ future[r] = "asleep"
  /\ local' = [local EXCEPT ![r] = [id |-> Owner[r], wallet |-> xwallet]]
  /\ future' = [future EXCEPT ![r] = "seed"]
  /\ UNCHANGED <<atoms, db, pc, told, disturbed>>

(* Mutant: the row gets the wallet without its seed. *)
FutureStoresHalf(r) ==
  /\ r \in Apps /\ future[r] = "seed"
  /\ Accepts(Owner[r], local[r].wallet, xwallet)
  /\ wallet' = [wallet EXCEPT ![Owner[r]] = local[r].wallet]
  /\ writer' = [writer EXCEPT ![Owner[r]] = r]
  /\ future' = [future EXCEPT ![r] = "done"]
  /\ UNCHANGED <<seed, atoms, pc, local, told, disturbed>>

(* ... and the mnemonic, and stores both (setup-user-wallet). *)
FutureStores(r) ==
  /\ r \in Apps /\ future[r] = "seed"
  /\ \/ /\ Store(r, local[r].id, local[r].wallet, xwallet)
        /\ future' = [future EXCEPT ![r] = "done"]
     \/ /\ Refused(local[r].id, local[r].wallet, xwallet)
        /\ future' = [future EXCEPT ![r] = "failed"]
  /\ UNCHANGED <<atoms, pc, local, told, disturbed>>

-----------------------------------------------------------------------------
(* gen-wallet-by-api. *)

BeginByApi(r) ==
  /\ r \in Apis /\ pc[r] = "idle"
  /\ \E keysMatch \in BOOLEAN : Goto(r, IF keysMatch THEN "fetch" ELSE "denied")
  /\ UNCHANGED <<atoms, db, future, local, told, disturbed>>

FetchByApi(r) ==
  /\ r \in Apis /\ pc[r] = "fetch"
  /\ \E k \in Answers(Key(r)) : xwallet' = k
  /\ Disturb(r, (Apps \cup Apis) \ {r})
  /\ Goto(r, "stampid")
  /\ UNCHANGED <<wxwallet, userId, db, future, local, told>>

(* (reset! user-id (uuid)) *)
StampId(r) ==
  /\ r \in Apis /\ pc[r] = "stampid"
  /\ userId' = r
  /\ Goto(r, "readid")
  /\ UNCHANGED <<xwallet, wxwallet, db, future, local, told, disturbed>>

ReadByApi(r) ==
  /\ r \in Apis
  /\ \/ /\ pc[r] = "readid"
        /\ local' = [local EXCEPT ![r].id = userId]
        /\ Goto(r, "address")
     \/ /\ pc[r] = "address"
        /\ local' = [local EXCEPT ![r].wallet = xwallet]
        /\ Goto(r, "seed")
  /\ UNCHANGED <<atoms, db, future, told, disturbed>>

(* Mutant: the row of an id that exists is replaced. *)
InsertByApiOver(r) ==
  /\ r \in Apis /\ pc[r] = "seed"
  /\ \/ /\ Store(r, local[r].id, local[r].wallet, xwallet)
        /\ Goto(r, "tellid")
     \/ /\ Refused(local[r].id, local[r].wallet, xwallet)
        /\ Goto(r, "error")
  /\ UNCHANGED <<atoms, future, local, told, disturbed>>

(* setup-wallet-by-api: INSERT INTO USERS, refused when the id exists. *)
InsertByApi(r) ==
  LET i == local[r].id IN
  /\ r \in Apis /\ pc[r] = "seed"
  /\ \/ /\ seed[i] = NoKey
        /\ Store(r, i, local[r].wallet, xwallet)
        /\ Goto(r, "tellid")
     \/ /\ seed[i] # NoKey \/ Refused(i, local[r].wallet, xwallet)
        /\ Goto(r, "error")
        /\ UNCHANGED db
  /\ UNCHANGED <<atoms, future, local, told, disturbed>>

TellByApi(r) ==
  /\ r \in Apis
  /\ \/ /\ pc[r] = "tellid"
        /\ told' = [told EXCEPT ![r].id = userId]
        /\ Goto(r, "tell")
     \/ /\ pc[r] = "tell"
        /\ told' = [told EXCEPT ![r].wallet = xwallet]
        /\ Goto(r, "replied")
  /\ UNCHANGED <<atoms, db, future, local, disturbed>>

-----------------------------------------------------------------------------
(* gen-wallet of the KE token API: no phone is asked for and nothing       *)
(* sleeps.                                                                 *)

BeginWaves(r) ==
  /\ r \in Waves /\ pc[r] = "idle"
  /\ \/ Goto(r, "denied")
     \/ Goto(r, IF wallet[Owner[r]] # NoKey THEN "had" ELSE "fetch")
  /\ UNCHANGED <<atoms, db, future, local, told, disturbed>>

FetchWaves(r) ==
  /\ r \in Waves /\ pc[r] = "fetch"
  /\ \E k \in Answers(Key(r)) : wxwallet' = k
  /\ Disturb(r, Waves \ {r})
  /\ Goto(r, "address")
  /\ UNCHANGED <<xwallet, userId, db, future, local, told>>

ReadWaves(r) ==
  /\ r \in Waves /\ pc[r] = "address"
  /\ local' = [local EXCEPT ![r] = [id |-> Owner[r], wallet |-> wxwallet]]
  /\ Goto(r, "seed")
  /\ UNCHANGED <<atoms, db, future, told, disturbed>>

(* A failed write is logged and the handler goes on. *)
StoreWaves(r) ==
  /\ r \in Waves /\ pc[r] = "seed"
  /\ \/ Store(r, local[r].id, local[r].wallet, wxwallet)
     \/ Refused(local[r].id, local[r].wallet, wxwallet)
  /\ Goto(r, "tell")
  /\ UNCHANGED <<atoms, future, local, told, disturbed>>

(* The reply is what a second call of the wallet service answers. *)
TellWaves(r) ==
  /\ r \in Waves /\ pc[r] = "tell"
  /\ \E k \in Answers(<<r, 2>>) :
       told' = [told EXCEPT ![r] = [id |-> Owner[r], wallet |-> k, seed |-> k]]
  /\ Goto(r, "replied")
  /\ UNCHANGED <<atoms, db, future, local, disturbed>>

-----------------------------------------------------------------------------
(* Mutant: the futures survive. *)
CrashApiLeaves ==
  /\ "api" \in Faults
  /\ InFlight(Requests) # {}
  /\ pc' = [r \in Requests |-> IF pc[r] \in Busy THEN "crashed" ELSE pc[r]]
  /\ xwallet' = NoKey /\ wxwallet' = NoKey /\ userId' = NoKey
  /\ UNCHANGED <<db, future, local, told, disturbed>>

(* The API server restarts: handlers, futures and atoms are gone. *)
CrashApi ==
  /\ "api" \in Faults
  /\ InFlight(Requests) # {}
  /\ pc' = [r \in Requests |-> IF pc[r] \in Busy THEN "crashed" ELSE pc[r]]
  /\ future' = [r \in Apps |-> IF future[r] \in Pending THEN "crashed" ELSE future[r]]
  /\ xwallet' = NoKey /\ wxwallet' = NoKey /\ userId' = NoKey
  /\ UNCHANGED <<db, local, told, disturbed>>

Next ==
  \/ \E r \in Apps : \/ BeginApp(r) \/ FetchApp(r) \/ TellApp(r)
                     \/ FutureReads(r) \/ FutureStores(r)
  \/ \E r \in Apis : \/ BeginByApi(r) \/ FetchByApi(r) \/ StampId(r)
                     \/ ReadByApi(r) \/ InsertByApi(r) \/ TellByApi(r)
  \/ \E r \in Waves : \/ BeginWaves(r) \/ FetchWaves(r) \/ ReadWaves(r)
                      \/ StoreWaves(r) \/ TellWaves(r)
  \/ CrashApi

Spec == Init /\ [][Next]_vars

(* Fairness: a thread or a future that can go on is scheduled. *)
FairSpec ==
  /\ Spec
  /\ \A r \in Apps : WF_vars(TellApp(r)) /\ WF_vars(FutureReads(r) \/ FutureStores(r))

-----------------------------------------------------------------------------
(* Safety. *)

(***************************************************************************)
(* A row whose last writer no other request overlapped holds a wallet      *)
(* together with its own seed, and what the reply told the user of it is   *)
(* what is stored, whenever the future ran.                                *)
(***************************************************************************)
StoredIsTold ==
  \A i \in Rows : \A r \in (Apps \cup Apis) \ disturbed : writer[i] = r =>
    /\ wallet[i] = Key(r) /\ seed[i] = Key(r)
    /\ pc[r] = "replied" =>
         /\ told[r].id = i /\ told[r].wallet = wallet[i]
         /\ r \in Apps => told[r].seed = seed[i]

(***************************************************************************)
(* A wallet is replaced only by a request that was let in before the       *)
(* wallet was stored: a user who has a wallet and no request under way     *)
(* keeps it, and the row of a partner's user is never written again.       *)
(***************************************************************************)
WalletIsKept ==
  [][\A i \in Rows : seed[i] # NoKey =>
       \/ wallet'[i] = wallet[i] /\ seed'[i] = seed[i]
       \/ i \in Users /\ writer'[i] \in Apps \cup Waves
          /\ Owner[writer'[i]] = i /\ writer'[i] # writer[i]]_vars

(***************************************************************************)
(* A user who was told a wallet by a request that nothing overlapped gets  *)
(* it into the database, when nothing fails.                               *)
(***************************************************************************)
ToldGetsStored ==
  \A r \in Apps :
    pc[r] = "replied" ~> (r \in disturbed \/ wallet[Owner[r]] = Key(r))

-----------------------------------------------------------------------------
(* What the code says and does not keep. *)

(***************************************************************************)
(* handler.clj:607, "Provide PIN and get wallet": when the handler has     *)
(* replied and its future has stored, the user's wallet is the one in the  *)
(* reply.                                                                  *)
(***************************************************************************)
AppGetsItsWallet ==
  \A r \in Apps :
    pc[r] = "replied" /\ future[r] = "done" /\ writer[Owner[r]] = r
    => wallet[Owner[r]] = told[r].wallet

(***************************************************************************)
(* A row of USERS has its types, and holds what its user was told, as far as *)
(* no other request came in between (getwallet.clj:40-52).                 *)
(***************************************************************************)
RowsAreRight == TypeOK /\ StoredIsTold

-----------------------------------------------------------------------------
(* The inductive invariant: what the steps of the handlers rely on.        *)

(* What each request has read by the time it writes a row, whoever else    *)
(* resets the atoms.                                                       *)
StepsAgree ==
  /\ \A r \in Apps :
       /\ pc[r] \in {"idle", "denied", "had", "unverified", "fetch"} => future[r] = "none"
       /\ future[r] = "seed" => local[r].id = Owner[r]
  /\ \A r \in Apis :
       /\ pc[r] \in {"readid", "address", "seed", "tellid", "tell"} => userId \in Apis
       /\ pc[r] \in {"address", "seed"} => local[r].id \in Apis
  /\ \A r \in Waves : pc[r] = "seed" => local[r].id = Owner[r]

(* Each request writes once, and then goes on.                             *)
WritersAgree ==
  \A i \in Rows, r \in Requests : writer[i] = r =>
    /\ r \in Apps => i = Owner[r] /\ future[r] = "done"
    /\ r \in Apis => pc[r] \in {"tellid", "tell", "replied", "crashed"} /\ (r \in disturbed \/ i = r)
    /\ r \in Waves => pc[r] \in {"tell", "replied", "crashed"}

(* A request that reads the atom again and that nobody overlapped is the   *)
(* only one: everything it read is what the atoms hold now.                *)
AloneAgrees ==
  \A r \in (Apps \cup Apis) \ disturbed : Reads(r) =>
    /\ \A q \in (Apps \cup Apis) \ {r} : ~Reads(q)
    /\ xwallet \in {Key(r), NoKey}
    /\ \A i \in Rows : writer[i] = r => xwallet = Key(r)
    /\ r \in Apps =>
         /\ future[r] = "seed" => local[r].wallet = xwallet
         /\ pc[r] \in {"tellseed", "replied"} => told[r].id = Owner[r] /\ told[r].wallet = xwallet
         /\ pc[r] = "replied" => told[r].seed = xwallet
    /\ r \in Apis =>
         /\ pc[r] \in {"readid", "address", "seed", "tellid", "tell"} => userId = r
         /\ pc[r] \in {"address", "seed"} => local[r].id = r
         /\ pc[r] = "seed" => local[r].wallet = xwallet
         /\ pc[r] = "tell" => told[r].id = r

IInv == TypeOK /\ StepsAgree /\ WritersAgree /\ AloneAgrees /\ StoredIsTold
=============================================================================
