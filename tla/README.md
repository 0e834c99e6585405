# Verification of zeetomic-core

zeetomic-core is a wallet and loyalty platform. This directory holds TLA+
modules translated from its source, TLC configurations that model-check them on
small instances, and proofs that TLAPS checks. Paths below are relative to the
repository; `clj/` stands for `src/zeetomic_core/`.

    tlc -workers 2 -config Payment_safety.cfg MCPayment.tla    # one run
    tlapm PaymentProofs.tla                                    # the proofs of a module

## 1. Inventory

### The processes

    phone app, partners
          |  HTTP, JSON
    API server (Clojure, Ring, one thread per request) ---- PostgreSQL
          |            |             |
          |            |             +-- mail, SMS, Google and Facebook (HTTP)
          |            +-- Stellar service, Waves service, S3 service (Node)
    wallet service (Rust, actix; the cli crate; a wallet file)
          |  websocket, JSON-RPC (subxt)
    substrate node: transaction pool, chain

Everything concurrent in the API server goes through three kinds of shared
state: PostgreSQL rows (every query is its own transaction), **namespace-level
atoms** (`(def txid (atom ...))`, one value for all threads, set by one
statement of a handler and dereferenced by later ones), and **futures** that
sleep before they act. No lock or transaction joins the statements of a handler.
That is where most of the hard behaviour is.

### Components

| component | state | operations | talks to |
|---|---|---|---|
| Payments `clj/operation/pay.clj` | atom `txid`, TRXARCHIVE | `pay!`, `pay-by-api` | wallet service, USERS |
| Wallet service, transfer path `http_service`, `cli/balances.rs`, `subxt` | none of its own | `/transfer`: balance, nonce, sign, submit, answer | node |
| Loyalty `clj/loyalty/genreward.clj`, `receipt.clj`, `reward!` of `pay.clj` | atoms `txid` (two), RECEIPTS, HASHVAL, futures | `gen-str`, `valid-str?`, `add-receipt!` | BRANCHES, wallet service |
| Wallet provisioning `clj/operation/getwallet.clj`, `clj/waves/wallet.clj` | atoms `xwallet` (two), `user-id`, USERS.WALLET/SEED, future | `gen-wallet`, `gen-wallet-by-api`, waves `gen-wallet` | wallet service, Waves service |
| Accounts by e-mail `clj/account/register.clj`, `activation.clj`, `login.clj` | atoms `user-id` (two), `temp-token`, `pin-code`, USERS | `accountbyemail`, `activate-user`, `login-from-google`, `login-from-facebook`, `loginbyemail`, `forget-password-by-mail`, `reset-password-by-mail!` | mail, providers |
| Codes by phone, same files and `userinfo.clj` | three atoms `pin-code`, USERS | `accountbyphone`, `resend-code`, `forget-password`, `reset-password!`, `add-phone-number`, `activate-user-by-phone`, `loginbyphone` | SMS |
| Market `clj/sdm/sdm_products.clj`, `sdm_orders.clj` | atoms `txid` (two), SDM_PRODUCTS, SDM_ORDERS | add, update, delete; order, pay, ship, complete | USERS |
| Identity documents, profiles, passwords `clj/account/userinfo.clj`, `login.clj` | atom `docs-id`, DOCUMENTS, USERS.STATUS, PASSWORD, PIN | `set-kyc!`, `setup-profile!`, `change-password!`, `change-pin!` | |
| Merchants, branches, API keys `clj/loyalty/merchant.clj`, `branches.clj` | atoms, MERCHANTS, BRANCHES, APIACC | `add-merchant!`, `update-merchant?`, `add-branches!`, `update-branches?`, `granted-user!`, `get-apikey` | |
| Wallet file `indracore_api/src/wallet`, `cli/operation.rs` | one JSON file per location, keystore files | load, add if absent, save whole; get by label or address; backup, restore; a command line for all of it | file system |
| Contracts `indracore_api/src/contract` | none | arguments typed as text are parsed, encoded by type and submitted; deploy, instantiate, call | node |
| Metadata and events `subxt/src/metadata.rs`, `events.rs`, `frame`, `proc-macro` | metadata of the node, sizes of types | storage keys, call bytes, decoding of a block's events | node |
| Chain client `subxt` | connection, subscriptions, iterators | `KeyIter::next`, `submit_and_watch_extrinsic`, `EventSubscription::next` | node |
| Stellar service `stellar-poc` | none; the ledger has a sequence number per account | create wallet, pay, charge a fee, add an asset, white-list | ledger |
| Waves and S3 services `waves-srv`, `s3-server` | none | broadcast, store an image | ledger, S3 |
| Routes, sessions, partner login, lookups, white lists, lists, schema migration | none or read-only | | |

PROJECT.json lists every part with its status.

### What is hard here, and what would be right

* **Payments.** Two requests of one account compete for one nonce; the balance
  is read before the nonce, the nonce before the submission, the archive row is
  written after it, under an id that another request may have replaced. Right
  means: no request pays twice, nothing waits behind a nonce gap, the archive
  never tells of something that did not happen, a refusal is final.
* **Loyalty.** A string is made by three statements that dereference one atom
  and read the reward rate three times; it is spent by a check and two updates,
  the last of which swallows exceptions. Right means: a string names its own
  receipt, who is congratulated has a completed receipt, a string is good once.
* **Wallets.** The key pair sits in a shared atom for five seconds between the
  reply and the row. Right means: address and seed in a row belong together and
  are what the user was told; a wallet is not replaced.
* **Accounts and codes.** The *next* id, token and code wait in atoms between
  requests, are used twice (stored, then sent) and reset last. Right means: a
  used id never stays there, a link names the account of its address, a code
  that was sent works, nobody gets a session without proof of address.
* **Market.** Ids through atoms as above, a total made of two reads, a status
  overwritten whatever it was. Right means: a placed order is stored, its total
  was on offer, only its buyer completes it.
* **Documents, merchants, keys.** The id of the next document waits in an atom
  and is read again for the link; a merchant is stored before its creator is a
  partner; the secret of a key is made of an atom read three times. Right means:
  the linked document is the own one, nobody waits to be verified without one,
  partners have merchants, a partner who was not disturbed knows the own key.
* **Wallet file.** A save loads, adds, truncates and writes without a lock.
  Right means: an address that was added stays, with its key, unless saves
  overlapped or died half-way; a name means the first address under it; a backup
  restores what it was made of.
* **Chain client.** Iterators, subscriptions and metadata over a chain that
  grows, forks and is upgraded. Right means: one iteration is about one block and
  skips nothing silently, a watcher is told of its own extrinsic only and comes to
  an end, a call means what its caller named, typed arguments are what the
  contract runs, a block's events are told as they were written.
* **Stellar.** Requests share the sequence number of an account and word their
  answers before or whatever the ledger says. Right means: what is told as done
  was done, and nothing is done twice.

PROJECT.json "hazards" has each of these at its line with the properties that
watch it; where a hazard does bite, the property says what still holds and a
note says what does not.

## 2. Plan

Written, in this order: **Payment** with its abstract specification and proofs,
**Rewards**, **Wallets**, **Registration**, **Codes**, **Market**; then
**Scon**, **Transcode**, **Commands**, **Contracts** (what users type and contracts
run), **Metadata**, **Requests**, **Events** (what a client knows of a runtime),
**KeyIter**, **Subxt** (what it reads, submits and watches), **Args**,
**Keystore**, **WalletStore** (the wallet file and its command line), **Profile**,
**Merchants** and **Stellar**; and the proofs in the order of section 15.

Not written is the composition of Wallets and Payment over USERS.WALLET, with the
question whether `ArchiveIsTrue` (the sender) survives a wallet that is replaced
between transfer and archive.

Every module is parameterised by CONSTANTS. Scon, Transcode, Contracts and Events
translate recursive grammars and types with RECURSIVE operators, which the prover
cannot use, and stay with TLC. What does not depend on the recursion is in
modules below them that can be proved about: the commands and the chain in
Commands (Contracts puts the encoder in its place), the metadata and what is
asked of it in Metadata and Requests (Events adds the blocks).

| proof module | proves about |
|---|---|
| PaymentProofs, RewardsProofs, WalletsProofs, RegistrationProofs, CodesProofs, MarketProofs | the module of that name |
| SubxtProofs | what the client crates do with a node: Subxt, KeyIter, Commands, Requests with Metadata |
| OfficeProofs | the services that keep state in a file, rows or a ledger: Profile, Merchants, WalletStore with Keystore, Args, Stellar |

## 3. How the modules are written

* A request is a **thread**: an element of a constant set with a program
  counter. Each action is one statement of the handler that reads or writes
  shared state (a query, a dereference, a reset!, an HTTP call), with the
  assignments the code makes there. Every request is sent once; two equal
  requests are two elements.
* **Fresh values are named for their maker**: the UUID, token, pin or key pair
  that request `r` creates is written `r` (or `<<r, 1>>`, `<<atom, r>>`). The
  generators are taken to produce distinct values.
* **Failures** are actions guarded by membership in the constant `Faults`: the
  API server or the wallet service stops, the database refuses a statement, a
  link breaks, an SMS or mail fails (an SMS that failed may have been
  delivered), a provider does not answer. A run lists the ones it lets happen.
  `Restart` reloads the atoms with fresh values and ends the running threads.
* **History variables** (`disturbed`, `overlapped`, `last`, `writer`) are read
  by no guard. They say which requests another one overlapped in the window
  where it matters, so that a property can state what the code does guarantee
  next to the one it does not.
* **Properties come in conjunctions of named parts.** `BooksAgree` of Rewards, say,
  is its type invariant and three statements, each with a comment and a name of
  its own; a run checks the conjunction, and the mutants of the run break it in one part
  each. The tables below list the parts.
* **Runs that share modules.** A passing run gives TLC all kinds of request a
  module has, and a bound of the MC module (a CONSTRAINT such as `MCEither` and `MCThree`, or a
  conjunct of its next-state relation such as `MCFew`) that
  bounds which of them are sent in one behaviour: the requests of one
  namespace, which share its atom, run together in full, and one of
  them runs next to those of the others; larger mixtures (a
  resent code next to a forgotten password, say) are not explored.
  `MCPartners` makes the partner requests of Wallets interchangeable; nothing
  names one of them. Components that share no state are checked by one run with
  a variable `subject` that picks one of them for a whole behaviour (`MCCodec`,
  `MCClient`, `MCOffice`): the other components rest, so that the run is the
  union of theirs and not their product.
* **Liveness and constraints.** payment_live and wallets_live have none. The one of
  client_safety, `MCWorks`, bounds how many blocks come before the client is
  built or change nothing, and stops when everything is over; nothing that a task
  or an iteration waits for is cut off, since its message is in its queue by then.
* **Proofs.** A proved module ends with its inductive invariant, a conjunction of
  named parts that say what the later statements of a handler rely on; TLC checked
  it on the instances of the runs before it was proved. Its proof module has a
  lemma `Kinds` (which requests are apart), one lemma `<Action>IInv` per action,
  `Invariance`, and one theorem per property of the runs. The sets of requests,
  users and phones may be infinite. What is assumed of the constants is the
  named ASSUME of the module: requests of different handlers are different
  elements, and the values that stand for "nothing" or for a status are not members of
  the sets. The code justifies the first by having two handlers, and the second
  is how the model writes a null.
* **Deadlock** is not checked: requests are finite and no client or failure is
  obliged to act, so every behaviour may stop.
* Where a dereference and the statement that follows it are **one action**, the
  module says why: a reset in between has the outcome of a reset right after
  the statement, or only the request itself resets that atom.

## 4. Payment

`Payment.tla` models a payment from the handler through the wallet service to
the pool and chain and back to TRXARCHIVE.

| state | code |
|---|---|
| `txid` | the atom, `pay.clj:17` |
| `wallet` | USERS.WALLET; SEED is written by the same statement |
| `pc` | the statement each handler is at, or how it ended |
| `svc`, `from`, `nonce` | `/transfer` in the wallet service: what it holds of each request |
| `fate`, `bal`, `cnonce` | the node (external): pool, free balance and nonce at the best block |
| `archive` | TRXARCHIVE |

Actions of the handler: `BeginPay`/`BeginApi` (credentials), `Stamp` (reset!
txid), `Post`, `Receive`, `Archive`; of the service: `ReadBalance`, `ReadNonce`,
`Submit`, `Answer`; of the chain: `Include`, `Foreign` (the user's other
programs, below nonce `MaxForeign`). Failures: `CrashApi`, `CrashService`,
`LinkFails`, `ArchiveFails`. The pool is reduced to what the service can tell
apart: an extrinsic with a used nonce or no fee is refused, one of a taken nonce
must outbid its rival, a block takes the extrinsic of the account's nonce.
Wallet columns are constant in this module; their changes are Wallets, and the
composition is planned.

`PaymentPromise.tla` is the abstract specification: a request is accepted (at
most once), settles (once), is archived only if accepted and told "on the way"
only if archived. `PaymentRefinement.tla` maps Payment to it.

| run | instance | shows |
|---|---|---|
| payment_safety | 3 requests, two of one account; servers stop, link breaks, database fails | `PoolIsReady`, `ArchiveIsTrue`, `RefusedNeverMoves`, `PaidAtMostOnce`, and `KeepsPromise`: Payment implements PaymentPromise |
| payment_live | 2 requests, fair, service stops, another program spends | the inductive invariant `IInv` (with `TypeOK`) with nonces that change under the service; every request ends, every accepted extrinsic settles |

**Bounds.** Two requests of one account are what it takes to compete for a nonce
and for `txid`; the third, of another account, shows that accounts do not disturb
each other. Every account
starts with 4 and the fee is 2: the amount 2 can be paid once and not twice, and
the amount 3 passes the service's check and fails in its block, unless the other
account paid in before.

**Fairness.** `WF` of each request's handler steps and service steps: threads of
both servers are scheduled by the operating system and none waits on a lock.
`WF` of `Include`: the chain produces blocks. No fairness for clients, failures
or other programs. `EveryRequestEnds` depends on the service answering or
breaking the connection: the HTTP call has no timeout.

**Proved** (`PaymentProofs.tla`), for all sets of requests, users and accounts,
all amounts, balances, fees, priorities and subsets of failures, from
`PaymentAssumption` alone (constants have their types, the special values are
not elements of the sets):

    Spec => []IInv              Invariance
    Spec => []TypeOK            TypeCorrect
    Spec => []PoolIsReady       PoolAlwaysReady
    Spec => [](ArchiveIsTrue /\ OnTheWayIsArchived)    ArchiveAlwaysTrue
    Spec => []RefusedNeverMoves RefusalIsFinal
    Spec => PaidAtMostOnce      PaysAtMostOnce
    Spec => KeepsPromise        PaymentKeepsPromise

None of these is inductive alone. `IInv` adds how far the three parties can be
apart: `HandlerAgrees` (what the handler's place says of the service's),
`ServiceAgrees` (what the service's says of the node's: nothing was submitted
before "sent", an answer matches the node's verdict, a signed nonce is not ahead
of the chain's, the seed is that of the payer) and `ArchiveAgrees` (the archive
holds exactly the requests that were told "on the way"). `PoolIsReady` rests on
"a signed nonce is not ahead" together with the pool's refusal of used ones;
`TypeOK` needs the block's own check of the balance, because the service's check
is stale and ignores the fee. One lemma per action shows that it keeps `IInv`;
the refinement then takes the same case split with `IInv` as a hypothesis.

## 5. Rewards

`Rewards.tla`: `gen-str` (`StampGen`, `SaveReceipt`, `SaveHash`, `ReplyString`,
each dereferencing `txid` and reading the rate again), `valid-str?` (`Check`,
`CompleteReceipt`, `SpendHash`, `Congratulate`), `add-receipt!` (`StampAdd`, then
a future that inserts three seconds later, `SaveLater`), and
`UpdateBranches`, which changes the rate at any time. The future that pays a
reward is left out: it throws before it posts (`pay.clj:134`). A failed
query is `...Fails`; `update-str!` catches its own, which is why a claim goes on
after `SpendHashFails` and is put into `log`.

| run | instance | shows |
|---|---|---|
| rewards_safety | 2 generations and 2 claims, or 1 and 1 next to 2 direct receipts; two rates; database and server fail | `UndisturbedIsRight`: a generation that nothing overlapped is right whatever happened around it; `BooksAgree`: `TypeOK`, congratulated means completed (`CongratulatedIsCompleted`), a completed receipt with a valid string has a cause (`CompletedIsSpent`), the delayed insert loses requests, never rows (`SavedIsOnTheBooks`); `OneAfterAnotherIsRefused` |
| rewards_twice | 1 generation, 2 claims, nothing fails | violated: `ClaimedOnce` |

Two of each kind are what an overlap takes. Amounts are 1 or 2 and rates 1 or 2,
enough for a string to promise another reward than its receipt holds.

**Proved** (RewardsProofs): `BooksStayRight` (`Spec => []BooksAgree`),
`UndisturbedStringsAreRight` (`[]UndisturbedIsRight`) and the action property
`SecondClaimsAreRefused` (`OneAfterAnotherIsRefused`). `IInv` adds
`StampsAgree` (a generation in progress finds its own id in the atom unless it was
overlapped, as the step that replaces the id sets `disturbed`),
`GenerationsAgree` (what such a generation has stored when it is at each
statement), `ClaimsAgree` (a claim past the check has a row, which is spent before
anyone is congratulated unless the update was swallowed) and `BooksAreFinite`: the
count of `SavedIsOnTheBooks` means something for infinitely many requests only
because finitely many were answered. A second claim is refused because a row
never becomes valid again: only `SaveHash` writes "valid", by an INSERT that a row
of that id refuses.

## 6. Wallets

`Wallets.tla`: the three handlers that ask a service for a key pair, put it into
an atom and read the atom for each field. The app's future (`FutureReads`,
`FutureStores`) reads it five seconds later. A row is written by one UPDATE or
INSERT; `Accepts` is the UNIQUE constraint on WALLET and the NOT NULL that
encrypting a nil seed amounts to. A failed service leaves a value in the atom
that reads as nil (`NoKey`).

| run | instance | shows |
|---|---|---|
| wallets_safety | at most 3 of: 2 app users, one of them also through the KE token API, 2 partner requests; service, database, server fail | `RowsAreRight`: `TypeOK` and `StoredIsTold`, what an undisturbed request stored is a matching pair and what it told; `WalletIsKept`: no row is rewritten but by its user's own overlapping request |
| wallets_live | fair, 2 app users, 1 partner, nothing fails | `ToldGetsStored` unless overlapped |

Three requests are one that is overlapped, the one that overlaps it, and one
that comes before or after both.

**Fairness**: `WF` of a running handler and of a sleeping future. That is what a
thread pool gives; no fairness is assumed of clients.

**Proved** (WalletsProofs): `RowsStayRight` (`Spec => []RowsAreRight`) and the
action property `WalletsAreKept` (`WalletIsKept`). `StoredIsTold` speaks of four
reads of an atom that lie seconds apart. `AloneAgrees` makes it inductive: an
undisturbed request that reads the atom again is the only such request, so that
the atom holds its key pair (or nil) and all it has read is what is there now;
`StepsAgree` says whose ids the other requests hold, `WritersAgree` that each
request writes once. `StoredIsTold` claims nothing of the KE token API's requests, since they tell
a second wallet (section 14), and so the invariant needs nothing of their atom.

## 7. Registration

`Registration.tla`: e-mail accounts, links, sign-in through providers, reset by
mail. The atoms hold the *next* id, token and code; a successful request resets
them last (`ResetId`, `ResetToken`, `ResetOauthId`, `ResetPin`). The provider is
asked again for every use of the address (`Answers`), so each question may fail
on its own. A password is abstracted to whether the account has one that the
login knows, a JWT to whom it names. Reading the ids is one step with the
statement that uses them, because only the request that stored an id resets it;
the token has no such owner and is read twice.

| run | instance | shows |
|---|---|---|
| registration_safety | 3 registrations (two of one address), or 1 next to 2 sign-ins (one of its address); link, reset, login; mail and provider fail, one restart | `AccountsAreRight`: `TypeOK`, links name their accounts (`LinkNamesItsAccount`), a used id never stays in an atom (`NextIdIsFree`); `UndisturbedLinkWorks`; `SessionWasConfirmed`: a session needs an opened link or a mailed code |

`MaxStarts = 1` bounds restarts: one restart separates the values before from
those after, a second would only repeat it.

**Proved** (RegistrationProofs), for any number of restarts: `AccountsStayRight`,
`LinksWork` and `SessionsAreConfirmed` (`Spec => []` of the three invariants).
`RowsAgree` says that an address has one row; `MailIdsAgree` and `OauthIdsAgree`
that each row has the id its request stored, and that an id which was in the atom
once does not come back, which is what makes an id free and a link unambiguous;
`LinksAgree` follows the token from the INSERT to the mail; `CodesAgree` says that
reset codes and logins are of active accounts, and `PasswordsAgree` that an active
account with a password was confirmed: the provider's accounts have none, and a
reset presupposes a mailed code.

## 8. Codes

`Codes.tla`: the six-digit codes. Three namespaces have an atom each;
`accountbyphone` and `resend-code` share one, `forget-password` and
`forget-password-by-mail` another. A sender stores the code with the row
(`StoreCode`), dereferences again to send (`SendCode`), and resets (`ResetCode`)
if the SMS did not fail. `Compare` and `UseCode` are the two statements of an
activation or reset. Pins are distinct values: two random pins that happen to be
equal are left out. A login by phone reads the account of the phone three times
(`login.clj:91-94`), and `add-phone-number` replaces the phone of an account
(`userinfo.clj:106-112`): `moved` is the set of logins whose phone was given up
while they were under way.

| run | instance | shows |
|---|---|---|
| codes_safety | 2 registrations and a resent code, or 1 registration next to an added phone and passwords forgotten by phone and by mail, or next to an account that takes a phone and gives it up; activation, reset, login; SMS fails, one restart | `UndisturbedCodeWorks`: the newest code works unless the atom was reset in between; `CodesAreRight`: `TypeOK` and `CodesAreDistinct`, two accounts wait for one code only after an overlap or a failed SMS; `SessionWasConfirmed`: a session needs a presented code, unless the phone moved during the login |

The reset by mail is in both Registration and Codes: there for the account it
makes active, here for the atom it shares.

**Proved** (CodesProofs): `CodesStayRight`, `NewestCodeWorks` and
`SessionsAreConfirmed` (`Spec => []` of the three invariants), for any number of
accounts, phones and restarts. `PinsAreMade` says that a code in use came from a
start or a sender; `LastAgrees` that the sender that stored an account's code did
so once and for it alone; `StoredAgrees` that a stored code is the one its sender
will dereference again, unless that was disturbed, and that a sender which has
reset the atom left no row with the code it sent; `RegsAgree` and `LoginsAgree`
carry the confirmation from the activation to the login, and `GivenAgrees` says
where a presented code came from. The attempt to prove `SessionWasConfirmed`
without `moved` failed for a good reason: an account that was confirmed can take a
phone, be compared by a login of that phone, and give it up before the third read, which
then finds another account. The run has this case since.

## 9. Market

`Market.tla`: a listing resets its atom, inserts under it and dereferences again
for the reply. An order takes its id from the atom (`TakeOrderId`), reads the
price (`ReadPrice`) and the shipping (`ReadShip`) in two queries, in the order in
which the map of the INSERT is evaluated, and inserts. A price and a shipping are
named for the listing or edit that set them: that is all a total is about.
`CheckSeller` is the guard the code has (creator of the product against creator
of the order), `CheckBuyer` that of completion, `UpdateStatus` and `SetSold` its
two updates.

| run | instance | shows |
|---|---|---|
| market_safety | 1 product edited and deleted with 2 orders shipped and completed, or 2 products and 1 order paid; database fails, one restart | `MarketIsRight`: `TypeOK`, placed orders are stored and distinct (`PlacedIsStored`), who listed alone was told the right id (`UndisturbedListing`); `UndisturbedTotal`: an undisturbed total was on offer; `BuyerDecides`: only the buyer completes |

**Proved** (MarketProofs), for any number of sellers, buyers, requests and
restarts: `MarketStaysRight` (`Spec => []MarketIsRight`), `TotalsAreOffered`
(`[]UndisturbedTotal`) and `OnlyBuyersComplete` (`[]BuyerDecides`). `AtomsAgree`
says that a listing finds its own id in the atom or overlapped the one whose id
it finds; `ListingsAgree` that price and shipping are written together;
`OrdersAgree` what an order has read so far and that it is in force unless the
product was edited since; `MarksAgree` that whoever is about to update a status
names a placed order and, to complete it, is its buyer. `BuyerDecides` needs
nothing of the totals, and no theorem needs restarts to be bounded.

## 10. Contracts, metadata and events

`Scon.tla` is the notation in which arguments of a contract are typed, its
parser as ordered choices over a text of lexemes (`p || q` tries `q` only if `p`
is an error, not a failure), and its printer. `Transcode.tla` is the encoder and
decoder over the type registry. `Commands.tla` has the three commands and the chain
they act on (`exec`, `instantiate`, `call`; `put_code`, `instantiate_call`,
`call_call`; `watched`, `fails`); what a line is encoded to and what a contract
may run are its constants `Encoded`, `ConstructorRuns` and `MessageRuns`. A contract is
external: it runs the entry its data selects, and a constructor may instantiate
another contract first. `Contracts.tla` gives these constants their meaning with the encoder
(`EncodedLines`, `RunsOfConstructors`, `RunsOfMessages`) and states what a typed
line means.

`Metadata.tla` converts what a node answers (`try_from`: four tables by module)
and derives storage keys and call bytes. A storage key begins with the prefix of
the module's storage, which need not be the module's name. In `Requests.tla` a
client connects and asks (`connect`, `ask_key`, `ask_call`). `Events.tla` registers type
sizes (`register_type_sizes`) and decodes a block record by record
(`begin_block`, `next_record`, `end_block`), with the node's encoder
(`EncodeRecord`) as the other side.

| run | instance | shows |
|---|---|---|
| codec_safety | some fifty texts for thirteen types, typed by one user while another instantiates; four nodes with different metadata, blocks of up to two of thirteen records, all stores and calls of five pallets | `TypedIsRun`: a contract runs the named entry with the typed values; `ReplayIsSame`: what it read, printed and typed again, gives the same data; `AnswersAreRight`: `CTypeOK`, `AnswersOwnContract`, `AnsweredWasApplied`; `RequestsAreRight`: `KeysAreDistinct`, no two requests are answered one key, and `CallIsTheNamedOne`; `BlocksAreTold`: `ETypeOK`, `WarnedBeforeFailing` and `ToldAsWritten`, records are told as written up to the first dispatch error |

**Bounds.** Integers have one or two bytes, u128 and i128 a maximum of 99999 and
999; `ByteSpan` is 3, so that an index can exceed a byte. Every alternative of
the grammar, every shape of type and every branch of the encoder and decoder has
a text or a type of its own. Two records are one before and one after a fault.
`MCNext` keeps the second user at rest while the first types what the second
never does (`MCRests`), ends with that command (`MCOver`, the next one would
start afresh), and keeps requests for keys apart from blocks (`MCApart`); neither
reads what the other wrote. Two requests (`MaxAsked`) are what `KeysAreDistinct` compares.

**Proved** (SubxtProofs): `AnswersStayRight` (`CSpec => []AnswersAreRight`), for
any users, codes and number of contracts, and for whatever lines encode to and
contracts run. The answer of a command is read from the events of its extrinsic,
of which the properties see only what was answered. `CIInv` keeps what the events show:
`Shown` ties each event of an extrinsic to a contract or code that is on the chain,
from the block that applied it to the end of the watch and after, while the chain
only grows; `Asked` says that a command is about a code or contract that exists
and sends what its line was encoded to.

`RequestsStayRight` (`RSpec => []RequestsAreRight`), for any metadata, stores and
keys. `RIInv` is short: every answer is what the one metadata gives, which never
changes. The work is in the lemmas about the operators: `try_from` gives each
module the entry it had (`Table` keeps the last of a name), a lookup by name or
index comes back to the same module, and two entries have keys that are not prefixes
of each other, since the two hashes of a prefix have one length each and every
hasher but Identity puts such a hash before the key. `RequestsAssumption` says what this takes:
modules have indexes and storage prefixes of their own, as a runtime is built,
and a map of two keys whose first is not hashed has keys that say where they end, as the
encodings of one type do. A hash is a token that holds what was hashed, so that
collisions of Twox and Blake2 are left out. Two calls of a module of more than
`ByteSpan` calls do collide, which `CallIsTheNamedOne` excepts.

## 11. The chain client

`KeyIter.tla` is the iteration over a storage map: `iter` pins the best block (or
a given one), `fetch_keys` and `query` are the two awaits of `next`, each taking an answer
the node may give (`storage_keys_paged`, `query_storage_at`: keys in order, of that block), `pop` hands out an entry,
`fetch_fails` and `query_fails` are failures or dropped futures at either, `fetch` is a
single read. `grow` is the chain (external). `Subxt.tla` builds a client by four
requests that are answered from the best block of their moment (`ask`, `built`),
signs (`sign`, with the nonce of the best block or one the caller keeps),
submits, subscribes and watches (`subscribe_events`, `watch_extrinsic`,
`status`, `block`, `next`) over a tree of blocks, a pool and two queues per task
(external). An upgrade of the runtime gives a call's index to another function.

| run | instance | shows |
|---|---|---|
| client_safety | 3 keys, pages of 2 or of none, one fault, a chain of two blocks; or two tasks of one account, 4 blocks, an upgrade, forks, a full pool, a lost link | `ListedIsRight`: `KTypeOK`, one block throughout (`ListedIsPinned`), an entry once, and once more per failed fetch (`ListedAtMost`), all entries but those of a failed page (`ListedAtLeast`); `ToldIsItsOwn`: a watcher is told of its own extrinsic's block and events; `ExtrinsicsAreRight`: `STypeOK`, blocks apply the call that was named if the client was built on one runtime (`AppliedAsMeant`), a refusal has a cause (`InvalidForAReason`); `IterationEnds`, `WatchEnds` |

**Fairness.** `KFair`: the caller goes on calling `next` until it is told the
end, and the executor polls a future whose answer came; failures are bounded, as
an iteration over a node that always fails never ends. `SFair`: a task whose
message is in its queue is polled. None for the node: `WatchEnds` starts when a
block was told, for an extrinsic that is never included is watched for ever.

**Bounds.** Two tasks of one account are what competes for a nonce. Four blocks
are a fork, a retraction and a block that follows; one upgrade separates two
runtimes; three keys are two pages, one of them not full. The events of a block
are a set: the decoder keeps the order of the records, and nobody who is told
of them depends on it.

**Proved** (SubxtProofs), for any number of tasks and accounts, any bound on
blocks and on the pool, and blocks with at most two extrinsics of the tasks: `ExtrinsicsStayRight` (`SSpec => []ExtrinsicsAreRight`)
and `WatchesAreToldTheirOwn` (`SSpec => []ToldIsItsOwn`). The invariant `SIInv`
says of the tree of blocks what no queue or task can see by itself.
`ChainAgrees` gives a block its line of ancestors and the runtime it was made
for; `NoncesAgree` says that along a line the nonces of an account are used
without a gap, and no extrinsic twice; `PoolAgrees` that what waits in the pool
is on no block of the best line, however that line is switched by a fork.
`ClientAgrees` and `SignedAgree` tie an extrinsic to the answers its client was
built from: a block takes it only if the version it was signed for is the
block's, and if that is also the version of the metadata, its index means the
call that was named (`AppliedAsMeant`). A refusal (`InvalidForAReason`) is for a
runtime that has changed, or for a nonce that another extrinsic of the account
has too: were the nonce merely stale, `NoncesAgree` names who used it.
That the caller set the nonce turned out to be no excuse of its own, and
the property does not grant it. `TasksAgree` and `QueuesAgree` follow what is in
flight, and `TellsAgree`, for the second theorem, that a task which waits for
its events knows the place of its own extrinsic in the block.

`ListedStaysRight` (`KSpec => []ListedIsRight`), for any finite set of keys, page
size, chain and number of failures. `KIInv` says where each key of the pinned
block is: in the page whose values are asked for or in the buffer (`Waiting`), in a
page to come (`ToCome`: behind `start_key`), or done. `OnceLess` and `OnceAtLeast` count
with it: a key that waits or is to come was handed out once less than the failed
fetches allow, and one that neither waits nor is to come was handed out, did not
decode, or is lost with its page. A failed fetch sets `start_key` back, which makes
every key one to come and is paid for by `failed`. That no key is skipped rests on a page
being the *first* keys behind `start_key` (lemma `FirstIs`): it has a greatest key, nothing
between it and the page before is left out, and it is empty only if no key is to come.

## 12. The wallet file

`Args.tla` is the iterator over words and the parser of each command,
`Keystore.tla` the three kinds of keys, the pkcs8 box in cells of sixteen bytes
and the keystore file, `WalletStore.tla` the processes: a shell (`Main`) or a
worker of the service (`Http`) runs one operation at a time, opens the file by
itself, and saves in three steps (`save_load`, `save_add`, `save_put`), the last
of which truncates first; `crash` can come at each. `disturbed` is the set of
locations where two saves overlapped or one was cut short.

| run | instance | shows |
|---|---|---|
| services_safety, subject "keys" | one shell, one worker, two locations, three operations; lines in every way flags can be written | `WalletIsRight`: `WTypeOK`, `KeysAreKept`, `KeyUnlessWatched`, `NameMeansTheFirst`, `SignedAsNamed`; `BackupsAreRight`: `BackupRestores`, `RecoveredIsSame`; `RunsAsWritten`: what runs is what was written |

**Bounds.** Three operations are one that adds, one that adds or watches the
same, and one that uses it; two processes are what it takes for saves to overlap.

**Proved** (OfficeProofs): `WalletStaysRight` (`WSpec => []WalletIsRight`) and
`BackupsStayRight` (`WSpec => []BackupsAreRight`), for any number of processes,
wallets, files and operations. `WalletStoreAssumption` says that `Locations` has every
directory a line or request names, and that the keystore files which are there at the start were
made by somebody from a key under their password. `WIInv` follows a book from the file into the memory of a
process and back. `SavesAgree` is the heart: in a wallet that is not `disturbed` one process
saves at a time, what it loaded is what the file still holds, and both the file and
what is about to be written keep all that was told (`Keeps`); a second process
that starts to save, or a crash of the first in `put`, disturbs the wallet and ends
the claim. `CreationIsFirst` says that nobody is past the opening of a wallet
that is being created, so that the empty file overwrites nothing. `BooksAgree` and
`MemoriesAgree` say that an address is in a book once and has the pair its
key makes (`Sound`), which `SignedAsNamed` needs, and `FilesAgree` that a keystore was
made of such a key under its password. `BackupRestores` then is a fact about
`encode` and `decode` in cells: the divider is found in the one place where the
length of the secret puts it. The attempt to prove `NameMeansTheFirst` of an entry whose label and address are new
among the labels and the addresses failed: `Wallet::get` finds an entry by label *or*
address, so that a name which is an earlier entry's address means that one. `IsFirst`
excludes it.

`LineIsRead` is about the parser by itself: a command followed by any number of
its flags, each in any form (`-f x`, `-fx`, `--file x`, `--file=x`) and given as
often as one likes, is read to that command, and each field holds what the last flag given
for it says. It is proved by induction over the line (`LeastNumber`: a first word
at which the loop went wrong has a predecessor at which it did not). `RunsAsWritten` is the instance that
the run checks against what it writes; `LineIsRead` does not cover lines that are
refused, nor what `command` makes of the fields.

## 13. Profiles, merchants, Stellar

`Profile.tla`: `set-kyc!` in three statements around the atom `docs-id`
(INSERT, status, link, then the reset), changes of a password or PIN as a
comparison and an UPDATE. `Merchants.tla`: merchant and partner in two
statements, keys through the atom `user-id`, which is dereferenced three times.
`Stellar.tla`: the five routes over a ledger that takes a transaction only with
the next sequence number of its account, and whose answers may be lost.

| run | instance | shows |
|---|---|---|
| services_safety, subject "profile" | 3 submissions of 2 users, or 3 changes; statements fail, restarts | `DocumentsAreRight`: `PTypeOK`, `LinkedIsOwn`, `NextDocumentIsFree`, `AcceptedOnce`, `VerifyingHasDocument`; `ReplacedKnowingly`: a secret is replaced by one who knew it, or after an overlapping change |
| services_safety, subject "merchants" | 2 merchants, 1 branch, 3 requests for keys of 2 users | `PartnersAreRight`: `MTypeOK`, `PartnersHaveMerchant`, `BranchesHaveMerchant`, `KeysAreOfPartners`, `UndisturbedKeyWorks` |
| services_safety, subject "stellar" | at most 3 of 8 requests, 3 of them payments | `LedgerIsRight`: `StTypeOK`, `CompletedIsApplied`, `FundedIsTold`, `RefusedStaysAway`, `AppliedOnce` |

**Bounds** (`MCFew`, which every step of `MCNext` keeps). Submissions and changes touch different columns, branches
and keys different tables, so each runs apart from the other. Four UUIDs are one
per submission and the first. Two payments that exceed a balance together and
one back, or two wallets from one distributor, are what a sequence number keeps
apart; a third request comes before or after.

**Proved** (OfficeProofs): `DocumentsStayRight` (`PSpec => []DocumentsAreRight`)
and the action property `SecretsAreReplacedKnowingly` (`ReplacedKnowingly`).
`set-kyc!` reads `docs-id` again for the link without any lock, and is right all
the same: `OneUnderWay` shows why. The INSERT of a second submission is refused
by the primary key as long as the first has not reset the atom, so that one
submission at a time is past it and the id in the atom is of its document.
`OnePerUser` adds that who passed the INSERT is the only one of that user to do
so, and `CheckedIsKnown` that a compared secret is in force or was replaced by a
change that overlapped.

**Proved** (OfficeProofs): `PartnersStayRight` (`MSpec => []PartnersAreRight`).
`SecretsAgree` follows the uuid that an undisturbed partner's request puts into
the atom through the three dereferences; `OverlapIsKnown` says that no other
request is between them, `GetsAgree` that ids in use were made, and `AddsAgree`
that the merchant is stored before its creator becomes a partner.

**Proved** (OfficeProofs): `LedgerStaysRight` (`StSpec => []LedgerIsRight`), for any
number of accounts and requests. `AppliedOnce` sums over the payments that were
applied; `FewApplied` says that they are finitely many, so that the sum is one, and a
step either leaves the set of payments alone or adds one that was not in it, which
adds its amount to one sum of each of its two accounts. `Unsent` and
`CreatedByItsJob` carry `FundedIsTold`: an account that a request was to create is there by
that request's transaction, and who submitted one is answered the pair. The sequence number plays no
part in the safety of balances, as a transaction has one outcome; it decides which
of several requests fails.

## 14. What was found

rewards_twice is refuted by TLC, of a property that a reply of the code states
(`genreward.clj:84`, PROJECT.json "findings" quotes it): two claims at once are both
congratulated. Five more definitions state what a comment, a reply or a test
says, each under "does not keep" or next to the property that does hold; named as
an INVARIANT in the cfg of their run, or checked with nothing failing, TLC
refutes each:

1. `TransferIsSaved` of Payment, `pay.clj:107`: two payments at once read the same id from
   the atom, and the second is not archived.
2. `AppGetsItsWallet` of Wallets, `getwallet.clj:52`: of two users at once, one is
   shown a wallet and gets another.
3. `LinkWorks` of Registration, `register.clj:49`: of two registrations at once,
   one is mailed a link that does not work.
4. `WholeTextIsRead` of Contracts, `parse.rs:250`: `parse_value` drops the text
   after the value it read, so that `1_000` is read as 1; the test at
   `parse.rs:374` expects a literal.
5. `RecordsAreAligned` of Events, `events.rs:248`: after a dispatch error the rest
   of the record, topics included, is not read, and every later record of the
   block is misread.

Next to each stands the property that does hold of undisturbed requests, so that
the runs also say how far the code is right. The shape of the first three (an
atom read again after another request reset it) is also in the codes by SMS (`register.clj:95`), the
id of a listing (`sdm_products.clj:27`), the total of an order
(`sdm_orders.clj:16-17`) and the API key (`merchant.clj:90`).

Seen while modelling, and faithfully in the models:

* Rewards, wallets, accounts: no reward is ever posted (`pay.clj:134`); the KE
  token API replies with a second wallet (`waves/wallet.clj:43`); the phone test
  of `getwallet.clj:43` reads a column its query does not select; a phone is
  stored before it is verified (`userinfo.clj:110`); a provider that fails
  half-way leaves an account without an address (`login.clj:161`).
* Documents: a status update or a link that fails after the INSERT leaves the used
  id in the atom, and every later submission of anyone is refused until a
  restart (`userinfo.clj:88-97`). `NextDocumentIsFree` names exactly this excuse.
* API keys: two overlapping requests store two keys, and either is told a secret
  that may not be the stored one (`merchant.clj:87-91`).
* Stellar: a wallet is answered whose account was not created
  (`createwallet.js:9`), a fee is answered as charged whatever the
  ledger made of the submission, balances are compared as texts (`Payment.js:20`), and
  the API server tells of success whatever the service answered about an asset
  (`addasset.clj:38`).
* Wallet file: `http_transfer` has no route, `/transfer` is the other handler; the
  labels of `getnewaddress` from a phrase are shifted (ed25519 makes an sr25519
  key, ecdsa an ed25519 key, `cli/wallet.rs:14-20`), and the flag `--ecdsa` is
  labelled ed25519 (`operation.rs:337`); the usage text documents `-v` but only `--version` is
  matched; an address that was watched before says it is restored and keeps no key;
  `from_keystore` does not compare the file's address.
* Chain client: a watcher waits for ever on a subscription that was closed; a
  failed page of keys starts an iteration over, a failed page of values is skipped;
  metadata and version of a client may be those of two runtimes.

## 15. Proved, model-checked, not modelled

* **Proved for all constants** (33 theorems, PROJECT.json lists them): every
  property of the runs of Payment, Rewards, Wallets, Registration, Codes, Market,
  Subxt, KeyIter, Commands, Requests, Profile, Merchants, WalletStore and Stellar but
  liveness, that Payment implements PaymentPromise, and that a line of flags of any
  length is read as it was written. Sections 4 to 13 give the arguments.
* **Model-checked only**: liveness (`EveryRequestEnds`, `AcceptedSettles`,
  `ToldGetsStored`, `IterationEnds`, `WatchEnds`), which is out of the prover's
  reach, as is ENABLED; `TypedIsRun`, `ReplayIsSame` and `BlocksAreTold`, whose
  modules need RECURSIVE operators; and `RunsAsWritten`, which is about the lines
  of its run.
* **Induction.** The library's induction theorems take an operator as a parameter, which
  the provers cannot instantiate. Where a proof needs induction it takes the
  least counterexample instead (`LeastNumber`, from the library's first-order facts that `<` is well-founded
  on the naturals and that a non-empty set then has a minimal member): so are the loop over a command
  line, sums over finite sets and recursive functions reasoned about. What a RECURSIVE
  operator computes stays out of reach.
* **Refuted on purpose**: `ClaimedOnce` (rewards_twice).
* **Not modelled**: read-only handlers (history, portfolio, lookups, lists,
  partner login); assets and white lists of the API server, which pass one request to
  the Stellar service; routes and schemas; images of products; the schema
  migration, run by hand; `subkey`, third-party code kept in the tree; the Waves
  and S3 services and `sendsms`, thin wrappers of one library call; `IssueAsset`, a script run once; the RPC
  client's transport; the subscriptions to headers and the proofs and session keys of
  `rpc.rs`, single requests without state. Handlers with no caller (`rewarding!`,
  the `accountbyphone` namespace) are left out.
* **Abstracted everywhere**: passwords, hashes, encryption, signatures and JWTs to
  what they decide; texts to which reply it is, or to lexemes where they are
  parsed; UUIDs, tokens and pins to distinct values; SCALE integers to one or two
  bytes.
