---------------------------- MODULE RewardsProofs ----------------------------
(***************************************************************************)
(* Proofs about Rewards for every set of requests, users and rates: the    *)
(* inductive invariant, the safety properties it implies, and the step     *)
(* that no second claim of a spent string takes.                           *)
(***************************************************************************)
EXTENDS Rewards, FiniteSetTheorems, TLAPS

(* The ids are apart, and requests have users and amounts.                 *)
LEMMA Kinds ==
  /\ \A g \in Gens : g \in Ids /\ g \notin Adds /\ g # NoId /\ By[g] \in Users
  /\ \A a \in Adds : a \in Ids /\ a \notin Gens /\ a # NoId /\ By[a] \in Users
  /\ \A c \in Claims : By[c] \in Users
  /\ NoId \in Ids
  BY RewardsAssumption DEF Ids

LEMMA Rewarded ==
  ASSUME TypeOK, NEW r \in Gens \cup Adds
  PROVE  Reward(r) \in Nat
  <1>1. Spend[r] \in Nat /\ rate \in Nat
    BY RewardsAssumption DEF TypeOK
  <1>2. \A m, n \in Nat : m * n \in Nat
    OBVIOUS
  <1>3. QED
    BY <1>1, <1>2 DEF Reward

(* Steps that leave the booked receipts alone.                             *)
LEMMA SameBooks ==
  ASSUME IInv,
         \A i \in Adds : /\ receipt'[i].status = "none" <=> receipt[i].status = "none"
                         /\ receipt'[i].by = receipt[i].by,
         \A a \in Adds : add'[a] = "saved" <=> add[a] = "saved"
  PROVE  BooksAreFinite' /\ SavedIsOnTheBooks'
  <1>1. /\ {i \in Adds : receipt'[i].status # "none"} = {i \in Adds : receipt[i].status # "none"}
        /\ {a \in Adds : add'[a] = "saved"} = {a \in Adds : add[a] = "saved"}
    OBVIOUS
  <1>2. ASSUME NEW u \in Users
        PROVE  /\ {i \in Adds : receipt'[i].status # "none" /\ receipt'[i].by = u}
                     = {i \in Adds : receipt[i].status # "none" /\ receipt[i].by = u}
               /\ {a \in Adds : add'[a] = "saved" /\ By[a] = u} = {a \in Adds : add[a] = "saved" /\ By[a] = u}
    OBVIOUS
  <1>3. QED
    BY <1>1, <1>2 DEF IInv, BooksAreFinite, SavedIsOnTheBooks

LEMMA InitIInv == Init => IInv
  <1> SUFFICES ASSUME Init PROVE IInv
    OBVIOUS
  <1> USE DEF Init
  <1>0. NoReceipt \in Receipt /\ NoReceipt.status = "none" /\ NoString \in [id : Gens \cup {NoId}, amount : Nat]
    BY DEF NoReceipt, NoString, Receipt
  <1>1. TypeOK
    BY <1>0, Kinds DEF TypeOK, Generating, Adding, Claiming
  <1>2. StampsAgree /\ GenerationsAgree
    BY DEF StampsAgree, InProgress, GenerationsAgree
  <1>3. ClaimsAgree
    BY <1>0, Kinds DEF ClaimsAgree
  <1>4. UndisturbedIsRight /\ CongratulatedIsCompleted
    BY DEF UndisturbedIsRight, CongratulatedIsCompleted
  <1>5. CompletedIsSpent
    BY <1>0, Kinds DEF CompletedIsSpent
  <1>6. /\ {i \in Adds : receipt[i].status # "none"} = {} /\ {a \in Adds : add[a] = "saved"} = {}
        /\ \A u \in Users : /\ {i \in Adds : receipt[i].status # "none" /\ receipt[i].by = u} = {}
                            /\ {a \in Adds : add[a] = "saved" /\ By[a] = u} = {}
    BY <1>0, Kinds
  <1> HIDE DEF Init
  <1>7. BooksAreFinite
    BY <1>6, FS_EmptySet DEF BooksAreFinite
  <1>8. SavedIsOnTheBooks
    BY <1>6 DEF SavedIsOnTheBooks
  <1>9. QED
    BY <1>1, <1>2, <1>3, <1>4, <1>5, <1>7, <1>8 DEF IInv

LEMMA BeginGenIInv ==
  ASSUME IInv, NEW g \in Gens, BeginGen(g)
  PROVE  IInv'
  <1>0. /\ gen[g] = "idle"
        /\ \E next \in {"stamp", "denied"} : gen' = [gen EXCEPT ![g] = next]
    BY DEF BeginGen, GenGoto, genOnly, books
  <1>a. UNCHANGED <<txid, rtxid, rate, add, claim, string, shown, receipt, hash, log, disturbed>>
    BY DEF BeginGen, GenGoto, genOnly, books
  <1>b. /\ gen[g] = "idle" /\ gen'[g] \in {"stamp", "denied"}
        /\ \A y \in Gens \ {g} : gen'[y] = gen[y]
    BY <1>0 DEF IInv, TypeOK
  <1>1. TypeOK'
    BY <1>0, <1>a, <1>b, Kinds DEF IInv, TypeOK, Generating, Adding, Claiming
  <1>2. StampsAgree'
    BY <1>0, <1>a, <1>b, Kinds DEF IInv, StampsAgree, InProgress
  <1>3. GenerationsAgree'
    BY <1>0, <1>a, <1>b, Kinds DEF IInv, GenerationsAgree, Reward
  <1>4. ClaimsAgree'
    BY <1>0, <1>a, <1>b, Kinds DEF IInv, ClaimsAgree
  <1>5. UndisturbedIsRight'
    BY <1>0, <1>a, <1>b, Kinds DEF IInv, UndisturbedIsRight
  <1>6. CompletedIsSpent'
    BY <1>0, <1>a, <1>b, Kinds DEF IInv, CompletedIsSpent
  <1>7. CongratulatedIsCompleted'
    BY <1>4 DEF ClaimsAgree, CongratulatedIsCompleted
  <1>8. BooksAreFinite' /\ SavedIsOnTheBooks'
    BY <1>0, <1>a, <1>b, SameBooks DEF IInv, TypeOK
  <1>9. QED
    BY <1>1, <1>2, <1>3, <1>4, <1>5, <1>6, <1>7, <1>8 DEF IInv

LEMMA StampGenIInv ==
  ASSUME IInv, NEW g \in Gens, StampGen(g)
  PROVE  IInv'
  <1>0. /\ gen[g] = "stamp"
        /\ \E next \in {"receipt"} : gen' = [gen EXCEPT ![g] = next]
        /\ txid' = g
        /\ disturbed' = disturbed \cup InProgress
    BY DEF StampGen, GenGoto, genOnly, books
  <1>a. UNCHANGED <<rtxid, rate, add, claim, string, shown, receipt, hash, log>>
    BY DEF StampGen, GenGoto, genOnly, books
  <1>b. /\ gen[g] = "stamp" /\ gen'[g] \in {"receipt"}
        /\ \A y \in Gens \ {g} : gen'[y] = gen[y]
    BY <1>0 DEF IInv, TypeOK
  <1>1. TypeOK'
    BY <1>0, <1>a, <1>b, Kinds DEF IInv, TypeOK, Generating, InProgress
  <1>2. StampsAgree'
    BY <1>0, <1>a, <1>b, Kinds DEF IInv, StampsAgree, InProgress
  <1>3. GenerationsAgree'
    BY <1>0, <1>a, <1>b, Kinds DEF IInv, GenerationsAgree, Reward
  <1>4. ClaimsAgree'
    BY <1>0, <1>a, <1>b, Kinds DEF IInv, ClaimsAgree
  <1>5. UndisturbedIsRight'
    BY <1>0, <1>a, <1>b, Kinds DEF IInv, UndisturbedIsRight
  <1>6. CompletedIsSpent'
    BY <1>0, <1>a, <1>b, Kinds DEF IInv, CompletedIsSpent
  <1>7. CongratulatedIsCompleted'
    BY <1>4 DEF ClaimsAgree, CongratulatedIsCompleted
  <1>8. BooksAreFinite' /\ SavedIsOnTheBooks'
    BY <1>0, <1>a, <1>b, SameBooks DEF IInv, TypeOK
  <1>9. QED
    BY <1>1, <1>2, <1>3, <1>4, <1>5, <1>6, <1>7, <1>8 DEF IInv

(* The receipt is stored under an id that has none.                        *)
LEMMA SaveReceiptStored ==
  ASSUME IInv, NEW g \in Gens, SaveReceipt(g), receipt[txid].status = "none"
  PROVE  IInv'
  <1>0. /\ gen[g] = "receipt" /\ gen' = [gen EXCEPT ![g] = "hash"]
        /\ receipt' = [receipt EXCEPT ![txid] = NewReceipt(g)]
    BY DEF SaveReceipt, GenGoto
  <1>a. UNCHANGED <<txid, rtxid, rate, add, claim, string, shown, hash, log, disturbed>>
    BY DEF SaveReceipt, genOnly
  <1>c. txid \in Gens /\ (g \notin disturbed => txid = g)
    BY <1>0 DEF IInv, StampsAgree, InProgress
  <1>d. /\ NewReceipt(g) \in Receipt /\ NewReceipt(g).status = "pending"
        /\ NewReceipt(g).by = By[g] /\ NewReceipt(g).rewards = Reward(g)
    BY Rewarded, Kinds DEF NewReceipt, Receipt, IInv
  <1>b. /\ gen[g] = "receipt" /\ gen'[g] = "hash" /\ \A h \in Gens \ {g} : gen'[h] = gen[h]
        /\ receipt'[txid] = NewReceipt(g) /\ \A i \in Ids \ {txid} : receipt'[i] = receipt[i]
    BY <1>0, <1>c, Kinds DEF IInv, TypeOK
  <1>1. TypeOK'
    <2>1. gen' \in [Gens -> Generating \cup {"idle", "denied", "message", "error", "crashed"}]
      BY <1>0 DEF IInv, TypeOK, Generating
    <2>2. receipt' \in [Ids -> Receipt] /\ receipt'[NoId].status = "none"
      BY <1>0, <1>b, <1>c, <1>d, Kinds DEF IInv, TypeOK
    <2>3. QED
      BY <1>a, <2>1, <2>2 DEF IInv, TypeOK
  <1>2. StampsAgree'
    BY <1>a, <1>b DEF IInv, StampsAgree, InProgress
  <1>3. GenerationsAgree'
    BY <1>a, <1>b, <1>c, <1>d, Kinds DEF IInv, GenerationsAgree, Reward
  <1>4. ClaimsAgree'
    BY <1>a, <1>b, <1>c, <1>d, Kinds DEF IInv, ClaimsAgree
  <1>5. UndisturbedIsRight'
    BY <1>a, <1>b, <1>c, Kinds DEF IInv, UndisturbedIsRight, GenerationsAgree
  <1>6. CompletedIsSpent'
    BY <1>a, <1>b, <1>c, <1>d, Kinds DEF IInv, CompletedIsSpent
  <1>7. CongratulatedIsCompleted'
    BY <1>4 DEF ClaimsAgree, CongratulatedIsCompleted
  <1>8. BooksAreFinite' /\ SavedIsOnTheBooks'
    BY <1>a, <1>b, <1>c, Kinds, SameBooks
  <1>9. QED
    BY <1>1, <1>2, <1>3, <1>4, <1>5, <1>6, <1>7, <1>8 DEF IInv

LEMMA SaveReceiptRefused ==
  ASSUME IInv, NEW g \in Gens, SaveReceipt(g), receipt[txid].status # "none"
  PROVE  IInv'
  <1>0. gen[g] = "receipt" /\ gen' = [gen EXCEPT ![g] = "error"]
    BY DEF SaveReceipt, GenGoto
  <1>a. UNCHANGED <<txid, rtxid, rate, add, claim, string, shown, receipt, hash, log, disturbed>>
    BY DEF SaveReceipt, genOnly
  <1>b. gen[g] = "receipt" /\ gen'[g] = "error" /\ \A h \in Gens \ {g} : gen'[h] = gen[h]
    BY <1>0 DEF IInv, TypeOK
  <1>1. TypeOK'
    BY <1>0, <1>a, <1>b, Kinds DEF IInv, TypeOK, Generating, Adding, Claiming
  <1>2. StampsAgree'
    BY <1>0, <1>a, <1>b, Kinds DEF IInv, StampsAgree, InProgress
  <1>3. GenerationsAgree'
    BY <1>0, <1>a, <1>b, Kinds DEF IInv, GenerationsAgree, Reward
  <1>4. ClaimsAgree'
    BY <1>0, <1>a, <1>b, Kinds DEF IInv, ClaimsAgree
  <1>5. UndisturbedIsRight'
    BY <1>0, <1>a, <1>b, Kinds DEF IInv, UndisturbedIsRight
  <1>6. CompletedIsSpent'
    BY <1>0, <1>a, <1>b, Kinds DEF IInv, CompletedIsSpent
  <1>7. CongratulatedIsCompleted'
    BY <1>4 DEF ClaimsAgree, CongratulatedIsCompleted
  <1>8. BooksAreFinite' /\ SavedIsOnTheBooks'
    BY <1>0, <1>a, <1>b, SameBooks DEF IInv, TypeOK
  <1>9. QED
    BY <1>1, <1>2, <1>3, <1>4, <1>5, <1>6, <1>7, <1>8 DEF IInv

LEMMA SaveReceiptFailsIInv ==
  ASSUME IInv, NEW g \in Gens, SaveReceiptFails(g)
  PROVE  IInv'
  <1>0. /\ gen[g] = "receipt"
        /\ \E next \in {"error"} : gen' = [gen EXCEPT ![g] = next]
    BY DEF SaveReceiptFails, GenGoto, genOnly, books
  <1>a. UNCHANGED <<txid, rtxid, rate, add, claim, string, shown, receipt, hash, log, disturbed>>
    BY DEF SaveReceiptFails, GenGoto, genOnly, books
  <1>b. /\ gen[g] = "receipt" /\ gen'[g] \in {"error"}
        /\ \A y \in Gens \ {g} : gen'[y] = gen[y]
    BY <1>0 DEF IInv, TypeOK
  <1>1. TypeOK'
    BY <1>0, <1>a, <1>b, Kinds DEF IInv, TypeOK, Generating, Adding, Claiming
  <1>2. StampsAgree'
    BY <1>0, <1>a, <1>b, Kinds DEF IInv, StampsAgree, InProgress
  <1>3. GenerationsAgree'
    BY <1>0, <1>a, <1>b, Kinds DEF IInv, GenerationsAgree, Reward
  <1>4. ClaimsAgree'
    BY <1>0, <1>a, <1>b, Kinds DEF IInv, ClaimsAgree
  <1>5. UndisturbedIsRight'
    BY <1>0, <1>a, <1>b, Kinds DEF IInv, UndisturbedIsRight
  <1>6. CompletedIsSpent'
    BY <1>0, <1>a, <1>b, Kinds DEF IInv, CompletedIsSpent
  <1>7. CongratulatedIsCompleted'
    BY <1>4 DEF ClaimsAgree, CongratulatedIsCompleted
  <1>8. BooksAreFinite' /\ SavedIsOnTheBooks'
    BY <1>0, <1>a, <1>b, SameBooks DEF IInv, TypeOK
  <1>9. QED
    BY <1>1, <1>2, <1>3, <1>4, <1>5, <1>6, <1>7, <1>8 DEF IInv

(* The row of a string is stored under an id that has none.                *)
LEMMA SaveHashStored ==
  ASSUME IInv, NEW g \in Gens, SaveHash(g), hash[txid] = "none"
  PROVE  IInv'
  <1>0. /\ gen[g] = "hash" /\ gen' = [gen EXCEPT ![g] = "reply"]
        /\ hash' = [hash EXCEPT ![txid] = "valid"]
    BY DEF SaveHash, GenGoto
  <1>a. UNCHANGED <<txid, rtxid, rate, add, claim, string, shown, receipt, log, disturbed>>
    BY DEF SaveHash, genOnly
  <1>c. txid \in Gens /\ (g \notin disturbed => txid = g)
    BY <1>0 DEF IInv, StampsAgree, InProgress
  <1>b. /\ gen[g] = "hash" /\ gen'[g] = "reply" /\ \A h \in Gens \ {g} : gen'[h] = gen[h]
        /\ hash[txid] = "none" /\ hash'[txid] = "valid" /\ \A i \in Ids \ {txid} : hash'[i] = hash[i]
    BY <1>0, <1>c, Kinds DEF IInv, TypeOK
  <1>1. TypeOK'
    <2>1. gen' \in [Gens -> Generating \cup {"idle", "denied", "message", "error", "crashed"}]
      BY <1>0 DEF IInv, TypeOK, Generating
    <2>2. hash' \in [Ids -> {"none", "valid", "invalid"}] /\ hash'[NoId] = "none"
      BY <1>0, <1>b, <1>c, Kinds DEF IInv, TypeOK
    <2>3. QED
      BY <1>a, <2>1, <2>2 DEF IInv, TypeOK
  <1>2. StampsAgree'
    BY <1>a, <1>b DEF IInv, StampsAgree, InProgress
  <1>3. GenerationsAgree'
    BY <1>a, <1>b, <1>c, Kinds DEF IInv, GenerationsAgree, Reward
  <1>4. ClaimsAgree'
    BY <1>a, <1>b, <1>c, Kinds DEF IInv, ClaimsAgree
  <1>5. UndisturbedIsRight'
    BY <1>a, <1>b, <1>c, Kinds DEF IInv, UndisturbedIsRight, GenerationsAgree
  <1>6. CompletedIsSpent'
    BY <1>a, <1>b, <1>c, Kinds DEF IInv, CompletedIsSpent, ClaimsAgree
  <1>7. CongratulatedIsCompleted'
    BY <1>4 DEF ClaimsAgree, CongratulatedIsCompleted
  <1>8. BooksAreFinite' /\ SavedIsOnTheBooks'
    BY <1>a, SameBooks
  <1>9. QED
    BY <1>1, <1>2, <1>3, <1>4, <1>5, <1>6, <1>7, <1>8 DEF IInv

LEMMA SaveHashRefused ==
  ASSUME IInv, NEW g \in Gens, SaveHash(g), hash[txid] # "none"
  PROVE  IInv'
  <1>0. gen[g] = "hash" /\ gen' = [gen EXCEPT ![g] = "error"]
    BY DEF SaveHash, GenGoto
  <1>a. UNCHANGED <<txid, rtxid, rate, add, claim, string, shown, receipt, hash, log, disturbed>>
    BY DEF SaveHash, genOnly
  <1>b. gen[g] = "hash" /\ gen'[g] = "error" /\ \A h \in Gens \ {g} : gen'[h] = gen[h]
    BY <1>0 DEF IInv, TypeOK
  <1>1. TypeOK'
    BY <1>0, <1>a, <1>b, Kinds DEF IInv, TypeOK, Generating, Adding, Claiming
  <1>2. StampsAgree'
    BY <1>0, <1>a, <1>b, Kinds DEF IInv, StampsAgree, InProgress
  <1>3. GenerationsAgree'
    BY <1>0, <1>a, <1>b, Kinds DEF IInv, GenerationsAgree, Reward
  <1>4. ClaimsAgree'
    BY <1>0, <1>a, <1>b, Kinds DEF IInv, ClaimsAgree
  <1>5. UndisturbedIsRight'
    BY <1>0, <1>a, <1>b, Kinds DEF IInv, UndisturbedIsRight
  <1>6. CompletedIsSpent'
    BY <1>0, <1>a, <1>b, Kinds DEF IInv, CompletedIsSpent
  <1>7. CongratulatedIsCompleted'
    BY <1>4 DEF ClaimsAgree, CongratulatedIsCompleted
  <1>8. BooksAreFinite' /\ SavedIsOnTheBooks'
    BY <1>0, <1>a, <1>b, SameBooks DEF IInv, TypeOK
  <1>9. QED
    BY <1>1, <1>2, <1>3, <1>4, <1>5, <1>6, <1>7, <1>8 DEF IInv

LEMMA SaveHashFailsIInv ==
  ASSUME IInv, NEW g \in Gens, SaveHashFails(g)
  PROVE  IInv'
  <1>0. /\ gen[g] = "hash"
        /\ \E next \in {"error"} : gen' = [gen EXCEPT ![g] = next]
    BY DEF SaveHashFails, GenGoto, genOnly, books
  <1>a. UNCHANGED <<txid, rtxid, rate, add, claim, string, shown, receipt, hash, log, disturbed>>
    BY DEF SaveHashFails, GenGoto, genOnly, books
  <1>b. /\ gen[g] = "hash" /\ gen'[g] \in {"error"}
        /\ \A y \in Gens \ {g} : gen'[y] = gen[y]
    BY <1>0 DEF IInv, TypeOK
  <1>1. TypeOK'
    BY <1>0, <1>a, <1>b, Kinds DEF IInv, TypeOK, Generating, Adding, Claiming
  <1>2. StampsAgree'
    BY <1>0, <1>a, <1>b, Kinds DEF IInv, StampsAgree, InProgress
  <1>3. GenerationsAgree'
    BY <1>0, <1>a, <1>b, Kinds DEF IInv, GenerationsAgree, Reward
  <1>4. ClaimsAgree'
    BY <1>0, <1>a, <1>b, Kinds DEF IInv, ClaimsAgree
  <1>5. UndisturbedIsRight'
    BY <1>0, <1>a, <1>b, Kinds DEF IInv, UndisturbedIsRight
  <1>6. CompletedIsSpent'
    BY <1>0, <1>a, <1>b, Kinds DEF IInv, CompletedIsSpent
  <1>7. CongratulatedIsCompleted'
    BY <1>4 DEF ClaimsAgree, CongratulatedIsCompleted
  <1>8. BooksAreFinite' /\ SavedIsOnTheBooks'
    BY <1>0, <1>a, <1>b, SameBooks DEF IInv, TypeOK
  <1>9. QED
    BY <1>1, <1>2, <1>3, <1>4, <1>5, <1>6, <1>7, <1>8 DEF IInv

LEMMA ReplyStringIInv ==
  ASSUME IInv, NEW g \in Gens, ReplyString(g)
  PROVE  IInv'
  <1>0. /\ gen[g] = "reply"
        /\ \E next \in {"message"} : gen' = [gen EXCEPT ![g] = next]
        /\ string' = [string EXCEPT ![g] = [id |-> txid, amount |-> Reward(g)]]
    BY DEF ReplyString, GenGoto, genOnly, books
  <1>a. UNCHANGED <<txid, rtxid, rate, add, claim, shown, receipt, hash, log, disturbed>>
    BY DEF ReplyString, GenGoto, genOnly, books
  <1>b. /\ gen[g] = "reply" /\ gen'[g] \in {"message"}
        /\ \A y \in Gens \ {g} : gen'[y] = gen[y]
    BY <1>0 DEF IInv, TypeOK

  <1>c. /\ txid \in Gens /\ (g \notin disturbed => txid = g) /\ Reward(g) \in Nat
        /\ string'[g].id = txid /\ string'[g].amount = Reward(g)
        /\ \A h \in Gens \ {g} : string'[h] = string[h]
    BY <1>0, Rewarded DEF IInv, StampsAgree, InProgress, TypeOK
  <1>1. TypeOK'
    <2>1. gen' \in [Gens -> Generating \cup {"idle", "denied", "message", "error", "crashed"}]
      BY <1>0 DEF IInv, TypeOK, Generating
    <2>2. string' \in [Gens -> [id : Gens \cup {NoId}, amount : Nat]]
      BY <1>0, <1>c DEF IInv, TypeOK
    <2>3. QED
      BY <1>a, <2>1, <2>2 DEF IInv, TypeOK
  <1>2. StampsAgree'
    BY <1>0, <1>a, <1>b, Kinds DEF IInv, StampsAgree, InProgress
  <1>3. GenerationsAgree'
    BY <1>a, <1>b, <1>c DEF IInv, GenerationsAgree, Reward
  <1>4. ClaimsAgree'
    BY <1>0, <1>a, <1>b, Kinds DEF IInv, ClaimsAgree
  <1>5. UndisturbedIsRight'
    BY <1>a, <1>b, <1>c DEF IInv, UndisturbedIsRight, GenerationsAgree
  <1>6. CompletedIsSpent'
    BY <1>0, <1>a, <1>b, Kinds DEF IInv, CompletedIsSpent
  <1>7. CongratulatedIsCompleted'
    BY <1>4 DEF ClaimsAgree, CongratulatedIsCompleted
  <1>8. BooksAreFinite' /\ SavedIsOnTheBooks'
    BY <1>0, <1>a, <1>b, SameBooks DEF IInv, TypeOK
  <1>9. QED
    BY <1>1, <1>2, <1>3, <1>4, <1>5, <1>6, <1>7, <1>8 DEF IInv

LEMMA CheckIInv ==
  ASSUME IInv, NEW c \in Claims, Check(c)
  PROVE  IInv'
  <1>0. /\ claim[c] = "idle"
        /\ \E next \in {"denied", "receipt", "expired"} : claim' = [claim EXCEPT ![c] = next]
        /\ \E g \in Gens : gen[g] = "message" /\ shown' = [shown EXCEPT ![c] = string[g].id] /\ (claim'[c] = "receipt" => hash[string[g].id] = "valid")
    BY DEF Check, IInv, TypeOK, ClaimGoto, claimOnly, books
  <1>a. UNCHANGED <<txid, rtxid, rate, gen, add, string, receipt, hash, log, disturbed>>
    BY DEF Check, IInv, TypeOK, ClaimGoto, claimOnly, books
  <1>b. /\ claim[c] = "idle" /\ claim'[c] \in {"denied", "receipt", "expired"}
        /\ \A y \in Claims \ {c} : claim'[y] = claim[y]
    BY <1>0 DEF IInv, TypeOK

  <1>c. /\ shown'[c] \in Gens /\ (claim'[c] = "receipt" => hash[shown'[c]] = "valid")
        /\ \A d \in Claims \ {c} : shown'[d] = shown[d]
    BY <1>0 DEF IInv, GenerationsAgree, TypeOK
  <1>1. TypeOK'
    <2>1. claim' \in [Claims -> Claiming \cup {"idle", "denied", "expired", "error", "congratulated", "crashed"}]
      BY <1>0 DEF IInv, TypeOK, Claiming
    <2>2. shown' \in [Claims -> Gens \cup {NoId}]
      BY <1>0, <1>c DEF IInv, TypeOK
    <2>3. QED
      BY <1>a, <2>1, <2>2 DEF IInv, TypeOK
  <1>2. StampsAgree'
    BY <1>0, <1>a, <1>b, Kinds DEF IInv, StampsAgree, InProgress
  <1>3. GenerationsAgree'
    BY <1>0, <1>a, <1>b, Kinds DEF IInv, GenerationsAgree, Reward
  <1>4. ClaimsAgree'
    BY <1>a, <1>b, <1>c DEF IInv, ClaimsAgree
  <1>5. UndisturbedIsRight'
    BY <1>0, <1>a, <1>b, Kinds DEF IInv, UndisturbedIsRight
  <1>6. CompletedIsSpent'
    BY <1>a, <1>b, <1>c DEF IInv, CompletedIsSpent, ClaimsAgree, TypeOK
  <1>7. CongratulatedIsCompleted'
    BY <1>4 DEF ClaimsAgree, CongratulatedIsCompleted
  <1>8. BooksAreFinite' /\ SavedIsOnTheBooks'
    BY <1>0, <1>a, <1>b, SameBooks DEF IInv, TypeOK
  <1>9. QED
    BY <1>1, <1>2, <1>3, <1>4, <1>5, <1>6, <1>7, <1>8 DEF IInv

LEMMA CompleteReceiptIInv ==
  ASSUME IInv, NEW c \in Claims, CompleteReceipt(c)
  PROVE  IInv'
  <1>0. /\ claim[c] = "receipt"
        /\ \E next \in {"hash"} : claim' = [claim EXCEPT ![c] = next]
        /\ IF receipt[shown[c]].status = "none"
           THEN UNCHANGED receipt
           ELSE receipt' = [receipt EXCEPT ![shown[c]].status = "completed", ![shown[c]].claimer = By[c]]
    BY DEF CompleteReceipt, ClaimGoto, claimOnly, books
  <1>a. UNCHANGED <<txid, rtxid, rate, gen, add, string, shown, hash, log, disturbed>>
    BY DEF CompleteReceipt, ClaimGoto, claimOnly, books
  <1>b. /\ claim[c] = "receipt" /\ claim'[c] \in {"hash"}
        /\ \A y \in Claims \ {c} : claim'[y] = claim[y]
    BY <1>0 DEF IInv, TypeOK

  <1>c. shown[c] \in Gens /\ shown[c] \in Ids /\ hash[shown[c]] # "none"
    BY <1>0, Kinds DEF IInv, ClaimsAgree
  <1>d. /\ receipt'[shown[c]] \in Receipt
        /\ receipt'[shown[c]].by = receipt[shown[c]].by /\ receipt'[shown[c]].rewards = receipt[shown[c]].rewards
        /\ IF receipt[shown[c]].status = "none" THEN receipt'[shown[c]].status = "none"
                                              ELSE receipt'[shown[c]].status = "completed"
        /\ \A i \in Ids \ {shown[c]} : receipt'[i] = receipt[i]
    <2>1. receipt[shown[c]] \in Receipt /\ By[c] \in Users
      BY <1>c, Kinds DEF IInv, TypeOK
    <2>2. QED
      BY <1>0, <1>c, <2>1 DEF IInv, TypeOK, Receipt
  <1>1. TypeOK'
    <2>1. claim' \in [Claims -> Claiming \cup {"idle", "denied", "expired", "error", "congratulated", "crashed"}]
      BY <1>0 DEF IInv, TypeOK, Claiming
    <2>2. receipt' \in [Ids -> Receipt] /\ receipt'[NoId].status = "none"
      BY <1>0, <1>c, <1>d, Kinds DEF IInv, TypeOK
    <2>3. QED
      BY <1>a, <2>1, <2>2 DEF IInv, TypeOK
  <1>2. StampsAgree'
    BY <1>0, <1>a, <1>b, Kinds DEF IInv, StampsAgree, InProgress
  <1>3. GenerationsAgree'
    BY <1>a, <1>c, <1>d, Kinds DEF IInv, GenerationsAgree, Reward
  <1>4. ClaimsAgree'
    BY <1>a, <1>b, <1>c, <1>d, Kinds DEF IInv, ClaimsAgree, GenerationsAgree
  <1>5. UndisturbedIsRight'
    BY <1>a, <1>c, <1>d, Kinds DEF IInv, UndisturbedIsRight
  <1>6. CompletedIsSpent'
    BY <1>a, <1>b, <1>c, <1>d, Kinds DEF IInv, CompletedIsSpent
  <1>7. CongratulatedIsCompleted'
    BY <1>4 DEF ClaimsAgree, CongratulatedIsCompleted
  <1>8. BooksAreFinite' /\ SavedIsOnTheBooks'
    BY <1>a, <1>c, <1>d, Kinds, SameBooks
  <1>9. QED
    BY <1>1, <1>2, <1>3, <1>4, <1>5, <1>6, <1>7, <1>8 DEF IInv

LEMMA CompleteReceiptFailsIInv ==
  ASSUME IInv, NEW c \in Claims, CompleteReceiptFails(c)
  PROVE  IInv'
  <1>0. /\ claim[c] = "receipt"
        /\ \E next \in {"error"} : claim' = [claim EXCEPT ![c] = next]
    BY DEF CompleteReceiptFails, ClaimGoto, claimOnly, books
  <1>a. UNCHANGED <<txid, rtxid, rate, gen, add, string, shown, receipt, hash, log, disturbed>>
    BY DEF CompleteReceiptFails, ClaimGoto, claimOnly, books
  <1>b. /\ claim[c] = "receipt" /\ claim'[c] \in {"error"}
        /\ \A y \in Claims \ {c} : claim'[y] = claim[y]
    BY <1>0 DEF IInv, TypeOK
  <1>1. TypeOK'
    BY <1>0, <1>a, <1>b, Kinds DEF IInv, TypeOK, Generating, Adding, Claiming
  <1>2. StampsAgree'
    BY <1>0, <1>a, <1>b, Kinds DEF IInv, StampsAgree, InProgress
  <1>3. GenerationsAgree'
    BY <1>0, <1>a, <1>b, Kinds DEF IInv, GenerationsAgree, Reward
  <1>4. ClaimsAgree'
    BY <1>0, <1>a, <1>b, Kinds DEF IInv, ClaimsAgree
  <1>5. UndisturbedIsRight'
    BY <1>0, <1>a, <1>b, Kinds DEF IInv, UndisturbedIsRight
  <1>6. CompletedIsSpent'
    BY <1>0, <1>a, <1>b, Kinds DEF IInv, CompletedIsSpent
  <1>7. CongratulatedIsCompleted'
    BY <1>4 DEF ClaimsAgree, CongratulatedIsCompleted
  <1>8. BooksAreFinite' /\ SavedIsOnTheBooks'
    BY <1>0, <1>a, <1>b, SameBooks DEF IInv, TypeOK
  <1>9. QED
    BY <1>1, <1>2, <1>3, <1>4, <1>5, <1>6, <1>7, <1>8 DEF IInv

LEMMA SpendHashIInv ==
  ASSUME IInv, NEW c \in Claims, SpendHash(c)
  PROVE  IInv'
  <1>0. /\ claim[c] = "hash"
        /\ \E next \in {"reply"} : claim' = [claim EXCEPT ![c] = next]
        /\ hash' = [hash EXCEPT ![shown[c]] = "invalid"]
    BY DEF SpendHash, ClaimGoto, claimOnly, books
  <1>a. UNCHANGED <<txid, rtxid, rate, gen, add, string, shown, receipt, log, disturbed>>
    BY DEF SpendHash, ClaimGoto, claimOnly, books
  <1>b. /\ claim[c] = "hash" /\ claim'[c] \in {"reply"}
        /\ \A y \in Claims \ {c} : claim'[y] = claim[y]
    BY <1>0 DEF IInv, TypeOK

  <1>c. /\ shown[c] \in Gens /\ shown[c] \in Ids
        /\ hash'[shown[c]] = "invalid" /\ \A i \in Ids \ {shown[c]} : hash'[i] = hash[i]
    BY <1>0, Kinds DEF IInv, ClaimsAgree, TypeOK
  <1>1. TypeOK'
    <2>1. claim' \in [Claims -> Claiming \cup {"idle", "denied", "expired", "error", "congratulated", "crashed"}]
      BY <1>0 DEF IInv, TypeOK, Claiming
    <2>2. hash' \in [Ids -> {"none", "valid", "invalid"}] /\ hash'[NoId] = "none"
      BY <1>0, <1>c, Kinds DEF IInv, TypeOK
    <2>3. QED
      BY <1>a, <2>1, <2>2 DEF IInv, TypeOK
  <1>2. StampsAgree'
    BY <1>0, <1>a, <1>b, Kinds DEF IInv, StampsAgree, InProgress
  <1>3. GenerationsAgree'
    BY <1>a, <1>c, Kinds DEF IInv, GenerationsAgree, Reward
  <1>4. ClaimsAgree'
    BY <1>a, <1>b, <1>c, Kinds DEF IInv, ClaimsAgree
  <1>5. UndisturbedIsRight'
    BY <1>a, <1>c, Kinds DEF IInv, UndisturbedIsRight
  <1>6. CompletedIsSpent'
    BY <1>a, <1>b, <1>c, Kinds DEF IInv, CompletedIsSpent
  <1>7. CongratulatedIsCompleted'
    BY <1>4 DEF ClaimsAgree, CongratulatedIsCompleted
  <1>8. BooksAreFinite' /\ SavedIsOnTheBooks'
    BY <1>0, <1>a, <1>b, SameBooks DEF IInv, TypeOK
  <1>9. QED
    BY <1>1, <1>2, <1>3, <1>4, <1>5, <1>6, <1>7, <1>8 DEF IInv

LEMMA SpendHashFailsIInv ==
  ASSUME IInv, NEW c \in Claims, SpendHashFails(c)
  PROVE  IInv'
  <1>0. /\ claim[c] = "hash"
        /\ \E next \in {"reply"} : claim' = [claim EXCEPT ![c] = next]
        /\ log' = log \cup {c}
    BY DEF SpendHashFails, ClaimGoto, claimOnly, books
  <1>a. UNCHANGED <<txid, rtxid, rate, gen, add, string, shown, receipt, hash, disturbed>>
    BY DEF SpendHashFails, ClaimGoto, claimOnly, books
  <1>b. /\ claim[c] = "hash" /\ claim'[c] \in {"reply"}
        /\ \A y \in Claims \ {c} : claim'[y] = claim[y]
    BY <1>0 DEF IInv, TypeOK
  <1>1. TypeOK'
    BY <1>0, <1>a, <1>b, Kinds DEF IInv, TypeOK, Generating, Adding, Claiming
  <1>2. StampsAgree'
    BY <1>0, <1>a, <1>b, Kinds DEF IInv, StampsAgree, InProgress
  <1>3. GenerationsAgree'
    BY <1>0, <1>a, <1>b, Kinds DEF IInv, GenerationsAgree, Reward
  <1>4. ClaimsAgree'
    BY <1>0, <1>a, <1>b, Kinds DEF IInv, ClaimsAgree
  <1>5. UndisturbedIsRight'
    BY <1>0, <1>a, <1>b, Kinds DEF IInv, UndisturbedIsRight
  <1>6. CompletedIsSpent'
    BY <1>0, <1>a, <1>b, Kinds DEF IInv, CompletedIsSpent
  <1>7. CongratulatedIsCompleted'
    BY <1>4 DEF ClaimsAgree, CongratulatedIsCompleted
  <1>8. BooksAreFinite' /\ SavedIsOnTheBooks'
    BY <1>0, <1>a, <1>b, SameBooks DEF IInv, TypeOK
  <1>9. QED
    BY <1>1, <1>2, <1>3, <1>4, <1>5, <1>6, <1>7, <1>8 DEF IInv

LEMMA CongratulateIInv ==
  ASSUME IInv, NEW c \in Claims, Congratulate(c)
  PROVE  IInv'
  <1>0. /\ claim[c] = "reply"
        /\ \E next \in {"congratulated"} : claim' = [claim EXCEPT ![c] = next]
    BY DEF Congratulate, ClaimGoto, claimOnly, books
  <1>a. UNCHANGED <<txid, rtxid, rate, gen, add, string, shown, receipt, hash, log, disturbed>>
    BY DEF Congratulate, ClaimGoto, claimOnly, books
  <1>b. /\ claim[c] = "reply" /\ claim'[c] \in {"congratulated"}
        /\ \A y \in Claims \ {c} : claim'[y] = claim[y]
    BY <1>0 DEF IInv, TypeOK
  <1>1. TypeOK'
    BY <1>0, <1>a, <1>b, Kinds DEF IInv, TypeOK, Generating, Adding, Claiming
  <1>2. StampsAgree'
    BY <1>0, <1>a, <1>b, Kinds DEF IInv, StampsAgree, InProgress
  <1>3. GenerationsAgree'
    BY <1>0, <1>a, <1>b, Kinds DEF IInv, GenerationsAgree, Reward
  <1>4. ClaimsAgree'
    BY <1>0, <1>a, <1>b, Kinds DEF IInv, ClaimsAgree
  <1>5. UndisturbedIsRight'
    BY <1>0, <1>a, <1>b, Kinds DEF IInv, UndisturbedIsRight
  <1>6. CompletedIsSpent'
    BY <1>0, <1>a, <1>b, Kinds DEF IInv, CompletedIsSpent
  <1>7. CongratulatedIsCompleted'
    BY <1>4 DEF ClaimsAgree, CongratulatedIsCompleted
  <1>8. BooksAreFinite' /\ SavedIsOnTheBooks'
    BY <1>0, <1>a, <1>b, SameBooks DEF IInv, TypeOK
  <1>9. QED
    BY <1>1, <1>2, <1>3, <1>4, <1>5, <1>6, <1>7, <1>8 DEF IInv

LEMMA BeginAddIInv ==
  ASSUME IInv, NEW a \in Adds, BeginAdd(a)
  PROVE  IInv'
  <1>0. /\ add[a] = "idle"
        /\ \E next \in {"stamp", "denied"} : add' = [add EXCEPT ![a] = next]
    BY DEF BeginAdd, AddGoto, addOnly
  <1>a. UNCHANGED <<txid, rtxid, rate, gen, claim, string, shown, receipt, hash, log, disturbed>>
    BY DEF BeginAdd, AddGoto, addOnly
  <1>b. /\ add[a] = "idle" /\ add'[a] \in {"stamp", "denied"}
        /\ \A y \in Adds \ {a} : add'[y] = add[y]
    BY <1>0 DEF IInv, TypeOK
  <1>1. TypeOK'
    BY <1>0, <1>a, <1>b, Kinds DEF IInv, TypeOK, Generating, Adding, Claiming
  <1>2. StampsAgree'
    BY <1>0, <1>a, <1>b, Kinds DEF IInv, StampsAgree, InProgress
  <1>3. GenerationsAgree'
    BY <1>0, <1>a, <1>b, Kinds DEF IInv, GenerationsAgree, Reward
  <1>4. ClaimsAgree'
    BY <1>0, <1>a, <1>b, Kinds DEF IInv, ClaimsAgree
  <1>5. UndisturbedIsRight'
    BY <1>0, <1>a, <1>b, Kinds DEF IInv, UndisturbedIsRight
  <1>6. CompletedIsSpent'
    BY <1>0, <1>a, <1>b, Kinds DEF IInv, CompletedIsSpent
  <1>7. CongratulatedIsCompleted'
    BY <1>4 DEF ClaimsAgree, CongratulatedIsCompleted
  <1>8. BooksAreFinite' /\ SavedIsOnTheBooks'
    BY <1>0, <1>a, <1>b, SameBooks DEF IInv, TypeOK
  <1>9. QED
    BY <1>1, <1>2, <1>3, <1>4, <1>5, <1>6, <1>7, <1>8 DEF IInv

LEMMA StampAddIInv ==
  ASSUME IInv, NEW a \in Adds, StampAdd(a)
  PROVE  IInv'
  <1>0. /\ add[a] = "stamp"
        /\ \E next \in {"later"} : add' = [add EXCEPT ![a] = next]
        /\ rtxid' = a
    BY DEF StampAdd, AddGoto, addOnly
  <1>a. UNCHANGED <<txid, rate, gen, claim, string, shown, receipt, hash, log, disturbed>>
    BY DEF StampAdd, AddGoto, addOnly
  <1>b. /\ add[a] = "stamp" /\ add'[a] \in {"later"}
        /\ \A y \in Adds \ {a} : add'[y] = add[y]
    BY <1>0 DEF IInv, TypeOK
  <1>1. TypeOK'
    BY <1>0, <1>a, <1>b, Kinds DEF IInv, TypeOK, Generating, Adding, Claiming
  <1>2. StampsAgree'
    BY <1>0, <1>a, <1>b, Kinds DEF IInv, StampsAgree, InProgress
  <1>3. GenerationsAgree'
    BY <1>0, <1>a, <1>b, Kinds DEF IInv, GenerationsAgree, Reward
  <1>4. ClaimsAgree'
    BY <1>0, <1>a, <1>b, Kinds DEF IInv, ClaimsAgree
  <1>5. UndisturbedIsRight'
    BY <1>0, <1>a, <1>b, Kinds DEF IInv, UndisturbedIsRight
  <1>6. CompletedIsSpent'
    BY <1>0, <1>a, <1>b, Kinds DEF IInv, CompletedIsSpent
  <1>7. CongratulatedIsCompleted'
    BY <1>4 DEF ClaimsAgree, CongratulatedIsCompleted
  <1>8. BooksAreFinite' /\ SavedIsOnTheBooks'
    BY <1>0, <1>a, <1>b, SameBooks DEF IInv, TypeOK
  <1>9. QED
    BY <1>1, <1>2, <1>3, <1>4, <1>5, <1>6, <1>7, <1>8 DEF IInv

(* A future stores the receipt: one more row, one more answered request.   *)
LEMMA SaveLaterStored ==
  ASSUME IInv, NEW a \in Adds, add[a] = "later", receipt[rtxid].status = "none",
         receipt' = [receipt EXCEPT ![rtxid] = NewReceipt(a)], AddGoto(a, "saved"), UNCHANGED <<rtxid, addOnly>>
  PROVE  IInv'
  <1>0. add' = [add EXCEPT ![a] = "saved"]
    BY DEF AddGoto
  <1>a. UNCHANGED <<txid, rtxid, rate, gen, claim, string, shown, hash, log, disturbed>>
    BY DEF addOnly
  <1>c. rtxid \in Adds /\ rtxid \in Ids
    BY Kinds DEF IInv, StampsAgree
  <1>d. /\ NewReceipt(a) \in Receipt /\ NewReceipt(a).status = "pending" /\ NewReceipt(a).by = By[a]
    BY Rewarded, Kinds DEF NewReceipt, Receipt, IInv
  <1>b. /\ add'[a] = "saved" /\ \A b \in Adds \ {a} : add'[b] = add[b]
        /\ receipt'[rtxid] = NewReceipt(a) /\ \A i \in Ids \ {rtxid} : receipt'[i] = receipt[i]
    BY <1>0, <1>c DEF IInv, TypeOK
  <1>e. \A g \in Gens : receipt'[g] = receipt[g]
    BY <1>b, <1>c, Kinds
  <1>1. TypeOK'
    <2>1. add' \in [Adds -> Adding \cup {"idle", "denied", "saved", "lost", "crashed"}]
      BY <1>0 DEF IInv, TypeOK, Adding
    <2>2. receipt' \in [Ids -> Receipt] /\ receipt'[NoId].status = "none"
      BY <1>0, <1>b, <1>c, <1>d, Kinds DEF IInv, TypeOK
    <2>3. QED
      BY <1>a, <2>1, <2>2 DEF IInv, TypeOK
  <1>2. StampsAgree'
    BY <1>a, <1>b DEF IInv, StampsAgree, InProgress
  <1>3. GenerationsAgree'
    BY <1>a, <1>e DEF IInv, GenerationsAgree, Reward
  <1>4. ClaimsAgree'
    BY <1>a, <1>e DEF IInv, ClaimsAgree
  <1>5. UndisturbedIsRight'
    BY <1>a, <1>e DEF IInv, UndisturbedIsRight
  <1>6. CompletedIsSpent'
    BY <1>a, <1>e DEF IInv, CompletedIsSpent
  <1>7. CongratulatedIsCompleted'
    BY <1>4 DEF ClaimsAgree, CongratulatedIsCompleted
  <1>8. BooksAreFinite' /\ SavedIsOnTheBooks'
    <2> DEFINE Rows(u) == {i \in Adds : receipt[i].status # "none" /\ receipt[i].by = u}
               Done(u) == {b \in Adds : add[b] = "saved" /\ By[b] = u}
               Rows2(u) == {i \in Adds : receipt'[i].status # "none" /\ receipt'[i].by = u}
               Done2(u) == {b \in Adds : add'[b] = "saved" /\ By[b] = u}
    <2>1. /\ {i \in Adds : receipt'[i].status # "none"} = {i \in Adds : receipt[i].status # "none"} \cup {rtxid}
          /\ {b \in Adds : add'[b] = "saved"} = {b \in Adds : add[b] = "saved"} \cup {a}
      BY <1>b, <1>c, <1>d, Kinds
    <2>2. BooksAreFinite'
      <3>1. /\ IsFiniteSet({i \in Adds : receipt[i].status # "none"} \cup {rtxid})
            /\ IsFiniteSet({b \in Adds : add[b] = "saved"} \cup {a})
        <4>1. /\ IsFiniteSet({i \in Adds : receipt[i].status # "none"})
              /\ IsFiniteSet({b \in Adds : add[b] = "saved"})
          BY DEF IInv, BooksAreFinite
        <4>2. QED
          BY ONLY <4>1, FS_AddElement
      <3>2. QED
        BY <2>1, <3>1 DEF BooksAreFinite
    <2>3. ASSUME NEW u \in Users PROVE Cardinality(Rows2(u)) = Cardinality(Done2(u))
      <3>1. /\ IsFiniteSet(Rows(u)) /\ IsFiniteSet(Done(u)) /\ Cardinality(Rows(u)) = Cardinality(Done(u))
        <4>1. /\ Rows(u) \subseteq {i \in Adds : receipt[i].status # "none"}
              /\ Done(u) \subseteq {b \in Adds : add[b] = "saved"}
          OBVIOUS
        <4>2. IsFiniteSet(Rows(u)) /\ IsFiniteSet(Done(u))
          BY <4>1, FS_Subset DEF IInv, BooksAreFinite
        <4>3. QED
          BY <4>2 DEF IInv, SavedIsOnTheBooks
      <3>2. CASE By[a] = u
        <4>1. /\ Rows2(u) = Rows(u) \cup {rtxid} /\ rtxid \notin Rows(u)
              /\ Done2(u) = Done(u) \cup {a} /\ a \notin Done(u)
          BY <3>2, <1>b, <1>c, <1>d, Kinds
        <4> HIDE DEF Rows, Done, Rows2, Done2
        <4>2. /\ Cardinality(Rows(u) \cup {rtxid}) = Cardinality(Rows(u)) + 1
              /\ Cardinality(Done(u) \cup {a}) = Cardinality(Done(u)) + 1
          BY ONLY <3>1, <4>1, FS_AddElement
        <4>3. QED
          BY <3>1, <4>1, <4>2
      <3>3. CASE By[a] # u
        <4>1. Rows2(u) = Rows(u) /\ Done2(u) = Done(u)
          BY <3>3, <1>b, <1>c, <1>d, Kinds
        <4>2. QED
          BY <3>1, <4>1
      <3>4. QED
        BY <3>2, <3>3
    <2>4. QED
      BY <2>2, <2>3 DEF SavedIsOnTheBooks
  <1>9. QED
    BY <1>1, <1>2, <1>3, <1>4, <1>5, <1>6, <1>7, <1>8 DEF IInv

LEMMA SaveLaterLost ==
  ASSUME IInv, NEW a \in Adds, add[a] = "later", AddGoto(a, "lost"), UNCHANGED <<receipt, rtxid, addOnly>>
  PROVE  IInv'
  <1>0. add' = [add EXCEPT ![a] = "lost"]
    BY DEF AddGoto
  <1>a. UNCHANGED <<txid, rtxid, rate, gen, claim, string, shown, receipt, hash, log, disturbed>>
    BY DEF addOnly
  <1>b. add[a] = "later" /\ add'[a] = "lost" /\ \A b \in Adds \ {a} : add'[b] = add[b]
    BY <1>0 DEF IInv, TypeOK
  <1>1. TypeOK'
    BY <1>0, <1>a, <1>b, Kinds DEF IInv, TypeOK, Generating, Adding, Claiming
  <1>2. StampsAgree'
    BY <1>0, <1>a, <1>b, Kinds DEF IInv, StampsAgree, InProgress
  <1>3. GenerationsAgree'
    BY <1>0, <1>a, <1>b, Kinds DEF IInv, GenerationsAgree, Reward
  <1>4. ClaimsAgree'
    BY <1>0, <1>a, <1>b, Kinds DEF IInv, ClaimsAgree
  <1>5. UndisturbedIsRight'
    BY <1>0, <1>a, <1>b, Kinds DEF IInv, UndisturbedIsRight
  <1>6. CompletedIsSpent'
    BY <1>0, <1>a, <1>b, Kinds DEF IInv, CompletedIsSpent
  <1>7. CongratulatedIsCompleted'
    BY <1>4 DEF ClaimsAgree, CongratulatedIsCompleted
  <1>8. BooksAreFinite' /\ SavedIsOnTheBooks'
    BY <1>0, <1>a, <1>b, SameBooks DEF IInv, TypeOK
  <1>9. QED
    BY <1>1, <1>2, <1>3, <1>4, <1>5, <1>6, <1>7, <1>8 DEF IInv

LEMMA UpdateBranchesIInv ==
  ASSUME IInv, UpdateBranches
  PROVE  IInv'
  <1>a. /\ rate' \in Rates /\ disturbed' = disturbed \cup InProgress
        /\ UNCHANGED <<txid, rtxid, gen, add, claim, string, shown, receipt, hash, log>>
    BY DEF UpdateBranches, books
  <1>b. \A g \in Gens \ disturbed' : g \notin disturbed /\ gen[g] \notin {"receipt", "hash", "reply"}
    BY <1>a DEF InProgress
  <1>1. TypeOK'
    BY <1>a, <1>b DEF IInv, TypeOK, InProgress
  <1>2. StampsAgree'
    BY <1>a, <1>b DEF IInv, StampsAgree, InProgress
  <1>3. GenerationsAgree'
    BY <1>a, <1>b DEF IInv, GenerationsAgree
  <1>4. ClaimsAgree'
    BY <1>a, <1>b DEF IInv, ClaimsAgree
  <1>5. UndisturbedIsRight'
    BY <1>a, <1>b DEF IInv, UndisturbedIsRight
  <1>6. CompletedIsSpent'
    BY <1>a, <1>b DEF IInv, CompletedIsSpent
  <1>7. CongratulatedIsCompleted'
    BY <1>4 DEF ClaimsAgree, CongratulatedIsCompleted
  <1>8. BooksAreFinite' /\ SavedIsOnTheBooks'
    BY <1>a, SameBooks DEF IInv, TypeOK
  <1>9. QED
    BY <1>1, <1>2, <1>3, <1>4, <1>5, <1>6, <1>7, <1>8 DEF IInv

LEMMA CrashApiIInv ==
  ASSUME IInv, CrashApi
  PROVE  IInv'
  <1>0. /\ gen' = [g \in Gens |-> IF gen[g] \in Generating THEN "crashed" ELSE gen[g]]
        /\ claim' = [c \in Claims |-> IF claim[c] \in Claiming THEN "crashed" ELSE claim[c]]
        /\ add' = [a \in Adds |-> IF add[a] \in Adding THEN "crashed" ELSE add[a]]
        /\ txid' = NoId /\ rtxid' = NoId
        /\ UNCHANGED <<rate, string, shown, receipt, hash, log, disturbed>>
    BY DEF CrashApi, books
  <1>a. UNCHANGED <<rate, string, shown, receipt, hash, log, disturbed>>
    BY <1>0
  <1>b. /\ \A g \in Gens : gen'[g] \notin Generating /\ gen'[g] \in {gen[g], "crashed"}
        /\ \A c \in Claims : IF claim[c] \in Claiming THEN claim'[c] = "crashed" ELSE claim'[c] = claim[c]
        /\ \A a \in Adds : add'[a] # "later" /\ (add'[a] = "saved" <=> add[a] = "saved")
    BY <1>0 DEF Generating, Adding
  <1>1. TypeOK'
    <2>1. gen' \in [Gens -> Generating \cup {"idle", "denied", "message", "error", "crashed"}]
      BY <1>0 DEF IInv, TypeOK
    <2>2. add' \in [Adds -> Adding \cup {"idle", "denied", "saved", "lost", "crashed"}]
      BY <1>0 DEF IInv, TypeOK
    <2>3. claim' \in [Claims -> Claiming \cup {"idle", "denied", "expired", "error", "congratulated", "crashed"}]
      BY <1>0 DEF IInv, TypeOK
    <2>4. QED
      BY <1>0, <1>a, <2>1, <2>2, <2>3 DEF IInv, TypeOK
  <1>2. StampsAgree'
    BY <1>b DEF StampsAgree, InProgress, Generating
  <1>3. GenerationsAgree'
    BY <1>a, <1>b DEF IInv, GenerationsAgree, Generating
  <1>4. ClaimsAgree'
    BY <1>a, <1>b DEF IInv, ClaimsAgree, Claiming, Generating
  <1>5. UndisturbedIsRight'
    BY <1>a, <1>b DEF IInv, UndisturbedIsRight
  <1>6. CompletedIsSpent'
    BY <1>a, <1>b DEF IInv, CompletedIsSpent, Claiming
  <1>7. CongratulatedIsCompleted'
    BY <1>4 DEF ClaimsAgree, CongratulatedIsCompleted
  <1>8. BooksAreFinite' /\ SavedIsOnTheBooks'
    BY <1>a, <1>b, SameBooks DEF IInv, TypeOK
  <1>9. QED
    BY <1>1, <1>2, <1>3, <1>4, <1>5, <1>6, <1>7, <1>8 DEF IInv

LEMMA NextIInv == IInv /\ [Next]_vars => IInv'
  <1> SUFFICES ASSUME IInv, [Next]_vars PROVE IInv'
    OBVIOUS
  <1>1. ASSUME NEW g \in Gens, BeginGen(g) \/ StampGen(g) \/ SaveReceipt(g) \/ SaveReceiptFails(g)
        PROVE  IInv'
    BY <1>1, BeginGenIInv, StampGenIInv, SaveReceiptStored, SaveReceiptRefused, SaveReceiptFailsIInv
  <1>2. ASSUME NEW g \in Gens, SaveHash(g) \/ SaveHashFails(g) \/ ReplyString(g) PROVE IInv'
    BY <1>2, SaveHashStored, SaveHashRefused, SaveHashFailsIInv, ReplyStringIInv
  <1>3. ASSUME NEW c \in Claims, Check(c) \/ CompleteReceipt(c) \/ CompleteReceiptFails(c) PROVE IInv'
    BY <1>3, CheckIInv, CompleteReceiptIInv, CompleteReceiptFailsIInv
  <1>4. ASSUME NEW c \in Claims, SpendHash(c) \/ SpendHashFails(c) \/ Congratulate(c) PROVE IInv'
    BY <1>4, SpendHashIInv, SpendHashFailsIInv, CongratulateIInv
  <1>5. ASSUME NEW a \in Adds, BeginAdd(a) \/ StampAdd(a) \/ SaveLater(a) PROVE IInv'
    BY <1>5, BeginAddIInv, StampAddIInv, SaveLaterStored, SaveLaterLost DEF SaveLater
  <1>6. CASE UpdateBranches
    BY <1>6, UpdateBranchesIInv
  <1>7. CASE CrashApi
    BY <1>7, CrashApiIInv
  <1>8. CASE UNCHANGED vars
    <2>1. UNCHANGED <<txid, rtxid, rate, gen, add, claim, string, shown, receipt, hash, log, disturbed>>
      BY <1>8 DEF vars, books
    <2> USE <2>1 DEF IInv
    <2>2. TypeOK' /\ StampsAgree' /\ GenerationsAgree' /\ ClaimsAgree' /\ CongratulatedIsCompleted'
      BY DEF TypeOK, StampsAgree, InProgress, GenerationsAgree, Reward, ClaimsAgree, CongratulatedIsCompleted
    <2>3. UndisturbedIsRight' /\ CompletedIsSpent'
      BY DEF UndisturbedIsRight, CompletedIsSpent
    <2>4. BooksAreFinite' /\ SavedIsOnTheBooks'
      BY SameBooks
    <2>5. QED
      BY <2>2, <2>3, <2>4
  <1>9. QED
    BY <1>1, <1>2, <1>3, <1>4, <1>5, <1>6, <1>7, <1>8 DEF Next

(* The invariant of the rewards holds in every state: atoms, receipts,     *)
(* strings and claims agree after every step and every restart.            *)
THEOREM RewardsInvariant == Spec => []IInv
  BY InitIInv, NextIInv, PTL DEF Spec

(* Receipts, HASHVAL rows, congratulations and booked receipts agree.      *)
THEOREM BooksStayRight == Spec => []BooksAgree
  <1>1. IInv => BooksAgree
    BY DEF IInv, BooksAgree
  <1>2. QED
    BY <1>1, RewardsInvariant, PTL

(* A generation that nothing overlapped hands out a string of its own      *)
(* receipt, with the reward the receipt shows.                             *)
THEOREM UndisturbedStringsAreRight == Spec => []UndisturbedIsRight
  <1>1. IInv => UndisturbedIsRight
    BY DEF IInv
  <1>2. QED
    BY <1>1, RewardsInvariant, PTL

(* Nobody gets past the check with a string that somebody was              *)
(* congratulated for, unless its update was logged as failed.              *)
THEOREM SecondClaimsAreRefused == Spec => OneAfterAnotherIsRefused
  <1> DEFINE A == \A c, d \in Claims :
                    /\ claim[c] = "idle" /\ claim'[c] = "receipt"
                    /\ claim[d] = "congratulated" /\ d \notin log
                    => shown'[c] # shown[d]
  <1>1. IInv /\ [Next]_vars => [A]_vars
    <2> SUFFICES ASSUME IInv, Next, NEW c \in Claims, NEW d \in Claims,
                        claim[c] = "idle", claim'[c] = "receipt", claim[d] = "congratulated", d \notin log
                 PROVE  shown'[c] # shown[d]
      BY DEF A
    <2>1. Check(c)
      <3>1. claim' # claim
        OBVIOUS
      <3>2. PICK e \in Claims : \/ Check(e) \/ CompleteReceipt(e) \/ CompleteReceiptFails(e)
                                \/ SpendHash(e) \/ SpendHashFails(e) \/ Congratulate(e)
                                \/ CrashApi
        BY <3>1 DEF Next, BeginGen, StampGen, SaveReceipt, SaveReceiptFails, SaveHash, SaveHashFails,
             ReplyString, genOnly, BeginAdd, StampAdd, SaveLater, addOnly, UpdateBranches
      <3>3. ~CrashApi
        BY DEF CrashApi, Claiming
      <3>4. Check(e) /\ e = c
        BY <3>2, <3>3 DEF Check, CompleteReceipt, CompleteReceiptFails, SpendHash, SpendHashFails,
             Congratulate, ClaimGoto, IInv, TypeOK
      <3>5. QED
        BY <3>4
    <2>2. PICK g \in Gens : shown' = [shown EXCEPT ![c] = string[g].id] /\ hash[string[g].id] = "valid"
      BY <2>1 DEF Check, ClaimGoto, IInv, TypeOK
    <2>3. hash[shown'[c]] = "valid"
      BY <2>2 DEF IInv, TypeOK
    <2>4. hash[shown[d]] = "invalid"
      BY DEF IInv, ClaimsAgree
    <2>5. QED
      BY <2>3, <2>4
  <1>2. QED
    BY <1>1, RewardsInvariant, PTL DEF Spec, OneAfterAnotherIsRefused
==============================================================================
