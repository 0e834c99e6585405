------------------------------ MODULE Rewards ------------------------------
(***************************************************************************)
(* The loyalty programme of the API server: a branch turns a purchase into *)
(* a receipt and a QR string (genreward.clj gen-str), a customer hands the *)
(* string in (valid-str?), or the customer books the receipt directly      *)
(* (receipt.clj add-receipt!).  The three kinds of request run             *)
(* concurrently; they share one atom per namespace and the tables RECEIPTS *)
(* and HASHVAL.  The UUID that request r stores in its atom is written r.  *)
(* The futures that pay a reward are left out: pay.clj reward! throws      *)
(* before it posts anything (line 134), and changes nothing.               *)
(***************************************************************************)
EXTENDS Naturals, FiniteSets

CONSTANTS
  Gens,     \* gen-str requests
  Adds,     \* add-receipt! requests
  Claims,   \* valid-str? requests
  Users,
  NoId,     \* initial content of both atoms
  NoUser,   \* a NULL CREATED_BY or UPDATED_BY
  By,       \* the user of every request
  Spend,    \* the amount on the receipt of every gen-str and add-receipt!
  Rates,    \* the reward rates the branch may be given
  Faults    \* failures that may happen: a subset of {"api", "db"}

Ids == Gens \cup Adds \cup {NoId}

ASSUME RewardsAssumption ==
  /\ Gens \cap Adds = {}
  /\ NoId \notin Gens \cup Adds
  /\ NoUser \notin Users
  /\ By \in [Gens \cup Adds \cup Claims -> Users]
  /\ Spend \in [Gens \cup Adds -> Nat]
  /\ Rates \subseteq Nat /\ Rates # {}
  /\ Faults \subseteq {"api", "db"}

VARIABLES
  txid,      \* the atom genreward.clj:15
  rtxid,     \* the atom receipt.clj:13
  rate,      \* BRANCHES.REWARD_RATES
  gen, add, claim,  \* where each request is
  string,    \* the QR string a gen-str request replied with
  shown,     \* the id in the string a claim presents
  receipt,   \* RECEIPTS by id
  hash,      \* HASHVAL by id: no row, IS_VALID or not
  log,       \* claims whose update-str! logged an exception
  disturbed  \* history: generations that another one, or a new rate, overlapped

books == <<receipt, hash>>
vars  == <<txid, rtxid, rate, gen, add, claim, string, shown, books, log,
           disturbed>>

NoReceipt == [status |-> "none", by |-> NoUser, rewards |-> 0, claimer |-> NoUser]
NoString  == [id |-> NoId, amount |-> 0]

Generating == {"stamp", "receipt", "hash", "reply"}
Claiming   == {"receipt", "hash", "reply"}
Adding     == {"stamp", "later"}

Receipt == [status : {"none", "pending", "completed"}, by : Users \cup {NoUser},
            rewards : Nat, claimer : Users \cup {NoUser}]

TypeOK ==
  /\ txid \in Gens \cup {NoId}
  /\ rtxid \in Adds \cup {NoId}
  /\ rate \in Rates
  /\ gen \in [Gens -> Generating \cup {"idle", "denied", "message", "error", "crashed"}]
  /\ add \in [Adds -> Adding \cup {"idle", "denied", "saved", "lost", "crashed"}]
  /\ claim \in [Claims -> Claiming \cup {"idle", "denied", "expired", "error",
                                         "congratulated", "crashed"}]
  /\ string \in [Gens -> [id : Gens \cup {NoId}, amount : Nat]]
  /\ shown \in [Claims -> Gens \cup {NoId}]
  /\ receipt \in [Ids -> Receipt]
  /\ hash \in [Ids -> {"none", "valid", "invalid"}]
  /\ receipt[NoId].status = "none" /\ hash[NoId] = "none"
  /\ log \subseteq Claims
  /\ disturbed \subseteq Gens

Init ==
  /\ txid = NoId /\ rtxid = NoId
  /\ rate \in Rates
  /\ gen = [g \in Gens |-> "idle"]
  /\ add = [a \in Adds |-> "idle"]
  /\ claim = [c \in Claims |-> "idle"]
  /\ string = [g \in Gens |-> NoString]
  /\ shown = [c \in Claims |-> NoId]
  /\ receipt = [i \in Ids |-> NoReceipt]
  /\ hash = [i \in Ids |-> "none"]
  /\ log = {} /\ disturbed = {}

(* The function reward of both namespaces: the rate is read at every call. *)
Reward(r) == Spend[r] * rate

NewReceipt(r) ==
  [status |-> "pending", by |-> By[r], rewards |-> Reward(r), claimer |-> NoUser]

-----------------------------------------------------------------------------
(* gen-str *)

genOnly == <<rtxid, rate, add, claim, shown, log>>

GenGoto(g, next) == gen' = [gen EXCEPT ![g] = next]

InProgress == {g \in Gens : gen[g] \in {"receipt", "hash", "reply"}}

(* Mutant: the atom is not set. *)
BeginGenUnstamped(g) ==
  /\ gen[g] = "idle"
  /\ \E approved \in BOOLEAN : GenGoto(g, IF approved THEN "receipt" ELSE "denied")
  /\ UNCHANGED <<txid, string, books, disturbed, genOnly>>

(* The session and the branch's approval code are right, or not. *)
BeginGen(g) ==
  /\ gen[g] = "idle"
  /\ \E approved \in BOOLEAN : GenGoto(g, IF approved THEN "stamp" ELSE "denied")
  /\ UNCHANGED <<txid, string, books, disturbed, genOnly>>

(* (reset! txid (UUID/randomUUID)) *)
StampGen(g) ==
  /\ gen[g] = "stamp"
  /\ txid' = g
  /\ disturbed' = disturbed \cup InProgress
  /\ GenGoto(g, "receipt")
  /\ UNCHANGED <<string, books, genOnly>>

(* Mutant: a failed INSERT is ignored. *)
SaveReceiptIgnored(g) ==
  /\ gen[g] = "receipt"
  /\ GenGoto(g, "hash")
  /\ receipt' = IF receipt[txid].status = "none"
                THEN [receipt EXCEPT ![txid] = NewReceipt(g)] ELSE receipt
  /\ UNCHANGED <<txid, string, hash, disturbed, genOnly>>

(* INSERT INTO RECEIPTS under the id the atom holds now. *)
SaveReceipt(g) ==
  /\ gen[g] = "receipt"
  /\ IF receipt[txid].status = "none"
     THEN GenGoto(g, "hash") /\ receipt' = [receipt EXCEPT ![txid] = NewReceipt(g)]
     ELSE GenGoto(g, "error") /\ UNCHANGED receipt
  /\ UNCHANGED <<txid, string, hash, disturbed, genOnly>>

(* The amount is not a number, or the branch or the database is not there. *)
SaveReceiptFails(g) ==
  /\ gen[g] = "receipt"
  /\ GenGoto(g, "error")
  /\ UNCHANGED <<txid, string, books, disturbed, genOnly>>

(* INSERT INTO HASHVAL, again under the id the atom holds now. *)
SaveHash(g) ==
  /\ gen[g] = "hash"
  /\ IF hash[txid] = "none"
     THEN GenGoto(g, "reply") /\ hash' = [hash EXCEPT ![txid] = "valid"]
     ELSE GenGoto(g, "error") /\ UNCHANGED hash
  /\ UNCHANGED <<txid, string, receipt, disturbed, genOnly>>

SaveHashFails(g) ==
  /\ "db" \in Faults
  /\ gen[g] = "hash"
  /\ GenGoto(g, "error")
  /\ UNCHANGED <<txid, string, books, disturbed, genOnly>>

(* The reply encrypts the id and the reward once more. *)
ReplyString(g) ==
  /\ gen[g] = "reply"
  /\ string' = [string EXCEPT ![g] = [id |-> txid, amount |-> Reward(g)]]
  /\ GenGoto(g, "message")
  /\ UNCHANGED <<txid, books, disturbed, genOnly>>

-----------------------------------------------------------------------------
(* valid-str? *)

claimOnly == <<txid, rtxid, rate, gen, add, string, disturbed>>

ClaimGoto(c, next) == claim' = [claim EXCEPT ![c] = next]

(* Mutant: any string with a row will do. *)
CheckRow(c) ==
  /\ claim[c] = "idle"
  /\ \E g \in Gens :
       /\ gen[g] = "message"
       /\ hash[string[g].id] # "none"
       /\ shown' = [shown EXCEPT ![c] = string[g].id]
  /\ ClaimGoto(c, "receipt")
  /\ UNCHANGED <<books, log, claimOnly>>

(* A customer presents a string that was handed out: turned away without a *)
(* session, refused when its row is missing or not valid.                  *)
Check(c) ==
  /\ claim[c] = "idle"
  /\ \E g \in Gens, authorized \in BOOLEAN :
       /\ gen[g] = "message"
       /\ LET id == string[g].id IN
          /\ shown' = [shown EXCEPT ![c] = id]
          /\ IF ~authorized
             THEN ClaimGoto(c, "denied")
             ELSE ClaimGoto(c, IF hash[id] = "valid" THEN "receipt" ELSE "expired")
  /\ UNCHANGED <<books, log, claimOnly>>

(* Mutant: the receipt is left as it is. *)
CompleteReceiptNot(c) ==
  /\ claim[c] = "receipt"
  /\ ClaimGoto(c, "hash")
  /\ UNCHANGED <<shown, books, log, claimOnly>>

(* UPDATE RECEIPTS SET STATUS = 'Completed': no row, no effect. *)
CompleteReceipt(c) ==
  /\ claim[c] = "receipt"
  /\ IF receipt[shown[c]].status = "none"
     THEN UNCHANGED receipt
     ELSE receipt' = [receipt EXCEPT ![shown[c]].status = "completed",
                                     ![shown[c]].claimer = By[c]]
  /\ ClaimGoto(c, "hash")
  /\ UNCHANGED <<shown, hash, log, claimOnly>>

CompleteReceiptFails(c) ==
  /\ "db" \in Faults
  /\ claim[c] = "receipt"
  /\ ClaimGoto(c, "error")
  /\ UNCHANGED <<shown, books, log, claimOnly>>

(* Mutant: the string stays valid. *)
SpendHashNot(c) ==
  /\ claim[c] = "hash"
  /\ ClaimGoto(c, "reply")
  /\ UNCHANGED <<shown, books, log, claimOnly>>

(* update-str!: the string is no longer valid. *)
SpendHash(c) ==
  /\ claim[c] = "hash"
  /\ hash' = [hash EXCEPT ![shown[c]] = "invalid"]
  /\ ClaimGoto(c, "reply")
  /\ UNCHANGED <<shown, receipt, log, claimOnly>>

(* update-str! catches what the database throws, and the claim goes on. *)
SpendHashFails(c) ==
  /\ "db" \in Faults
  /\ claim[c] = "hash"
  /\ log' = log \cup {c}
  /\ ClaimGoto(c, "reply")
  /\ UNCHANGED <<shown, books, claimOnly>>

Congratulate(c) ==
  /\ claim[c] = "reply"
  /\ ClaimGoto(c, "congratulated")
  /\ UNCHANGED <<shown, books, log, claimOnly>>

-----------------------------------------------------------------------------
(* add-receipt! *)

addOnly == <<txid, rate, gen, claim, string, shown, hash, log, disturbed>>

AddGoto(a, next) == add' = [add EXCEPT ![a] = next]

BeginAdd(a) ==
  /\ add[a] = "idle"
  /\ \E approved \in BOOLEAN : AddGoto(a, IF approved THEN "stamp" ELSE "denied")
  /\ UNCHANGED <<rtxid, receipt, addOnly>>

(* The atom is set, and a future takes over; the handler returns. *)
StampAdd(a) ==
  /\ add[a] = "stamp"
  /\ rtxid' = a
  /\ AddGoto(a, "later")
  /\ UNCHANGED <<receipt, addOnly>>

(* Mutant: the row of an id that exists is replaced. *)
SaveLaterOver(a) ==
  /\ add[a] = "later"
  /\ receipt' = [receipt EXCEPT ![rtxid] = NewReceipt(a)]
  /\ AddGoto(a, "saved")
  /\ UNCHANGED <<rtxid, addOnly>>

(* Three seconds later the receipt is inserted under the id the atom holds *)
(* by then.                                                                *)
SaveLater(a) ==
  /\ add[a] = "later"
  /\ \/ /\ receipt[rtxid].status = "none"
        /\ receipt' = [receipt EXCEPT ![rtxid] = NewReceipt(a)]
        /\ AddGoto(a, "saved")
     \/ AddGoto(a, "lost") /\ UNCHANGED receipt
  /\ UNCHANGED <<rtxid, addOnly>>

-----------------------------------------------------------------------------
(* update-branches?: a merchant changes the rate of the branch. *)
UpdateBranches ==
  /\ \E new \in Rates \ {rate} : rate' = new
  /\ disturbed' = disturbed \cup InProgress
  /\ UNCHANGED <<txid, rtxid, gen, add, claim, string, shown, books, log>>

(* The API server restarts: threads and atoms are gone. *)
CrashApi ==
  /\ "api" \in Faults
  /\ gen' = [g \in Gens |-> IF gen[g] \in Generating THEN "crashed" ELSE gen[g]]
  /\ claim' = [c \in Claims |-> IF claim[c] \in Claiming THEN "crashed" ELSE claim[c]]
  /\ add' = [a \in Adds |-> IF add[a] \in Adding THEN "crashed" ELSE add[a]]
  /\ <<gen', claim', add'>> # <<gen, claim, add>>
  /\ txid' = NoId /\ rtxid' = NoId
  /\ UNCHANGED <<rate, string, shown, books, log, disturbed>>

Next ==
  \/ \E g \in Gens : \/ BeginGen(g) \/ StampGen(g) \/ SaveReceipt(g)
                     \/ SaveReceiptFails(g) \/ SaveHash(g) \/ SaveHashFails(g)
                     \/ ReplyString(g)
  \/ \E c \in Claims : \/ Check(c) \/ CompleteReceipt(c) \/ CompleteReceiptFails(c)
                       \/ SpendHash(c) \/ SpendHashFails(c) \/ Congratulate(c)
  \/ \E a \in Adds : BeginAdd(a) \/ StampAdd(a) \/ SaveLater(a)
  \/ UpdateBranches
  \/ CrashApi

Spec == Init /\ [][Next]_vars

-----------------------------------------------------------------------------
(* Safety. *)

(***************************************************************************)
(* A generation that nothing overlapped is right whatever happened before  *)
(* and after it, even when an overlapped one used its id: its string names *)
(* its own receipt, with the reward the receipt shows, and has a HASHVAL   *)
(* row to be handed in against.                                            *)
(***************************************************************************)
UndisturbedIsRight ==
  \A g \in Gens \ disturbed : gen[g] = "message" =>
    /\ string[g].id = g
    /\ receipt[g].by = By[g]
    /\ receipt[g].rewards = string[g].amount
    /\ hash[g] # "none"

(***************************************************************************)
(* "Congratulations!" for the string of such a generation means that its   *)
(* receipt is completed, whoever handed it in and whatever failed later.   *)
(***************************************************************************)
CongratulatedIsCompleted ==
  \A c \in Claims :
    claim[c] = "congratulated" /\ shown[c] \notin disturbed
      /\ gen[shown[c]] = "message"
    => receipt[shown[c]].status = "completed"

(***************************************************************************)
(* A completed receipt whose string can still be handed in is the work of  *)
(* a claim that is about to spend it, that the server's end cut short, or  *)
(* whose update-str! logged a failure.                                     *)
(***************************************************************************)
CompletedIsSpent ==
  \A i \in Gens :
    receipt[i].status = "completed" /\ hash[i] = "valid" =>
      \E c \in Claims : /\ shown[c] = i
                        /\ claim[c] \in {"hash", "crashed"} \/ c \in log

(***************************************************************************)
(* Claims that come one after the other cannot both succeed: once somebody *)
(* was congratulated for a string no later claim of it gets past the check *)
(* (genreward.clj:84), unless update-str! logged a failure.                *)
(***************************************************************************)
OneAfterAnotherIsRefused ==
  [][\A c, d \in Claims :
       /\ claim[c] = "idle" /\ claim'[c] = "receipt"
       /\ claim[d] = "congratulated" /\ d \notin log
       => shown'[c] # shown[d]]_vars

(***************************************************************************)
(* The receipts a user booked directly are as many as the requests of that *)
(* user whose future stored one: a request that finds its id taken by      *)
(* another one's future stores nothing, it never takes a row away          *)
(* (receipt.clj:42).                                                       *)
(***************************************************************************)
SavedIsOnTheBooks ==
  \A u \in Users :
    Cardinality({i \in Adds : receipt[i].status # "none" /\ receipt[i].by = u})
      = Cardinality({a \in Adds : add[a] = "saved" /\ By[a] = u})

-----------------------------------------------------------------------------
(* What the code says and does not keep. *)

(***************************************************************************)
(* genreward.clj:100-101, "QR already expired!": a string is good for one  *)
(* claim.  Two claims that overlap both pass the check.                    *)
(***************************************************************************)
ClaimedOnce ==
  \A c, d \in Claims :
    claim[c] = "congratulated" /\ claim[d] = "congratulated" /\ shown[c] = shown[d]
    => c = d

(***************************************************************************)
(* A receipt, its HASHVAL row and what customers are told agree: types,    *)
(* what a congratulation means, what a completed receipt means for its     *)
(* string, and what a delayed INSERT leaves (genreward.clj:84-95,          *)
(* receipt.clj:42).                                                        *)
(***************************************************************************)
BooksAgree == TypeOK /\ CongratulatedIsCompleted /\ CompletedIsSpent /\ SavedIsOnTheBooks

-----------------------------------------------------------------------------
(* The inductive invariant: what the steps of the handlers rely on.        *)

(* Who has set an atom finds an id in it, its own unless it was overlapped. *)
StampsAgree ==
  /\ \A g \in InProgress : txid \in Gens /\ (g \notin disturbed => txid = g)
  /\ \A a \in Adds : add[a] = "later" => rtxid \in Adds

(* What a generation has stored so far, unless it was overlapped.          *)
GenerationsAgree ==
  \A g \in Gens :
    /\ gen[g] = "message" => string[g].id \in Gens
    /\ g \notin disturbed =>
         /\ gen[g] \in {"hash", "reply"} => receipt[g].by = By[g] /\ receipt[g].rewards = Reward(g)
         /\ gen[g] \in {"hash", "reply", "message"} => receipt[g].status # "none"
         /\ gen[g] = "reply" => hash[g] # "none"

(* A claim that went past the check has a string with a row, which it has  *)
(* spent before it congratulates, and whose receipt it has completed.      *)
ClaimsAgree ==
  /\ \A c \in Claims :
       /\ claim[c] # "idle" => shown[c] \in Gens
       /\ c \in log => claim[c] # "idle"
       /\ claim[c] \notin {"idle", "denied", "expired"} => hash[shown[c]] # "none"
       /\ claim[c] \in {"reply", "congratulated"} /\ c \notin log => hash[shown[c]] = "invalid"
       /\ /\ claim[c] \in {"hash", "reply", "congratulated"}
          /\ shown[c] \notin disturbed /\ gen[shown[c]] \in {"reply", "message"}
          => receipt[shown[c]].status = "completed"
  /\ \A i \in Gens : receipt[i].status = "completed" => hash[i] # "none"

(* However many requests there are, only so many were answered.            *)
BooksAreFinite ==
  /\ IsFiniteSet({i \in Adds : receipt[i].status # "none"})
  /\ IsFiniteSet({a \in Adds : add[a] = "saved"})

IInv == /\ TypeOK /\ StampsAgree /\ GenerationsAgree /\ ClaimsAgree /\ BooksAreFinite
        /\ UndisturbedIsRight /\ CongratulatedIsCompleted /\ CompletedIsSpent /\ SavedIsOnTheBooks
=============================================================================
