------------------------------ MODULE Stellar ------------------------------
(***************************************************************************)
(* The Stellar service (stellar-poc): five routes, each of which reads the *)
(* sequence number of an account, builds a transaction with the next one,  *)
(* submits it and words an answer.  Requests overlap at every await; many  *)
(* share the distributor's or the issuer's account.  The ledger takes a    *)
(* transaction only with the sequence number that follows; the answer to a *)
(* submission may be lost, and the transaction be applied after that.      *)
(* There is one asset.  A balance is compared as a text: its digits and    *)
(* the point behind them.                                                  *)
(***************************************************************************)
EXTENDS Integers, SequencesExt

CONSTANTS Jobs,     \* requests
          Asks,     \* what each asks: [kind, source, to, amount], amount as digits
          Holders,  \* the accounts of the ledger, with what they hold: NoLine, or [balance, allowed]
          NoLine

TrustLine == [balance : Nat, allowed : BOOLEAN]

ASSUME StellarAssumption ==
  /\ \A j \in Jobs : Asks[j].source \in DOMAIN Holders
  /\ \A j \in Jobs : Asks[j].kind \in {"createwallet", "acceptasset", "sendpayment", "feecharge", "whitelist"}
  /\ \A j \in Jobs : Asks[j].amount \in Seq(0..9)
  /\ Holders \in [DOMAIN Holders -> TrustLine \cup {NoLine}]
  /\ NoLine \notin TrustLine
  \* a new key pair is nobody's
  /\ \A j, k \in Jobs : Asks[j].kind = "createwallet" =>
        Asks[j].to \notin DOMAIN Holders /\ (Asks[k].to = Asks[j].to => j = k)

VARIABLES sequence,  \* per account
          line,      \* per account: NoLine, or the trust line of the asset
          job        \* per request: [at, seq, outcome, answer]

stvars == <<sequence, line, job>>

SInitial == [at |-> "idle", seq |-> 0, outcome |-> "none", answer |-> "none"]
StInit == /\ sequence = [a \in DOMAIN Holders |-> 0]
          /\ line = Holders
          /\ job = [j \in Jobs |-> SInitial]

Exists(a) == a \in DOMAIN sequence
Amount(digits) == FoldLeft(LAMBDA n, d : 10 * n + d, 0, digits)
Point == -1   \* "." sorts before every digit
Text(n) == (IF n < 10 THEN <<n>> ELSE <<n \div 10, n % 10>>) \o <<Point>>
\* the order of JavaScript strings
Before(s, t) == \/ Len(s) < Len(t) /\ SubSeq(t, 1, Len(s)) = s
                \/ \E i \in DOMAIN s \cap DOMAIN t : SubSeq(s, 1, i - 1) = SubSeq(t, 1, i - 1) /\ s[i] < t[i]

-----------------------------------------------------------------------------
(* What the functions return and the routes answer *)

Kind(j) == Asks[j].kind
Rejected == "rejected"

\* each builds one transaction; ok says that its submission returned
CreateWallet(ok) == IF ok THEN "wallets" ELSE "text"
AcceptAsset(ok) == IF ok THEN "undefined" ELSE Rejected
\* mutant: the failure of the submission is dropped
SendPaymentAnyway(ok) == "completed"
SendPayment(ok) == IF ok THEN "completed" ELSE "Something went wrong"
FeeCharge(ok) == IF ok THEN "hash" ELSE "text"
allowTrust(ok) == IF ok THEN "Successfully adding whitelist" ELSE "undefined"
Returned(j, ok) == CASE Kind(j) = "createwallet" -> CreateWallet(ok)
                     [] Kind(j) = "acceptasset"  -> AcceptAsset(ok)
                     [] Kind(j) = "sendpayment"  -> SendPayment(ok)
                     [] Kind(j) = "feecharge"    -> FeeCharge(ok)
                     [] Kind(j) = "whitelist"    -> allowTrust(ok)
\* an exception before the submission
Threw(j) == IF Kind(j) = "whitelist" THEN allowTrust(FALSE) ELSE Rejected

\* mutant: the pair is answered only when its account was created
createwalletChecked(result) == IF result = "wallets" THEN "wallet" ELSE "message"
\* the result is not looked at
createwallet(result) == IF result = Rejected THEN "message" ELSE "wallet"
acceptasset(result) == IF result = Rejected THEN "ERROR" ELSE "successfully added"
sendpayment(result) == IF result = Rejected THEN "ERROR" ELSE result
feecharge(result) == IF result = Rejected THEN "ERROR" ELSE "true"
whitelist(result) == result
Answer(j, result) == CASE Kind(j) = "createwallet" -> createwallet(result)
                       [] Kind(j) = "acceptasset"  -> acceptasset(result)
                       [] Kind(j) = "sendpayment"  -> sendpayment(result)
                       [] Kind(j) = "feecharge"    -> feecharge(result)
                       [] Kind(j) = "whitelist"    -> whitelist(result)

Ends(j, answer) == job' = [job EXCEPT ![j].at = "ended", ![j].answer = answer]
Reaches(j, at) == job' = [job EXCEPT ![j].at = at]

-----------------------------------------------------------------------------
(* The service *)

\* what GetIssuer finds: a text when there is no such account, undefined when it has no such line
FirstLine(a) == CASE ~Exists(a)        -> [found |-> "text"]
                  [] line[a] = NoLine  -> [found |-> "undefined"]
                  [] OTHER             -> [found |-> "line", balance |-> Text(line[a].balance)]
\* mutant: the refusal does not return
GetIssuerGoesOn(j) ==
    /\ job[j].at = "idle" /\ Kind(j) = "sendpayment"
    /\ LET src == Asks[j].source  issuer == FirstLine(src)
       IN /\ issuer.found = "line"
          /\ IF Before(issuer.balance, Asks[j].amount)
             THEN job' = [job EXCEPT ![j] = [at |-> "ended", seq |-> sequence[src] + 1,
                                             outcome |-> "pending", answer |-> "insufficient"]]
             ELSE Reaches(j, "issuer")
    /\ UNCHANGED <<sequence, line>>
\* a text goes on, to fail where an asset needs an issuer; undefined throws, as a failed request does
GetIssuer(j) ==
    /\ job[j].at = "idle" /\ Kind(j) = "sendpayment"
    /\ LET issuer == FirstLine(Asks[j].source)
       IN \/ issuer.found = "text" /\ Reaches(j, "no issuer")
          \/ /\ issuer.found = "line"
             /\ IF Before(issuer.balance, Asks[j].amount)
                THEN Ends(j, sendpayment("insufficient")) ELSE Reaches(j, "issuer")
          \/ Ends(j, sendpayment(Rejected))
    /\ UNCHANGED <<sequence, line>>

Ready(j) == job[j].at = IF Kind(j) = "sendpayment" THEN "issuer" ELSE "idle"
Submits(j, at) == job' = [job EXCEPT ![j] = [at |-> at, seq |-> sequence[Asks[j].source] + 1,
                                             outcome |-> "pending", answer |-> "none"]]
\* mutant: a payment that does not answer in time is built and submitted once more
loadAccountAgain(j) ==
    /\ Ready(j) \/ (Kind(j) = "sendpayment" /\ job[j].at = "submitted" /\ job[j].outcome = "applied")
    /\ Exists(Asks[j].source) /\ Submits(j, "submitted")
    /\ UNCHANGED <<sequence, line>>
\* the fees and the account are loaded, the transaction is built, signed and sent
loadAccount(j) ==
    /\ Ready(j) /\ Exists(Asks[j].source) /\ Submits(j, "submitted")
    /\ UNCHANGED <<sequence, line>>
\* no such account, no issuer for the asset, or the request fails
loadAccount_throws(j) ==
    /\ Ready(j) \/ job[j].at = "no issuer"
    /\ Ends(j, Answer(j, Threw(j)))
    /\ UNCHANGED <<sequence, line>>
\* mutant: a failure is not caught
submitTransactionUncaught(j) ==
    /\ job[j].at = "submitted"
    /\ Ends(j, IF job[j].outcome = "applied" THEN Answer(j, Returned(j, TRUE)) ELSE "none")
    /\ UNCHANGED <<sequence, line>>
submitTransaction(j) ==
    /\ job[j].at = "submitted"
    /\ Ends(j, Answer(j, Returned(j, job[j].outcome = "applied")))
    /\ UNCHANGED <<sequence, line>>
\* the transaction was applied and its answer is lost
submitTransaction_lost(j) ==
    /\ job[j].at = "submitted" /\ job[j].outcome = "applied"
    /\ Ends(j, Answer(j, Returned(j, FALSE)))
    /\ UNCHANGED <<sequence, line>>

-----------------------------------------------------------------------------
(* The ledger *)

With(f, a, v) == [b \in DOMAIN f \cup {a} |-> IF b = a THEN v ELSE f[b]]
Holds(a) == Exists(a) /\ line[a] # NoLine /\ line[a].allowed
Funded(j) == Amount(Asks[j].amount) <= line[Asks[j].source].balance
\* what a transaction does to the lines, when it can
Possible(j) == CASE Kind(j) = "createwallet" -> ~Exists(Asks[j].to)
                 [] Kind(j) = "sendpayment"  -> Holds(Asks[j].source) /\ Holds(Asks[j].to) /\ Funded(j)
                 [] Kind(j) = "whitelist"    -> Exists(Asks[j].to) /\ line[Asks[j].to] # NoLine
                 [] OTHER -> TRUE
Effect(j) == LET src == Asks[j].source  to == Asks[j].to
             IN CASE Kind(j) = "createwallet" -> With(line, to, NoLine)
                  [] Kind(j) = "acceptasset"  ->
                       IF line[src] = NoLine THEN [line EXCEPT ![src] = [balance |-> 0, allowed |-> FALSE]] ELSE line
                  [] Kind(j) = "sendpayment"  ->
                       LET paid == [line EXCEPT ![src].balance = @ - Amount(Asks[j].amount)]
                       IN [paid EXCEPT ![to].balance = @ + Amount(Asks[j].amount)]
                  [] Kind(j) = "whitelist"    -> [line EXCEPT ![to].allowed = TRUE]
                  [] Kind(j) = "feecharge"    -> line
Turn(j) == job[j].outcome = "pending"
\* a transaction with the next sequence number counts, whether or not it can be applied
apply(j) ==
    /\ Turn(j) /\ job[j].seq = sequence[Asks[j].source] + 1
    /\ job' = [job EXCEPT ![j].outcome = IF Possible(j) THEN "applied" ELSE "failed"]
    /\ line' = IF Possible(j) THEN Effect(j) ELSE line
    /\ LET counted == [sequence EXCEPT ![Asks[j].source] = @ + 1]
       IN sequence' = IF Kind(j) = "createwallet" /\ Possible(j) THEN With(counted, Asks[j].to, 0) ELSE counted
\* another sequence number, too low a fee, too late
refuse(j) ==
    /\ Turn(j) /\ job' = [job EXCEPT ![j].outcome = "failed"]
    /\ UNCHANGED <<sequence, line>>

StNext == \E j \in Jobs : \/ GetIssuer(j) \/ loadAccount(j) \/ loadAccount_throws(j)
                          \/ submitTransaction(j) \/ submitTransaction_lost(j) \/ apply(j) \/ refuse(j)
StSpec == StInit /\ [][StNext]_stvars

-----------------------------------------------------------------------------
(* Properties *)

\* Every variable has its type.
StTypeOK == /\ DOMAIN line = DOMAIN sequence /\ DOMAIN Holders \subseteq DOMAIN sequence
            /\ \A a \in DOMAIN line : sequence[a] \in Nat /\ (line[a] # NoLine => line[a].balance \in Nat)
            /\ \A j \in Jobs : job[j].outcome \in {"none", "pending", "applied", "failed"}
            /\ \A j \in Jobs : (job[j].at = "ended") = (job[j].answer # "none")

\* Who is told that a payment is completed, an asset added or an account white-listed is told the truth
\* (Payment.js:49, acceptasset.js:13, whitelist.js:37); nothing of the kind holds of wallets and fees.
CompletedIsApplied == \A j \in Jobs :
    job[j].answer \in {"completed", "successfully added", "Successfully adding whitelist"} => job[j].outcome = "applied"

\* An account that was created on the ledger, even after its answer was lost, is one whose seed was told
\* (CreateWallet.js:34-38 and createwallet.js:12: the pair is answered whatever the submission returned).
FundedIsTold == \A j \in Jobs :
    Kind(j) = "createwallet" /\ job[j].at = "ended" /\ Exists(Asks[j].to) => job[j].answer = "wallet"

\* A payment that was refused for its balance, and a payment or a fee answered with what is thrown before
\* the submission, never touches the ledger, not even later (Payment.js:20; acceptasset answers a failed
\* submission the same way, so it is not meant).
RefusedStaysAway == \A j \in Jobs :
    \/ job[j].answer = "insufficient"
    \/ job[j].answer = "ERROR" /\ Kind(j) # "acceptasset"
    => job[j].outcome = "none"

\* No payment is made twice, by one request or by several that read one sequence number: what an account
\* holds is what it held and what the payments that were applied once say.
Sum(S) == MapThenSumSet(LAMBDA j : Amount(Asks[j].amount), S)
Applied(a, end) == {j \in Jobs : Kind(j) = "sendpayment" /\ job[j].outcome = "applied" /\ Asks[j][end] = a}
AppliedOnce == \A a \in DOMAIN Holders : Holders[a] # NoLine =>
    line[a].balance + Sum(Applied(a, "source")) = Holders[a].balance + Sum(Applied(a, "to"))

\* What the Stellar service answers agrees with the ledger, and the ledger's balances with the payments that were made
\* (op/*.js, route/*.js).
LedgerIsRight == StTypeOK /\ CompletedIsApplied /\ FundedIsTold /\ RefusedStaysAway /\ AppliedOnce

-----------------------------------------------------------------------------
(* Why *)

Answers == {"none", "wallet", "message", "successfully added", "completed", "insufficient", "Something went wrong",
         "true", "Successfully adding whitelist", "undefined", "ERROR"}
StTyped == /\ line \in [DOMAIN sequence -> TrustLine \cup {NoLine}]
           /\ job \in [Jobs -> [at : {"idle", "no issuer", "issuer", "submitted", "ended"}, seq : Nat,
                                outcome : {"none", "pending", "applied", "failed"}, answer : Answers]]

\* a transaction has an outcome once it is submitted, and a pair is kept back only if none was
Unsent == \A j \in Jobs :
    /\ job[j].at \in {"idle", "no issuer", "issuer"} => job[j].outcome = "none"
    /\ Kind(j) = "createwallet" /\ job[j].at = "ended" /\ job[j].answer # "wallet" => job[j].outcome = "none"

\* a new account is there by the transaction of its job, and no trust line goes away
CreatedByItsJob == \A j \in Jobs : Kind(j) = "createwallet" /\ Exists(Asks[j].to) => job[j].outcome = "applied"
LinesStay == \A a \in DOMAIN Holders : Holders[a] # NoLine => line[a] # NoLine

\* only so many were applied yet that they can be added up
FewApplied == IsFiniteSet({j \in Jobs : job[j].outcome = "applied"})

StIInv == /\ StTypeOK /\ StTyped /\ CompletedIsApplied /\ RefusedStaysAway /\ AppliedOnce
          /\ Unsent /\ CreatedByItsJob /\ LinesStay /\ FewApplied
=============================================================================
