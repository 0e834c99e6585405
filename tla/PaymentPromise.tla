--------------------------- MODULE PaymentPromise ---------------------------
(***************************************************************************)
(* What a payment promises its user, with the threads, the wallet service  *)
(* and the pool abstracted away: a request is accepted by the chain at     *)
(* most once and settles at most once, the books only hold accepted        *)
(* requests, "on the way" is said when the books are written, and nothing  *)
(* is accepted after its user was told of a refusal.                       *)
(***************************************************************************)
CONSTANT Requests

VARIABLES
  chain,   \* "none", "accepted", "moved" or "void"
  told,    \* "none", "refused", "unsure" or "ontheway"
  books    \* the requests on record

pvars == <<chain, told, books>>

PromiseTypeOK ==
  /\ chain \in [Requests -> {"none", "accepted", "moved", "void"}]
  /\ told \in [Requests -> {"none", "refused", "unsure", "ontheway"}]
  /\ books \subseteq Requests

Init ==
  /\ chain = [r \in Requests |-> "none"]
  /\ told = [r \in Requests |-> "none"]
  /\ books = {}

Pending == {r \in Requests : chain[r] = "accepted"}

(* The chain accepts r, and gives up the pending requests D it replaces. *)
Accept(r, D) ==
  /\ chain[r] = "none"
  /\ told[r] = "none"
  /\ chain' = [s \in Requests |-> IF s = r THEN "accepted"
                                  ELSE IF s \in D THEN "void" ELSE chain[s]]
  /\ UNCHANGED <<told, books>>

Move(r) ==
  /\ chain[r] = "accepted"
  /\ chain' = [chain EXCEPT ![r] = "moved"]
  /\ UNCHANGED <<told, books>>

GiveUp(D) ==
  /\ chain' = [s \in Requests |-> IF s \in D THEN "void" ELSE chain[s]]
  /\ UNCHANGED <<told, books>>

(* A refusal is final: the request has not been, and cannot be, accepted. *)
Refuse(r) ==
  /\ told[r] = "none"
  /\ chain[r] = "none"
  /\ told' = [told EXCEPT ![r] = "refused"]
  /\ UNCHANGED <<chain, books>>

(* An answer that leaves open what the chain did. *)
Hedge(r) ==
  /\ told[r] = "none"
  /\ told' = [told EXCEPT ![r] = "unsure"]
  /\ UNCHANGED <<chain, books>>

Confirm(r) ==
  /\ told[r] = "none"
  /\ chain[r] # "none"
  /\ r \notin books
  /\ books' = books \cup {r}
  /\ told' = [told EXCEPT ![r] = "ontheway"]
  /\ UNCHANGED chain

Next ==
  \/ \E r \in Requests : \E D \in SUBSET Pending : Accept(r, D)
  \/ \E D \in SUBSET Pending : GiveUp(D)
  \/ \E r \in Requests : Move(r) \/ Refuse(r) \/ Hedge(r) \/ Confirm(r)

Spec == Init /\ [][Next]_pvars
=============================================================================
