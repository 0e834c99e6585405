----------------------------- MODULE MCPayment -----------------------------
(* Small instances of Payment for TLC. *)
EXTENDS PaymentRefinement

CONSTANTS r1, r2, r3, u1, u2, a1, a2

(* Two requests of one user and one of the other, each to the other's      *)
(* account; the third comes through the partner API.                       *)
MCPayer == [r \in Requests |-> IF r = r3 THEN u2 ELSE u1]
MCDest == [r \in Requests |-> IF r = r3 THEN a1 ELSE a2]
MCByApi == Requests \cap {r3}

(* With a fee of 2 a balance of 4 pays r1's amount once and not twice; the *)
(* balance check lets 3 through, of which the fee then leaves too little.  *)
MCAmount == [r \in Requests |-> IF r = r1 THEN 2 ELSE 3]
MCBalance == [a \in Accounts |-> 4]
MCPriority == [r \in Requests |-> IF r = r1 THEN 1 ELSE 2]

(* The second user may have no wallet yet. *)
MCWallets == { w \in [Users -> Accounts \cup {NoAccount}] :
                 w[u1] = a1 /\ w[u2] \in {a2, NoAccount} }
=============================================================================
