----------------------------- MODULE MCRewards -----------------------------
(* Small instances of Rewards for TLC. *)
EXTENDS Rewards

CONSTANTS g1, g2, a1, a2, c1, c2, staff, anne, bert

(* Two members of the staff generate, two customers hand in. *)
MCBy == [r \in Gens \cup Adds \cup Claims |->
           IF r \in {g1, g2} THEN staff ELSE IF r \in {a1, c1} THEN anne ELSE bert]
MCSpend == [r \in Gens \cup Adds |-> IF r = g1 THEN 1 ELSE 2]

(* Receipts are booked directly next to at most one generation and one     *)
(* claim; two of each run only when nobody books directly.                 *)
MCEither == \/ \A a \in Adds : add[a] = "idle"
            \/ gen[g2] = "idle" /\ claim[c2] = "idle"
=============================================================================
