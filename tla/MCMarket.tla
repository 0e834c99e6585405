------------------------------ MODULE MCMarket ------------------------------
(* Small instances of Market for TLC. *)
EXTENDS Market

CONSTANTS l1, l2, e1, d1, b1, b2, u1, v1, c1, sam, kim

(* sam offers with l1 and kim with l2; b1 and c1 are kim's, b2 is sam's. *)
MCCaller == [r \in Requests |-> IF r \in {l2, b1, c1, u1} THEN kim ELSE sam]

(* Either there is one product and two orders, or two products and one     *)
(* order.                                                                  *)
MCEither == \/ pc[l2] = "idle" /\ pc[u1] = "idle"
            \/ pc[b2] = "idle" /\ pc[v1] = "idle"
=============================================================================
