----------------------------- MODULE MCWallets -----------------------------
(* Small instances of Wallets for TLC. *)
EXTENDS Wallets, TLC

CONSTANTS p1, p2, b1, b2, w1, w2, u1, u2

(* p1 and w1 ask for the first user; p2 and w2 for the second. *)
MCOwner == [r \in Apps \cup Waves |-> IF r \in {p1, w1} THEN u1 ELSE u2]

MCTemp == [u \in Users |-> "0"]

(* At most three of the five requests are sent; partners are alike. *)
MCThree == Cardinality({r \in Requests : pc[r] # "idle"}) <= 3
MCPartners == Permutations(Apis)
=============================================================================
