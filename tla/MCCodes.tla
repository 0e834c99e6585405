------------------------------ MODULE MCCodes ------------------------------
(* Small instances of Codes for TLC. *)
EXTENDS Codes

CONSTANTS r1, r2, n1, f1, m1, a1, a2, x1, s1, l1, hugo, p1, p2

(* r2 has a phone of its own; a1 adds r1's to hugo's account and a2 r2's.  *)
MCPhone == [q \in Senders \cup Logins |-> IF q \in {r2, a2} THEN p2 ELSE p1]
MCOwner == [q \in Adds |-> hugo]

(* Either codes of the register namespace are sent, and used in every way, *)
(* or one of them next to those of the two other namespaces, or next to    *)
(* an account that takes a phone and gives it up.                          *)
Only(these) == \A q \in Senders \ these : send[q] = "idle"
MCEither == \/ Only({r1, r2, n1})
            \/ Only({r1, f1, m1, a1}) /\ use[s1] = "idle"
            \/ Only({r1, a1, a2}) /\ use[s1] = "idle"
=============================================================================
