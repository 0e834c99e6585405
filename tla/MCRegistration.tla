--------------------------- MODULE MCRegistration ---------------------------
(* Small instances of Registration for TLC. *)
EXTENDS Registration

CONSTANTS r1, r2, r3, o1, o2, l1, x1, x2, f1, s1, anne, bert, carl

(* o1 signs in with the address r1 registers, and f1 forgets its password; *)
(* r3 repeats r2's address.                                                *)
MCEmail == [q \in Asking |->
              IF q \in {r1, o1, l1, f1} THEN anne ELSE IF q \in {r2, r3} THEN bert ELSE carl]

(* Sign-ins through providers run next to at most one registration by      *)
(* mail; three of those run only when nobody signs in so.                  *)
MCEither == \/ \A o \in Oauths : oauth[o] = "idle"
            \/ \A r \in Regs \ {r1} : reg[r] = "idle"
=============================================================================
