------------------------- MODULE PaymentRefinement -------------------------
(***************************************************************************)
(* The refinement mapping under which Payment implements PaymentPromise.   *)
(* A handler that ends without a body (blank, unsaved, crashed) has told   *)
(* its user nothing.                                                       *)
(***************************************************************************)
EXTENDS Payment

ChainView(f) ==
  IF f \in {"none", "refused"} THEN "none"
  ELSE IF f = "pool" THEN "accepted"
  ELSE IF f = "moved" THEN "moved" ELSE "void"

ToldView(p, s) ==
  IF p = "ontheway" THEN "ontheway"
  ELSE IF p = "denied" \/ (p = "error" /\ s # "cut") THEN "refused"
  ELSE IF p = "error" THEN "unsure" ELSE "none"

chainBar == [r \in Requests |-> ChainView(fate[r])]
toldBar  == [r \in Requests |-> ToldView(pc[r], svc[r])]
booksBar == {r \in Requests : \E row \in archive : row.hash = r}

Promise == INSTANCE PaymentPromise WITH
             chain <- chainBar, told <- toldBar, books <- booksBar

(***************************************************************************)
(* The handlers, the wallet service and the archive together keep the      *)
(* promise, whatever fails.                                                *)
(***************************************************************************)
KeepsPromise == Promise!Spec
=============================================================================
