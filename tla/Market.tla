------------------------------- MODULE Market -------------------------------
(***************************************************************************)
(* The marketplace: sdm_products.clj (add, update, delete) and             *)
(* sdm_orders.clj (place, pay, ship and complete an order).  Each id waits *)
(* in an atom of its namespace; the UUID that request r puts there is      *)
(* written r, and so are the price and the shipping service that r sets.   *)
(***************************************************************************)
EXTENDS Naturals, FiniteSets

CONSTANTS
  Lists,     \* add-products requests
  Edits,     \* update-products requests
  Deletes,   \* delete-product! requests
  Buys,      \* make-order requests
  Pays,      \* update-order-success-pay requests
  Ships,     \* update-order-shipment requests
  Completes, \* update-order-completed requests
  Users,
  Caller,    \* whose token each request carries
  None,
  MaxStarts, \* bound: how often the server restarts
  Faults     \* failures that may happen: a subset of {"db"}

Marks    == Pays \cup Ships \cup Completes
Owned    == Edits \cup Deletes
Requests == Lists \cup Owned \cup Buys \cup Marks

ASSUME MarketAssumption ==
  /\ Caller \in [Requests -> Users]
  /\ Lists \cap (Owned \cup Buys \cup Marks) = {}
  /\ Owned \cap (Buys \cup Marks) = {} /\ Edits \cap Deletes = {}
  /\ Buys \cap Marks = {}
  /\ Pays \cap Ships = {} /\ (Pays \cup Ships) \cap Completes = {}
  /\ None \notin Users \cup Requests
  /\ MaxStarts \in Nat
  /\ Faults \subseteq {"db"}

VARIABLES
  productId,  \* the atom txid of sdm_products.clj
  orderId,    \* the atom txid of sdm_orders.clj
  starts,     \* how often the server was restarted
  products,   \* SDM_PRODUCTS by id
  orders,     \* SDM_ORDERS by id
  pc,         \* where each request is, or how it ended
  target,     \* the product or order each request names
  taken,      \* what each make-order has read: its id, the price, the shipping
  told,       \* the product id that each add-products answered
  overlapped, \* history: listings that were under way at the same time
  disturbed   \* history: orders whose product was edited between the two reads

vars == <<productId, orderId, starts, products, orders, pc, target, taken, told,
          overlapped, disturbed>>

NoProduct == [owner |-> None, price |-> None, ship |-> None, sold |-> FALSE]
NoOrder   == [product |-> None, buyer |-> None, price |-> None, ship |-> None,
              status |-> "none"]
Nothing   == [id |-> None, price |-> None, ship |-> None]

Statuses == {"PlaceOrder", "PaySuccess", "Shipment", "OrderComplete"}
Busy     == {"insert", "tell", "take", "price", "ship", "store", "update", "sold", "write"}
Ended    == {"listed", "placed", "done", "refused", "error", "crashed"}

Product  == [owner : Users, price : Lists \cup Edits, ship : Lists \cup Edits, sold : BOOLEAN]
OrderRow == [product : Lists, buyer : Users, price : Lists \cup Edits,
             ship : Lists \cup Edits, status : Statuses]

TypeOK ==
  /\ productId \in Lists \cup {None} /\ orderId \in Buys \cup {None}
  /\ starts \in 0 .. MaxStarts
  /\ products \in [Lists -> {NoProduct} \cup Product]
  /\ orders \in [Buys -> {NoOrder} \cup OrderRow]
  /\ pc \in [Requests -> Busy \cup Ended \cup {"idle"}]
  /\ target \in [Requests -> Lists \cup Buys \cup {None}]
  /\ taken \in [Buys -> [id : Buys \cup {None}, price : Lists \cup Edits \cup {None},
                         ship : Lists \cup Edits \cup {None}]]
  /\ told \in [Lists -> Lists \cup {None}]
  /\ overlapped \subseteq Lists /\ disturbed \subseteq Buys

Init ==
  /\ productId = None /\ orderId = None /\ starts = 0
  /\ products = [p \in Lists |-> NoProduct]
  /\ orders = [o \in Buys |-> NoOrder]
  /\ pc = [r \in Requests |-> "idle"]
  /\ target = [r \in Requests |-> None]
  /\ taken = [b \in Buys |-> Nothing]
  /\ told = [l \in Lists |-> None]
  /\ overlapped = {} /\ disturbed = {}

Listed(p) == products[p] # NoProduct
Placed(o) == orders[o] # NoOrder
Goto(r, next) == pc' = [pc EXCEPT ![r] = next]
At(r, here)   == pc[r] = here

-----------------------------------------------------------------------------
(* add-products *)

listSame == <<orderId, starts, orders, target, taken, disturbed>>

(* Mutant: an id is made only when the atom has none. *)
ResetProductIdOnce(l) ==
  LET others == {k \in Lists : pc[k] \in {"insert", "tell"}} IN
  /\ At(l, "idle") /\ Goto(l, "insert")
  /\ productId' = IF productId = None THEN l ELSE productId
  /\ overlapped' = overlapped \cup others \cup {k \in {l} : others # {}}
  /\ UNCHANGED <<products, told, listSame>>

ResetProductId(l) ==
  LET others == {k \in Lists : pc[k] \in {"insert", "tell"}} IN
  /\ At(l, "idle") /\ Goto(l, "insert")
  /\ productId' = l
  /\ overlapped' = overlapped \cup others \cup {k \in {l} : others # {}}
  /\ UNCHANGED <<products, told, listSame>>

(* The id is the primary key: a second row with it is refused. *)
InsertProduct(l) ==
  /\ At(l, "insert")
  /\ IF Listed(productId)
     THEN Goto(l, "error") /\ UNCHANGED products
     ELSE /\ products' = [products EXCEPT ![productId] =
               [owner |-> Caller[l], price |-> l, ship |-> l, sold |-> FALSE]]
          /\ Goto(l, "tell")
  /\ UNCHANGED <<productId, told, overlapped, listSame>>

TellProduct(l) ==
  /\ At(l, "tell") /\ Goto(l, "listed")
  /\ told' = [told EXCEPT ![l] = productId]
  /\ UNCHANGED <<productId, products, overlapped, listSame>>

-----------------------------------------------------------------------------
(* update-products and delete-product!: the owner is checked, then the row *)
(* is written, if it is still there.                                       *)

ownedSame == <<productId, orderId, starts, orders, taken, told, overlapped>>

CheckOwner(e) ==
  /\ At(e, "idle")
  /\ \E p \in Lists :
       /\ Listed(p)
       /\ target' = [target EXCEPT ![e] = p]
       /\ Goto(e, IF products[p].owner = Caller[e] THEN "write" ELSE "refused")
  /\ UNCHANGED <<products, disturbed, ownedSame>>

WriteProduct(e) ==
  LET p == target[e] IN
  /\ At(e, "write") /\ Goto(e, "done")
  /\ products' = [products EXCEPT ![p] =
       IF e \in Deletes \/ ~Listed(p) THEN NoProduct
       ELSE [@ EXCEPT !.price = e, !.ship = e]]
  /\ disturbed' = disturbed \cup {b \in Buys : At(b, "ship") /\ target[b] = p}
  /\ UNCHANGED <<target, ownedSame>>

-----------------------------------------------------------------------------
(* make-order: the id is read from the atom, then the price of the product *)
(* and, with a second read of the row, its shipping.                       *)

buySame == <<productId, starts, products, told, overlapped, disturbed>>

ResetOrderId(b) ==
  /\ At(b, "idle") /\ Goto(b, "take")
  /\ \E p \in Lists : Listed(p) /\ target' = [target EXCEPT ![b] = p]
  /\ orderId' = b
  /\ UNCHANGED <<orders, taken, buySame>>

TakeOrderId(b) ==
  /\ At(b, "take") /\ Goto(b, "price")
  /\ taken' = [taken EXCEPT ![b].id = orderId]
  /\ UNCHANGED <<orderId, orders, target, buySame>>

(* The price of a deleted product is nil, and adding it throws. *)
ReadPrice(b) ==
  /\ At(b, "price")
  /\ Goto(b, IF Listed(target[b]) THEN "ship" ELSE "error")
  /\ taken' = [taken EXCEPT ![b].price = products[target[b]].price]
  /\ UNCHANGED <<orderId, orders, target, buySame>>

(* Mutant: the shipping of the first listing is charged. *)
ReadShipFirst(b) ==
  /\ At(b, "ship")
  /\ Goto(b, IF Listed(target[b]) THEN "store" ELSE "error")
  /\ taken' = [taken EXCEPT ![b].ship = target[b]]
  /\ UNCHANGED <<orderId, orders, target, buySame>>

ReadShip(b) ==
  /\ At(b, "ship")
  /\ Goto(b, IF Listed(target[b]) THEN "store" ELSE "error")
  /\ taken' = [taken EXCEPT ![b].ship = products[target[b]].ship]
  /\ UNCHANGED <<orderId, orders, target, buySame>>

Order(b) == [product |-> target[b], buyer |-> Caller[b], price |-> taken[b].price,
             ship |-> taken[b].ship, status |-> "PlaceOrder"]

(* Mutant: an order with the same id is replaced. *)
InsertOrderOver(b) ==
  /\ At(b, "store")
  /\ orders' = [orders EXCEPT ![taken[b].id] = Order(b)] /\ Goto(b, "placed")
  /\ UNCHANGED <<orderId, target, taken, buySame>>

InsertOrder(b) ==
  /\ At(b, "store")
  /\ IF Placed(taken[b].id)
     THEN Goto(b, "error") /\ UNCHANGED orders
     ELSE orders' = [orders EXCEPT ![taken[b].id] = Order(b)] /\ Goto(b, "placed")
  /\ UNCHANGED <<orderId, target, taken, buySame>>

-----------------------------------------------------------------------------
(* The status of an order *)

markSame == <<productId, orderId, starts, taken, told, overlapped, disturbed>>

(* update-order-success-pay, update-order-shipment: the owner of the       *)
(* product, nobody when it is gone, must not be who placed the order.      *)
CheckSeller(u) ==
  /\ u \in Pays \cup Ships /\ At(u, "idle")
  /\ \E o \in Buys :
       /\ Placed(o)
       /\ target' = [target EXCEPT ![u] = o]
       /\ Goto(u, IF products[orders[o].product].owner # orders[o].buyer
                  THEN "update" ELSE "refused")
  /\ UNCHANGED <<products, orders, markSame>>

(* Mutant: anybody who has a session completes an order. *)
CheckBuyerNot(u) ==
  /\ u \in Completes /\ At(u, "idle")
  /\ \E o \in Buys : Placed(o) /\ target' = [target EXCEPT ![u] = o]
  /\ Goto(u, "update")
  /\ UNCHANGED <<products, orders, markSame>>

CheckBuyer(u) ==
  /\ u \in Completes /\ At(u, "idle")
  /\ \E o \in Buys :
       /\ Placed(o)
       /\ target' = [target EXCEPT ![u] = o]
       /\ Goto(u, IF Caller[u] = orders[o].buyer THEN "update" ELSE "refused")
  /\ UNCHANGED <<products, orders, markSame>>

UpdateStatus(u) ==
  /\ At(u, "update") /\ Goto(u, IF u \in Completes THEN "sold" ELSE "done")
  /\ orders' = [orders EXCEPT ![target[u]].status =
       IF u \in Pays THEN "PaySuccess" ELSE IF u \in Ships THEN "Shipment"
       ELSE "OrderComplete"]
  /\ UNCHANGED <<products, target, markSame>>

(* Mutant: a row is made for a product that is gone. *)
SetSoldAlways(u) ==
  /\ At(u, "sold") /\ Goto(u, "done")
  /\ products' = [products EXCEPT ![orders[target[u]].product].sold = TRUE]
  /\ UNCHANGED <<orders, target, markSame>>

SetSold(u) ==
  LET p == orders[target[u]].product IN
  /\ At(u, "sold") /\ Goto(u, "done")
  /\ products' = IF Listed(p) THEN [products EXCEPT ![p].sold = TRUE] ELSE products
  /\ UNCHANGED <<orders, target, markSame>>

-----------------------------------------------------------------------------
(* A statement that fails ends the handler. *)
StatementFails(r) ==
  /\ "db" \in Faults /\ pc[r] \in Busy \ {"tell", "take"}
  /\ Goto(r, "error")
  /\ UNCHANGED <<productId, orderId, starts, products, orders, target, taken, told,
                 overlapped, disturbed>>

Restart ==
  /\ starts < MaxStarts
  /\ starts' = starts + 1
  /\ productId' = None /\ orderId' = None
  /\ pc' = [r \in Requests |-> IF pc[r] \in Busy THEN "crashed" ELSE pc[r]]
  /\ UNCHANGED <<products, orders, target, taken, told, overlapped, disturbed>>

Next ==
  \/ \E l \in Lists : ResetProductId(l) \/ InsertProduct(l) \/ TellProduct(l)
  \/ \E e \in Owned : CheckOwner(e) \/ WriteProduct(e)
  \/ \E b \in Buys : \/ ResetOrderId(b) \/ TakeOrderId(b) \/ ReadPrice(b)
                     \/ ReadShip(b) \/ InsertOrder(b)
  \/ \E u \in Marks : CheckSeller(u) \/ CheckBuyer(u) \/ UpdateStatus(u) \/ SetSold(u)
  \/ \E r \in Requests : StatementFails(r)
  \/ Restart

Spec == Init /\ [][Next]_vars

-----------------------------------------------------------------------------
(* Safety. *)

(***************************************************************************)
(* Every order that a buyer was told is placed has a row of its own, with  *)
(* that buyer and product, although two requests may take one id from the  *)
(* atom (sdm_orders.clj:29-30): then one of them is told of an error.      *)
(***************************************************************************)
PlacedIsStored ==
  \A b \in Buys : At(b, "placed") =>
    /\ orders[taken[b].id].buyer = Caller[b]
    /\ orders[taken[b].id].product = target[b]
    /\ \A c \in Buys \ {b} : At(c, "placed") => taken[c].id # taken[b].id

(***************************************************************************)
(* An order is charged a price and a shipping that were on offer together, *)
(* unless its product was edited while it was made (sdm_orders.clj:16-17). *)
(***************************************************************************)
UndisturbedTotal ==
  \A b \in Buys \ disturbed : At(b, "placed") =>
    orders[taken[b].id].price = orders[taken[b].id].ship

(***************************************************************************)
(* The id a seller is given for a new listing names the seller's product,  *)
(* unless another listing was under way with it (sdm_products.clj:27).     *)
(***************************************************************************)
UndisturbedListing ==
  \A l \in Lists \ overlapped : told[l] # None /\ Listed(told[l]) =>
    products[told[l]].owner = Caller[l]

Confirmed(o) == \E u \in Completes : target[u] = o /\ Caller[u] = orders[o].buyer

(***************************************************************************)
(* Only the buyer's own confirmation completes an order or marks a product *)
(* as sold, whatever crashes and failures lie between the two updates.     *)
(***************************************************************************)
BuyerDecides ==
  /\ \A o \in Buys : orders[o].status = "OrderComplete" => Confirmed(o)
  /\ \A p \in Lists : products[p].sold => \E o \in Buys : orders[o].product = p /\ Confirmed(o)

(***************************************************************************)
(* Products, orders and what their makers were told agree: the types, the  *)
(* row of every placed order, the listing every undisturbed seller was     *)
(* told (sdm_orders.clj:29-30, sdm_products.clj:27).                       *)
(***************************************************************************)
MarketIsRight == TypeOK /\ PlacedIsStored /\ UndisturbedListing

-----------------------------------------------------------------------------
(* The inductive invariant: what the steps of the handlers rely on.        *)

(* A listing finds its own id in the atom, or the two of them overlapped.  *)
AtomsAgree ==
  /\ \A l \in Lists : pc[l] \in {"insert", "tell"} =>
       productId # None /\ (productId # l => {l, productId} \subseteq overlapped)
  /\ \A b \in Buys : pc[b] = "take" => orderId # None

(* Price and shipping are written together; a product that overlapped no   *)
(* other belongs to whom its id was made for.                              *)
ListingsAgree ==
  /\ \A p \in Lists : Listed(p) =>
       /\ products[p].price = products[p].ship
       /\ p \notin overlapped => products[p].owner = Caller[p]
  /\ \A l \in Lists \ overlapped : told[l] \in {None, l}

(* What an order has read so far is in force unless it was disturbed.      *)
OrderAgrees(b) ==
  /\ pc[b] # "idle" => target[b] \in Lists
  /\ pc[b] \in {"price", "ship", "store", "placed"} => taken[b].id \in Buys
  /\ pc[b] \in {"ship", "store"} => taken[b].price # None
  /\ pc[b] = "store" => taken[b].ship # None
  /\ pc[b] = "ship" /\ b \notin disturbed =>
       Listed(target[b]) /\ taken[b].price = products[target[b]].price
  /\ pc[b] \in {"store", "placed"} /\ b \notin disturbed => taken[b].price = taken[b].ship
  /\ pc[b] = "placed" =>
       /\ orders[taken[b].id].price = taken[b].price
       /\ orders[taken[b].id].ship = taken[b].ship
OrdersAgree == \A b \in Buys : OrderAgrees(b)

(* Who updates a status names a placed order, and is its buyer when it is  *)
(* to be completed.                                                        *)
MarksAgree ==
  /\ \A e \in Owned : pc[e] = "write" => target[e] \in Lists
  /\ \A u \in Marks :
       /\ pc[u] = "idle" => target[u] = None
       /\ pc[u] = "sold" => u \in Completes
       /\ pc[u] \in {"update", "sold"} =>
            /\ target[u] \in Buys /\ Placed(target[u])
            /\ u \in Completes => orders[target[u]].buyer = Caller[u]

IInv == /\ TypeOK /\ AtomsAgree /\ ListingsAgree /\ OrdersAgree /\ MarksAgree
        /\ PlacedIsStored /\ BuyerDecides
=============================================================================
