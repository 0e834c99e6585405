---------------------------- MODULE MarketProofs ----------------------------
(***************************************************************************)
(* Proofs about Market for every set of requests, users and restarts: the  *)
(* inductive invariant and the safety properties it implies.               *)
(***************************************************************************)
EXTENDS Market, TLAPS

LEMMA InitIInv == Init => IInv
  <1> SUFFICES ASSUME Init PROVE IInv
    OBVIOUS
  <1> USE MarketAssumption DEF Init
  <1>1. TypeOK
    BY DEF TypeOK, Requests, Owned, Marks, Nothing
  <1>2. AtomsAgree /\ ListingsAgree
    BY DEF AtomsAgree, ListingsAgree, Listed, Requests
  <1>3. OrdersAgree /\ MarksAgree
    BY DEF OrdersAgree, OrderAgrees, MarksAgree, Requests, Owned, Marks, Nothing
  <1>4. PlacedIsStored
    BY DEF PlacedIsStored, At, Requests
  <1>5. BuyerDecides
    BY DEF BuyerDecides, NoOrder, NoProduct
  <1>6. QED
    BY <1>1, <1>2, <1>3, <1>4, <1>5 DEF IInv

(* A request is of one kind only, and an id is not None.                   *)
LEMMA Kinds ==
  /\ \A l \in Lists : l \in Requests /\ l \notin Owned \cup Buys \cup Marks
  /\ \A e \in Owned : e \in Requests /\ e \notin Lists \cup Buys \cup Marks
  /\ \A b \in Buys : b \in Requests /\ b \notin Lists \cup Owned \cup Marks
  /\ \A u \in Marks : u \in Requests /\ u \notin Lists \cup Owned \cup Buys
  /\ None \notin Requests /\ None \notin Users
  BY MarketAssumption DEF Requests

(* Nothing becomes sold or complete when these stay as they are.           *)
LEMMA BuyerSame ==
  ASSUME BuyerDecides, UNCHANGED <<products, orders, target>>
  PROVE  BuyerDecides'
  <1>1. \A o : Confirmed(o)' <=> Confirmed(o)
    BY DEF Confirmed
  <1>2. QED
    BY <1>1 DEF BuyerDecides

(* What is known of a row that exists.                                     *)
LEMMA Rows ==
  ASSUME TypeOK
  PROVE  /\ \A p \in Lists : Listed(p) =>
              /\ products[p] \in Product
              /\ products[p].price # None /\ products[p].ship # None
         /\ \A p \in Lists : products[p].sold \in BOOLEAN
         /\ \A o \in Buys : Placed(o) =>
              /\ orders[o] \in OrderRow
              /\ orders[o].product \in Lists /\ orders[o].buyer \in Users
         /\ \A o \in Buys : ~Placed(o) =>
              /\ orders[o].product = None /\ orders[o].buyer = None
              /\ orders[o].status # "OrderComplete"
  <1>1. ASSUME NEW p \in Lists
        PROVE  /\ Listed(p) => /\ products[p] \in Product
                               /\ products[p].price # None /\ products[p].ship # None
               /\ products[p].sold \in BOOLEAN
    <2>1. products[p] \in {NoProduct} \cup Product
      BY DEF TypeOK
    <2>2. Listed(p) => products[p] \in Product
      BY <2>1 DEF Listed
    <2>3. products[p] \in Product => /\ products[p].sold \in BOOLEAN
                                     /\ products[p].price # None /\ products[p].ship # None
      BY MarketAssumption DEF Product, Requests, Owned
    <2>4. NoProduct.sold \in BOOLEAN
      BY DEF NoProduct
    <2>5. QED
      BY <2>1, <2>2, <2>3, <2>4
  <1>2. ASSUME NEW o \in Buys
        PROVE  /\ Placed(o) => /\ orders[o] \in OrderRow
                               /\ orders[o].product \in Lists /\ orders[o].buyer \in Users
               /\ ~Placed(o) => /\ orders[o].product = None /\ orders[o].buyer = None
                                /\ orders[o].status # "OrderComplete"
    <2>1. orders[o] \in {NoOrder} \cup OrderRow
      BY DEF TypeOK
    <2>2. Placed(o) => orders[o] \in OrderRow
      BY <2>1 DEF Placed
    <2>3. orders[o] \in OrderRow => orders[o].product \in Lists /\ orders[o].buyer \in Users
      BY DEF OrderRow
    <2>4. /\ NoOrder.product = None /\ NoOrder.buyer = None
          /\ NoOrder.status # "OrderComplete"
      BY DEF NoOrder
    <2>5. ~Placed(o) => orders[o] = NoOrder
      BY DEF Placed
    <2>6. QED
      BY <2>2, <2>3, <2>4, <2>5
  <1>3. QED
    BY <1>1, <1>2

(* The order that a buyer was told is placed has a row.                    *)
LEMMA PlacedHasRow ==
  ASSUME TypeOK, OrdersAgree, PlacedIsStored, NEW c \in Buys, pc[c] = "placed"
  PROVE  taken[c].id \in Buys /\ Placed(taken[c].id)
  <1>1. taken[c].id \in Buys
    BY DEF OrdersAgree, OrderAgrees
  <1>2. orders[taken[c].id].buyer = Caller[c]
    BY DEF PlacedIsStored, At
  <1>3. Caller[c] # None
    BY Kinds, MarketAssumption
  <1>4. QED
    BY <1>1, <1>2, <1>3, Rows

(* Nobody's confirmation is lost, and who becomes sold or complete has one. *)
LEMMA BuyerKept ==
  ASSUME TypeOK, TypeOK', BuyerDecides,
         \A u \in Completes : target[u] \in Buys => target'[u] = target[u],
         \A o \in Buys : Placed(o) => /\ orders'[o].buyer = orders[o].buyer
                                      /\ orders'[o].product = orders[o].product,
         \A o \in Buys : orders'[o].status = "OrderComplete" =>
           \/ orders[o].status = "OrderComplete"
           \/ \E u \in Completes : target'[u] = o /\ Caller[u] = orders'[o].buyer,
         \A p \in Lists : products'[p].sold = TRUE =>
           \/ products[p].sold = TRUE
           \/ \E o \in Buys, u \in Completes :
                /\ orders'[o].product = p
                /\ target'[u] = o /\ Caller[u] = orders'[o].buyer
  PROVE  BuyerDecides'
  <1>1. ASSUME NEW o \in Buys, Confirmed(o)
        PROVE  /\ \E u \in Completes : target'[u] = o /\ Caller[u] = orders'[o].buyer
               /\ orders'[o].product = orders[o].product
    <2>1. PICK u \in Completes : target[u] = o /\ Caller[u] = orders[o].buyer
      BY <1>1 DEF Confirmed
    <2>2. Caller[u] # None
      <3>1. u \in Requests
        BY Kinds DEF Marks
      <3>2. Caller[u] \in Users
        BY <3>1, MarketAssumption
      <3>3. QED
        BY <3>2, Kinds
    <2>3. Placed(o)
      BY <2>1, <2>2, Rows
    <2>4. QED
      BY <2>1, <2>3
  <1>2. ASSUME NEW o \in Buys, orders'[o].status = "OrderComplete" PROVE Confirmed(o)'
    <2>1. CASE orders[o].status = "OrderComplete"
      BY <1>1, <2>1 DEF BuyerDecides, Confirmed
    <2>2. CASE orders[o].status # "OrderComplete"
      BY <1>2, <2>2 DEF Confirmed
    <2>3. QED
      BY <2>1, <2>2
  <1>3. \A o \in Buys : (\E u \in Completes : target'[u] = o /\ Caller[u] = orders'[o].buyer) => Confirmed(o)'
    BY DEF Confirmed
  <1>4. ASSUME NEW p \in Lists, products'[p].sold = TRUE
        PROVE  \E o \in Buys : orders'[o].product = p /\ Confirmed(o)'
    <2>1. CASE products[p].sold = TRUE
      <3>1. PICK o \in Buys : orders[o].product = p /\ Confirmed(o)
        BY <2>1 DEF BuyerDecides
      <3>2. orders'[o].product = p /\ Confirmed(o)'
        BY <1>1, <1>3, <3>1
      <3>3. QED
        BY <3>2
    <2>2. CASE ~(products[p].sold = TRUE)
      <3>1. PICK o \in Buys, u \in Completes :
              orders'[o].product = p /\ target'[u] = o /\ Caller[u] = orders'[o].buyer
        BY <1>4, <2>2
      <3>2. orders'[o].product = p /\ Confirmed(o)'
        BY <1>3, <3>1
      <3>3. QED
        BY <3>2
    <2>3. QED
      BY <2>1, <2>2
  <1>5. \A p \in Lists : products'[p].sold \in BOOLEAN
    <2>1. \A p \in Lists : products'[p] \in {NoProduct} \cup Product
      BY DEF TypeOK
    <2>2. NoProduct.sold \in BOOLEAN /\ \A x \in Product : x.sold \in BOOLEAN
      BY DEF NoProduct, Product
    <2>3. QED
      BY <2>1, <2>2
  <1>6. \A p \in Lists : products'[p].sold => products'[p].sold = TRUE
    BY <1>5
  <1>7. QED
    BY <1>2, <1>4, <1>6 DEF BuyerDecides

-----------------------------------------------------------------------------
(* add-products *)

LEMMA ResetProductIdIInv ==
  ASSUME IInv, NEW l \in Lists, ResetProductId(l)
  PROVE  IInv'
  <1> USE Kinds DEF IInv, ResetProductId, listSame, At, Goto
  <1>1. TypeOK'
    BY DEF TypeOK, Busy
  <1>2. AtomsAgree'
    BY DEF TypeOK, AtomsAgree
  <1>3. ListingsAgree'
    BY DEF TypeOK, ListingsAgree, Listed
  <1>4. OrdersAgree'
    BY DEF TypeOK, OrdersAgree, OrderAgrees, Listed
  <1>5. MarksAgree'
    BY DEF TypeOK, MarksAgree, Placed
  <1>6. PlacedIsStored'
    BY DEF TypeOK, PlacedIsStored
  <1>7. BuyerDecides'
    BY BuyerSame
  <1>8. QED
    BY <1>1, <1>2, <1>3, <1>4, <1>5, <1>6, <1>7

LEMMA InsertProductIInv ==
  ASSUME IInv, NEW l \in Lists, InsertProduct(l)
  PROVE  IInv'
  <1> USE Kinds DEF IInv, InsertProduct, listSame, At, Goto
  <1>1. TypeOK'
    <2> DEFINE row == [owner |-> Caller[l], price |-> l, ship |-> l, sold |-> FALSE]
    <2>1. productId \in Lists /\ Caller[l] \in Users
      BY MarketAssumption DEF TypeOK, AtomsAgree
    <2>2. row \in Product
      BY <2>1 DEF Product
    <2>3. products' \in {products, [products EXCEPT ![productId] = row]}
      OBVIOUS
    <2>4. products' \in [Lists -> {NoProduct} \cup Product]
      <3> HIDE DEF row
      <3>1. QED
        BY <2>1, <2>2, <2>3 DEF TypeOK
    <2>5. QED
      BY <2>4 DEF TypeOK, Busy, Ended
  <1>2. AtomsAgree'
    BY DEF TypeOK, AtomsAgree
  <1>3. ListingsAgree'
    BY DEF TypeOK, ListingsAgree, AtomsAgree, Listed
  <1>4. OrdersAgree'
    BY DEF TypeOK, OrdersAgree, OrderAgrees, Listed
  <1>5. MarksAgree'
    BY DEF TypeOK, MarksAgree, Placed
  <1>6. PlacedIsStored'
    BY DEF TypeOK, PlacedIsStored
  <1>7. BuyerDecides'
    <2>1. \A p \in Lists : products'[p].sold = TRUE => products[p].sold = TRUE
      BY DEF TypeOK
    <2>2. QED
      BY <1>1, <2>1, BuyerKept
  <1>8. QED
    BY <1>1, <1>2, <1>3, <1>4, <1>5, <1>6, <1>7

LEMMA TellProductIInv ==
  ASSUME IInv, NEW l \in Lists, TellProduct(l)
  PROVE  IInv'
  <1> USE Kinds DEF IInv, TellProduct, listSame, At, Goto
  <1>1. TypeOK'
    BY DEF TypeOK, Ended
  <1>2. AtomsAgree'
    BY DEF TypeOK, AtomsAgree
  <1>3. ListingsAgree'
    BY DEF TypeOK, ListingsAgree, AtomsAgree, Listed
  <1>4. OrdersAgree'
    BY DEF TypeOK, OrdersAgree, OrderAgrees, Listed
  <1>5. MarksAgree'
    BY DEF TypeOK, MarksAgree, Placed
  <1>6. PlacedIsStored'
    BY DEF TypeOK, PlacedIsStored
  <1>7. BuyerDecides'
    BY BuyerSame
  <1>8. QED
    BY <1>1, <1>2, <1>3, <1>4, <1>5, <1>6, <1>7

-----------------------------------------------------------------------------
(* update-products and delete-product! *)

LEMMA CheckOwnerIInv ==
  ASSUME IInv, NEW e \in Owned, CheckOwner(e)
  PROVE  IInv'
  <1> USE Kinds DEF IInv, CheckOwner, ownedSame, At, Goto
  <1>1. TypeOK'
    BY DEF TypeOK, Busy, Ended
  <1>2. AtomsAgree'
    BY DEF TypeOK, AtomsAgree
  <1>3. ListingsAgree'
    BY DEF TypeOK, ListingsAgree, Listed
  <1>4. OrdersAgree'
    BY DEF TypeOK, OrdersAgree, OrderAgrees, Listed
  <1>5. MarksAgree'
    BY DEF TypeOK, MarksAgree, Placed
  <1>6. PlacedIsStored'
    BY DEF TypeOK, PlacedIsStored
  <1>7. BuyerDecides'
    <2>1. \A u \in Completes : target'[u] = target[u]
      BY DEF TypeOK, Marks
    <2>2. QED
      BY <1>1, <2>1, BuyerKept
  <1>8. QED
    BY <1>1, <1>2, <1>3, <1>4, <1>5, <1>6, <1>7

LEMMA WriteProductIInv ==
  ASSUME IInv, NEW e \in Owned, WriteProduct(e)
  PROVE  IInv'
  <1> USE Kinds DEF IInv, WriteProduct, ownedSame, At, Goto
  <1>1. TypeOK'
    <2> DEFINE p == target[e]
               row == [products[p] EXCEPT !.price = e, !.ship = e]
    <2>1. p \in Lists
      BY DEF MarksAgree
    <2>2. Listed(p) /\ e \notin Deletes => row \in Product
      <3>1. Listed(p) => products[p] \in Product
        BY <2>1, Rows
      <3>2. e \notin Deletes => e \in Owned \ Deletes
        OBVIOUS
      <3>3. QED
        BY <3>1, <3>2 DEF Product, Owned
    <2>3. /\ products' \in {[products EXCEPT ![p] = NoProduct], [products EXCEPT ![p] = row]}
          /\ ~(Listed(p) /\ e \notin Deletes) => products' = [products EXCEPT ![p] = NoProduct]
      OBVIOUS
    <2>4. products' \in [Lists -> {NoProduct} \cup Product]
      <3> HIDE DEF row
      <3>1. QED
        BY <2>1, <2>2, <2>3 DEF TypeOK
    <2>5. QED
      BY <2>4 DEF TypeOK, Busy, Ended
  <1>2. AtomsAgree'
    BY DEF TypeOK, AtomsAgree
  <1>3. ListingsAgree'
    BY DEF TypeOK, ListingsAgree, Listed
  <1>4. OrdersAgree'
    BY DEF TypeOK, OrdersAgree, OrderAgrees, Listed
  <1>5. MarksAgree'
    BY DEF TypeOK, MarksAgree, Placed
  <1>6. PlacedIsStored'
    BY DEF TypeOK, PlacedIsStored
  <1>7. BuyerDecides'
    <2>1. NoProduct.sold # TRUE
      BY DEF NoProduct
    <2>2. \A q \in Lists : products'[q] \in {NoProduct, products[q], [products[q] EXCEPT !.price = e, !.ship = e]}
      <3>1. target[e] \in Lists
        BY DEF MarksAgree
      <3>2. products \in [Lists -> {NoProduct} \cup Product]
        BY DEF TypeOK
      <3>3. QED
        BY <3>1, <3>2
    <2>3. \A x : [x EXCEPT !.price = e, !.ship = e].sold = x.sold
      OBVIOUS
    <2>4. \A q \in Lists : products'[q].sold = TRUE => products[q].sold = TRUE
      BY <2>1, <2>2, <2>3
    <2>5. QED
      BY <1>1, <2>4, BuyerKept
  <1>8. QED
    BY <1>1, <1>2, <1>3, <1>4, <1>5, <1>6, <1>7

-----------------------------------------------------------------------------
(* make-order *)

LEMMA ResetOrderIdIInv ==
  ASSUME IInv, NEW b \in Buys, ResetOrderId(b)
  PROVE  IInv'
  <1> USE Kinds DEF IInv, ResetOrderId, buySame, At, Goto
  <1>1. TypeOK'
    BY DEF TypeOK, Busy, Ended
  <1>2. AtomsAgree'
    BY DEF TypeOK, AtomsAgree
  <1>3. ListingsAgree'
    BY DEF TypeOK, ListingsAgree, Listed
  <1>4. OrdersAgree'
    BY DEF TypeOK, OrdersAgree, OrderAgrees, Listed
  <1>5. MarksAgree'
    BY DEF TypeOK, MarksAgree, Placed
  <1>6. PlacedIsStored'
    BY DEF TypeOK, PlacedIsStored
  <1>7. BuyerDecides'
    <2>1. \A u \in Completes : target'[u] = target[u]
      BY DEF TypeOK, Marks
    <2>2. QED
      BY <1>1, <2>1, BuyerKept
  <1>8. QED
    BY <1>1, <1>2, <1>3, <1>4, <1>5, <1>6, <1>7

LEMMA TakeOrderIdIInv ==
  ASSUME IInv, NEW b \in Buys, TakeOrderId(b)
  PROVE  IInv'
  <1> USE Kinds DEF IInv, TakeOrderId, buySame, At, Goto
  <1>1. TypeOK'
    BY DEF TypeOK, Busy, Ended
  <1>2. AtomsAgree'
    BY DEF TypeOK, AtomsAgree
  <1>3. ListingsAgree'
    BY DEF TypeOK, ListingsAgree, Listed
  <1>4. OrdersAgree'
    BY DEF TypeOK, AtomsAgree, OrdersAgree, OrderAgrees, Listed
  <1>5. MarksAgree'
    BY DEF TypeOK, MarksAgree, Placed
  <1>6. PlacedIsStored'
    BY DEF TypeOK, PlacedIsStored
  <1>7. BuyerDecides'
    BY BuyerSame
  <1>8. QED
    BY <1>1, <1>2, <1>3, <1>4, <1>5, <1>6, <1>7

LEMMA ReadPriceIInv ==
  ASSUME IInv, NEW b \in Buys, ReadPrice(b)
  PROVE  IInv'
  <1> USE Kinds DEF IInv, ReadPrice, buySame, At, Goto
  <1>1. TypeOK'
    BY DEF TypeOK, Busy, Ended, OrdersAgree, OrderAgrees, Product, NoProduct
  <1>2. AtomsAgree'
    BY DEF TypeOK, AtomsAgree
  <1>3. ListingsAgree'
    BY DEF TypeOK, ListingsAgree, Listed
  <1>4. OrdersAgree'
    <2> SUFFICES ASSUME NEW c \in Buys PROVE OrderAgrees(c)'
      BY DEF OrdersAgree
    <2>1. CASE c = b
      <3>1. /\ target[b] \in Lists /\ taken[b].id \in Buys
            /\ taken'[b] = [taken[b] EXCEPT !.price = products[target[b]].price]
            /\ taken'[b].id = taken[b].id
            /\ taken'[b].price = products[target[b]].price
        BY DEF TypeOK, OrdersAgree, OrderAgrees
      <3>2. pc'[b] \in {"ship", "error"} /\ (pc'[b] = "ship" => Listed(target[b]))
        BY DEF TypeOK
      <3>3. Listed(target[b]) => products[target[b]].price # None
        BY <3>1, Rows
      <3>4. QED
        BY <2>1, <3>1, <3>2, <3>3 DEF OrderAgrees, Listed
    <2>2. CASE c # b
      BY <2>2 DEF TypeOK, OrdersAgree, OrderAgrees, Listed
    <2>3. QED
      BY <2>1, <2>2
  <1>5. MarksAgree'
    BY DEF TypeOK, MarksAgree, Placed
  <1>6. PlacedIsStored'
    BY DEF TypeOK, PlacedIsStored
  <1>7. BuyerDecides'
    BY BuyerSame
  <1>8. QED
    BY <1>1, <1>2, <1>3, <1>4, <1>5, <1>6, <1>7

LEMMA ReadShipIInv ==
  ASSUME IInv, NEW b \in Buys, ReadShip(b)
  PROVE  IInv'
  <1> USE Kinds DEF IInv, ReadShip, buySame, At, Goto
  <1>1. TypeOK'
    BY DEF TypeOK, Busy, Ended, OrdersAgree, OrderAgrees, Product, NoProduct
  <1>2. AtomsAgree'
    BY DEF TypeOK, AtomsAgree
  <1>3. ListingsAgree'
    BY DEF TypeOK, ListingsAgree, Listed
  <1>4. OrdersAgree'
    <2> SUFFICES ASSUME NEW c \in Buys PROVE OrderAgrees(c)'
      BY DEF OrdersAgree
    <2>1. CASE c = b
      <3>1. /\ target[b] \in Lists /\ taken[b].id \in Buys
            /\ taken'[b] = [taken[b] EXCEPT !.ship = products[target[b]].ship]
            /\ taken'[b].id = taken[b].id
            /\ taken'[b].ship = products[target[b]].ship
        BY DEF TypeOK, OrdersAgree, OrderAgrees
      <3>2. pc'[b] \in {"store", "error"} /\ (pc'[b] = "store" => Listed(target[b]))
        BY DEF TypeOK
      <3>3. Listed(target[b]) => products[target[b]].ship # None
        BY <3>1, Rows
      <3>5. /\ taken'[b].price = taken[b].price /\ taken[b].price # None
            /\ b \notin disturbed => taken[b].price = products[target[b]].ship
        BY <3>1 DEF TypeOK, OrdersAgree, OrderAgrees, ListingsAgree
      <3>4. QED
        BY <2>1, <3>5, <3>1, <3>2, <3>3 DEF OrderAgrees, Listed
    <2>2. CASE c # b
      BY <2>2 DEF TypeOK, OrdersAgree, OrderAgrees, Listed
    <2>3. QED
      BY <2>1, <2>2
  <1>5. MarksAgree'
    BY DEF TypeOK, MarksAgree, Placed
  <1>6. PlacedIsStored'
    BY DEF TypeOK, PlacedIsStored
  <1>7. BuyerDecides'
    BY BuyerSame
  <1>8. QED
    BY <1>1, <1>2, <1>3, <1>4, <1>5, <1>6, <1>7

LEMMA InsertOrderIInv ==
  ASSUME IInv, NEW b \in Buys, InsertOrder(b)
  PROVE  IInv'
  <1> USE Kinds DEF IInv, InsertOrder, buySame, At, Goto
  <1>a. taken[b].id \in Buys /\ Order(b) \in OrderRow
    BY MarketAssumption DEF TypeOK, OrdersAgree, OrderAgrees, Order, OrderRow, Statuses
  <1>b. orders' \in {orders, [orders EXCEPT ![taken[b].id] = Order(b)]}
    OBVIOUS
  <1>c. \A o \in Buys : Placed(o) => orders'[o] = orders[o]
    BY <1>a DEF TypeOK, Placed
  <1>d. pc'[b] \in {"error", "placed"}
    BY DEF TypeOK
  <1>e. pc'[b] = "placed" => ~Placed(taken[b].id) /\ orders'[taken[b].id] = Order(b)
    BY <1>a DEF TypeOK
  <1>f. /\ Order(b).buyer = Caller[b] /\ Order(b).product = target[b]
        /\ Order(b).price = taken[b].price /\ Order(b).ship = taken[b].ship
        /\ Order(b).status = "PlaceOrder"
    BY DEF Order
  <1>1. TypeOK'
    <2>1. orders' \in [Buys -> {NoOrder} \cup OrderRow]
      BY <1>a, <1>b DEF TypeOK
    <2>2. QED
      BY <2>1 DEF TypeOK, Busy, Ended
  <1>2. AtomsAgree'
    BY DEF TypeOK, AtomsAgree
  <1>3. ListingsAgree'
    BY DEF TypeOK, ListingsAgree, Listed
  <1>4. OrdersAgree'
    <2> SUFFICES ASSUME NEW c \in Buys PROVE OrderAgrees(c)'
      BY DEF OrdersAgree
    <2>1. CASE c = b
      BY <2>1, <1>a, <1>d, <1>e, <1>f DEF TypeOK, OrdersAgree, OrderAgrees
    <2>2. CASE c # b /\ pc[c] # "placed"
      BY <2>2 DEF TypeOK, OrdersAgree, OrderAgrees, Listed
    <2>3. CASE c # b /\ pc[c] = "placed"
      <3>1. orders'[taken[c].id] = orders[taken[c].id]
        BY <2>3, <1>c, PlacedHasRow
      <3>2. QED
        BY <2>3, <3>1 DEF TypeOK, OrdersAgree, OrderAgrees, Listed
    <2>4. QED
      BY <2>1, <2>2, <2>3
  <1>5. MarksAgree'
    BY DEF TypeOK, MarksAgree, Placed
  <1>6. PlacedIsStored'
    <2>1. \A c \in Buys \ {b} : pc'[c] = "placed" =>
            /\ pc[c] = "placed" /\ Placed(taken[c].id)
            /\ orders'[taken[c].id] = orders[taken[c].id]
      BY <1>c, PlacedHasRow DEF TypeOK
    <2>2. ASSUME NEW c \in Buys \ {b}, pc'[c] = "placed"
          PROVE  /\ orders'[taken[c].id].buyer = Caller[c]
                 /\ orders'[taken[c].id].product = target[c]
                 /\ \A d \in Buys \ {c} : pc'[d] = "placed" => taken[d].id # taken[c].id
      BY <1>e, <2>1, <2>2 DEF PlacedIsStored
    <2>3. pc'[b] = "placed" => \A d \in Buys \ {b} : pc'[d] = "placed" => taken[d].id # taken[b].id
      BY <1>e, <2>1
    <2>4. QED
      BY <1>e, <1>f, <2>2, <2>3 DEF PlacedIsStored
  <1>7. BuyerDecides'
    <2>1. \A o \in Buys : orders'[o].status = "OrderComplete" => orders[o].status = "OrderComplete"
      BY <1>a, <1>b, <1>f DEF TypeOK
    <2>2. QED
      BY <1>c, <1>1, <2>1, BuyerKept
  <1>8. QED
    BY <1>1, <1>2, <1>3, <1>4, <1>5, <1>6, <1>7

-----------------------------------------------------------------------------
(* The status of an order *)

LEMMA CheckSellerIInv ==
  ASSUME IInv, NEW u \in Marks, CheckSeller(u)
  PROVE  IInv'
  <1> USE Kinds DEF IInv, CheckSeller, markSame, At, Goto
  <1>1. TypeOK'
    BY DEF TypeOK, Busy, Ended
  <1>2. AtomsAgree'
    BY DEF TypeOK, AtomsAgree
  <1>3. ListingsAgree'
    BY DEF TypeOK, ListingsAgree, Listed
  <1>4. OrdersAgree'
    BY DEF TypeOK, OrdersAgree, OrderAgrees, Listed
  <1>5. MarksAgree'
    BY MarketAssumption DEF TypeOK, MarksAgree, Placed, Marks
  <1>6. PlacedIsStored'
    BY DEF TypeOK, PlacedIsStored
  <1>7. BuyerDecides'
    <2>1. \A v \in Completes : target[v] \in Buys => target'[v] = target[v]
      BY DEF TypeOK, MarksAgree, Marks
    <2>2. QED
      BY <1>1, <2>1, BuyerKept
  <1>8. QED
    BY <1>1, <1>2, <1>3, <1>4, <1>5, <1>6, <1>7

LEMMA CheckBuyerIInv ==
  ASSUME IInv, NEW u \in Marks, CheckBuyer(u)
  PROVE  IInv'
  <1> USE Kinds DEF IInv, CheckBuyer, markSame, At, Goto
  <1>1. TypeOK'
    BY DEF TypeOK, Busy, Ended
  <1>2. AtomsAgree'
    BY DEF TypeOK, AtomsAgree
  <1>3. ListingsAgree'
    BY DEF TypeOK, ListingsAgree, Listed
  <1>4. OrdersAgree'
    BY DEF TypeOK, OrdersAgree, OrderAgrees, Listed
  <1>5. MarksAgree'
    BY DEF TypeOK, MarksAgree, Placed
  <1>6. PlacedIsStored'
    BY DEF TypeOK, PlacedIsStored
  <1>7. BuyerDecides'
    <2>1. \A v \in Completes : target[v] \in Buys => target'[v] = target[v]
      BY DEF TypeOK, MarksAgree, Marks
    <2>2. QED
      BY <1>1, <2>1, BuyerKept
  <1>8. QED
    BY <1>1, <1>2, <1>3, <1>4, <1>5, <1>6, <1>7

LEMMA UpdateStatusIInv ==
  ASSUME IInv, NEW u \in Marks, UpdateStatus(u)
  PROVE  IInv'
  <1> USE Kinds DEF IInv, At
  <1>0. /\ pc[u] = "update"
        /\ pc' = [pc EXCEPT ![u] = IF u \in Completes THEN "sold" ELSE "done"]
        /\ UNCHANGED <<products, target, productId, orderId, starts, taken, told, overlapped, disturbed>>
    BY DEF UpdateStatus, markSame, Goto
  <1> DEFINE t == target[u]
             done == IF u \in Pays THEN "PaySuccess" ELSE IF u \in Ships THEN "Shipment"
                     ELSE "OrderComplete"
  <1>a. /\ t \in Buys /\ Placed(t) /\ done \in Statuses
        /\ done = "OrderComplete" => u \in Completes /\ orders[t].buyer = Caller[u]
    BY <1>0 DEF MarksAgree, Statuses, Marks
  <1> DEFINE row == [orders[t] EXCEPT !.status = done]
  <1>i. /\ row \in OrderRow /\ row.status = done
        /\ row.buyer = orders[t].buyer /\ row.product = orders[t].product
        /\ row.price = orders[t].price /\ row.ship = orders[t].ship
    <2>1. orders[t] \in OrderRow
      BY <1>a, Rows
    <2>2. QED
      BY <1>a, <2>1 DEF OrderRow
  <1>j. orders' = [orders EXCEPT ![t] = row]
    BY DEF UpdateStatus
  <1> HIDE DEF done, row, t
  <1>c. /\ \A o \in Buys \ {t} : orders'[o] = orders[o]
        /\ orders'[t] = row
        /\ \A o \in Buys : Placed(o) => /\ orders'[o].buyer = orders[o].buyer
                                       /\ orders'[o].product = orders[o].product
                                       /\ orders'[o].price = orders[o].price
                                       /\ orders'[o].ship = orders[o].ship
    BY <1>a, <1>i, <1>j DEF TypeOK
  <1>k. NoOrder \notin OrderRow
    <2>1. NoOrder.product = None
      BY DEF NoOrder
    <2>2. \A x \in OrderRow : x.product # None
      BY MarketAssumption DEF OrderRow, Requests
    <2>3. QED
      BY <2>1, <2>2
  <1>d. \A o \in Buys : Placed(o) => Placed(o)'
    BY <1>a, <1>c, <1>i, <1>k DEF Placed
  <1>e. \A c \in Buys : pc[c] = "placed" => taken[c].id \in Buys /\ Placed(taken[c].id)
    BY PlacedHasRow
  <1>1. TypeOK'
    <2>1. orders' \in [Buys -> {NoOrder} \cup OrderRow]
      BY <1>a, <1>i, <1>j DEF TypeOK
    <2>2. QED
      BY <1>0, <2>1 DEF TypeOK, Busy, Ended
  <1>2. AtomsAgree'
    BY <1>0 DEF TypeOK, AtomsAgree
  <1>3. ListingsAgree'
    BY <1>0 DEF TypeOK, ListingsAgree, Listed
  <1>4. OrdersAgree'
    BY <1>0, <1>c, <1>e DEF TypeOK, OrdersAgree, OrderAgrees, Listed
  <1>5. MarksAgree'
    <2>1. \A e \in Owned : pc'[e] = "write" => target[e] \in Lists
      BY <1>0 DEF TypeOK, MarksAgree
    <2>2. ASSUME NEW v \in Marks
          PROVE  /\ pc'[v] = "idle" => pc[v] = "idle"
                 /\ pc'[v] = "sold" => v \in Completes
                 /\ pc'[v] \in {"update", "sold"} => pc[v] \in {"update", "sold"}
      BY <1>0 DEF TypeOK, MarksAgree
    <2>3. QED
      BY <1>0, <1>c, <1>d, <2>1, <2>2 DEF MarksAgree
  <1>6. PlacedIsStored'
    BY <1>0, <1>c, <1>e DEF TypeOK, PlacedIsStored
  <1>7. BuyerDecides'
    BY <1>0, <1>a, <1>c, <1>i, <1>1, BuyerKept DEF t
  <1>8. QED
    BY <1>1, <1>2, <1>3, <1>4, <1>5, <1>6, <1>7

LEMMA SetSoldIInv ==
  ASSUME IInv, NEW u \in Marks, SetSold(u)
  PROVE  IInv'
  <1> USE Kinds DEF IInv, At
  <1>0. /\ pc[u] = "sold" /\ pc' = [pc EXCEPT ![u] = "done"]
        /\ UNCHANGED <<orders, target, productId, orderId, starts, taken, told, overlapped, disturbed>>
    BY DEF SetSold, markSame, Goto
  <1> DEFINE p == orders[target[u]].product
  <1>a. /\ target[u] \in Buys /\ Placed(target[u]) /\ p \in Lists
        /\ u \in Completes /\ orders[target[u]].buyer = Caller[u]
    BY <1>0, Rows DEF MarksAgree
  <1> DEFINE row == [products[p] EXCEPT !.sold = TRUE]
  <1>b. products' = IF Listed(p) THEN [products EXCEPT ![p] = row] ELSE products
    BY DEF SetSold
  <1> HIDE DEF p
  <1>i. row.owner = products[p].owner /\ row.price = products[p].price /\ row.ship = products[p].ship
    OBVIOUS
  <1>j. Listed(p) => row \in Product
    <2> SUFFICES ASSUME Listed(p) PROVE row \in Product
      OBVIOUS
    <2>1. products[p] \in Product
      BY <1>a, Rows
    <2>2. QED
      BY <2>1 DEF Product
  <1> HIDE DEF row
  <1>c. /\ \A q \in Lists \ {p} : products'[q] = products[q]
        /\ products'[p] = IF Listed(p) THEN row ELSE products[p]
        /\ \A q \in Lists : /\ products'[q].owner = products[q].owner
                            /\ products'[q].price = products[q].price
                            /\ products'[q].ship = products[q].ship
    BY <1>a, <1>b, <1>i DEF TypeOK
  <1>l. NoProduct \notin Product
    <2>1. NoProduct.owner = None
      BY DEF NoProduct
    <2>2. \A x \in Product : x.owner # None
      BY MarketAssumption DEF Product
    <2>3. QED
      BY <2>1, <2>2
  <1>d. \A q \in Lists : Listed(q)' <=> Listed(q)
    BY <1>c, <1>j, <1>l DEF Listed
  <1>1. TypeOK'
    <2>1. products' \in [Lists -> {NoProduct} \cup Product]
      BY <1>a, <1>b, <1>j DEF TypeOK
    <2>2. QED
      BY <1>0, <2>1 DEF TypeOK, Busy, Ended
  <1>2. AtomsAgree'
    BY <1>0 DEF TypeOK, AtomsAgree
  <1>3. ListingsAgree'
    BY <1>0, <1>c, <1>d DEF TypeOK, ListingsAgree
  <1>4. OrdersAgree'
    BY <1>0, <1>c, <1>d DEF TypeOK, OrdersAgree, OrderAgrees
  <1>5. MarksAgree'
    BY <1>0 DEF TypeOK, MarksAgree, Placed
  <1>6. PlacedIsStored'
    BY <1>0 DEF TypeOK, PlacedIsStored
  <1>7. BuyerDecides'
    BY <1>0, <1>a, <1>c, <1>1, BuyerKept DEF p
  <1>8. QED
    BY <1>1, <1>2, <1>3, <1>4, <1>5, <1>6, <1>7

-----------------------------------------------------------------------------
(* Failures *)

LEMMA StatementFailsIInv ==
  ASSUME IInv, NEW r \in Requests, StatementFails(r)
  PROVE  IInv'
  <1> USE Kinds DEF IInv, StatementFails, At, Goto
  <1>1. TypeOK'
    BY DEF TypeOK, Busy, Ended
  <1>2. AtomsAgree'
    BY DEF TypeOK, AtomsAgree
  <1>3. ListingsAgree'
    BY DEF TypeOK, ListingsAgree, Listed
  <1>4. OrdersAgree'
    BY DEF TypeOK, OrdersAgree, OrderAgrees, Listed, Busy
  <1>5. MarksAgree'
    BY DEF TypeOK, MarksAgree, Placed
  <1>6. PlacedIsStored'
    BY DEF TypeOK, PlacedIsStored
  <1>7. BuyerDecides'
    BY BuyerSame
  <1>8. QED
    BY <1>1, <1>2, <1>3, <1>4, <1>5, <1>6, <1>7

LEMMA RestartIInv ==
  ASSUME IInv, Restart
  PROVE  IInv'
  <1> USE Kinds DEF IInv, Restart, At, Goto
  <1>1. TypeOK'
    BY MarketAssumption DEF TypeOK, Busy, Ended
  <1>2. AtomsAgree'
    BY DEF TypeOK, AtomsAgree, Busy
  <1>3. ListingsAgree'
    BY DEF TypeOK, ListingsAgree, Listed
  <1>4. OrdersAgree'
    BY DEF TypeOK, OrdersAgree, OrderAgrees, Listed, Busy
  <1>5. MarksAgree'
    BY DEF TypeOK, MarksAgree, Placed
  <1>6. PlacedIsStored'
    BY DEF TypeOK, PlacedIsStored
  <1>7. BuyerDecides'
    BY BuyerSame
  <1>8. QED
    BY <1>1, <1>2, <1>3, <1>4, <1>5, <1>6, <1>7

-----------------------------------------------------------------------------
(* The theorems *)

LEMMA NextIInv ==
  ASSUME IInv, [Next]_vars
  PROVE  IInv'
  <1>1. CASE UNCHANGED vars
    <2> USE <1>1 DEF IInv, vars
    <2>1. TypeOK' /\ AtomsAgree' /\ ListingsAgree' /\ MarksAgree'
      BY DEF TypeOK, AtomsAgree, ListingsAgree, MarksAgree, Listed, Placed
    <2>2. OrdersAgree' /\ PlacedIsStored'
      BY DEF OrdersAgree, OrderAgrees, PlacedIsStored, At, Listed
    <2>3. BuyerDecides'
      BY BuyerSame
    <2>4. QED
      BY <2>1, <2>2, <2>3
  <1>2. CASE Next
    <2>1. ASSUME NEW l \in Lists, ResetProductId(l) \/ InsertProduct(l) \/ TellProduct(l)
          PROVE  IInv'
      BY <2>1, ResetProductIdIInv, InsertProductIInv, TellProductIInv
    <2>2. ASSUME NEW e \in Owned, CheckOwner(e) \/ WriteProduct(e)
          PROVE  IInv'
      BY <2>2, CheckOwnerIInv, WriteProductIInv
    <2>3. ASSUME NEW b \in Buys, \/ ResetOrderId(b) \/ TakeOrderId(b) \/ ReadPrice(b)
                                 \/ ReadShip(b) \/ InsertOrder(b)
          PROVE  IInv'
      BY <2>3, ResetOrderIdIInv, TakeOrderIdIInv, ReadPriceIInv, ReadShipIInv, InsertOrderIInv
    <2>4. ASSUME NEW u \in Marks, \/ CheckSeller(u) \/ CheckBuyer(u)
                                  \/ UpdateStatus(u) \/ SetSold(u)
          PROVE  IInv'
      BY <2>4, CheckSellerIInv, CheckBuyerIInv, UpdateStatusIInv, SetSoldIInv
    <2>5. ASSUME NEW r \in Requests, StatementFails(r)
          PROVE  IInv'
      BY <2>5, StatementFailsIInv
    <2>6. QED
      BY <1>2, <2>1, <2>2, <2>3, <2>4, <2>5, RestartIInv DEF Next
  <1>3. QED
    BY <1>1, <1>2

LEMMA IInvImplies == IInv => MarketIsRight /\ UndisturbedTotal /\ BuyerDecides
  <1> SUFFICES ASSUME IInv PROVE MarketIsRight /\ UndisturbedTotal
    BY DEF IInv
  <1> USE DEF IInv
  <1>1. UndisturbedListing
    BY DEF UndisturbedListing, ListingsAgree
  <1>2. UndisturbedTotal
    BY DEF UndisturbedTotal, OrdersAgree, OrderAgrees, At
  <1>3. QED
    BY <1>1, <1>2 DEF MarketIsRight

(* The inductive invariant holds in every reachable state of the market,   *)
(* for every set of requests and users and every number of restarts.       *)
THEOREM MarketInvariant == Spec => []IInv
  <1>1. IInv /\ [Next]_vars => IInv'
    BY NextIInv
  <1>2. QED
    BY InitIInv, <1>1, PTL DEF Spec

(* The types hold; an order that a buyer was told is placed has a row of   *)
(* its own with that buyer and product, whoever took the same id from the  *)
(* atom; the id a seller is told names the seller's listing unless         *)
(* listings overlapped (sdm_orders.clj:29-30, sdm_products.clj:27).        *)
THEOREM MarketStaysRight == Spec => []MarketIsRight
  <1>1. IInv => MarketIsRight
    BY IInvImplies
  <1>2. QED
    BY MarketInvariant, <1>1, PTL

(* Price and shipping of an order were on offer together unless its        *)
(* product was edited between the two reads (sdm_orders.clj:16-17).        *)
THEOREM TotalsAreOffered == Spec => []UndisturbedTotal
  <1>1. IInv => UndisturbedTotal
    BY IInvImplies
  <1>2. QED
    BY MarketInvariant, <1>1, PTL

(* Only the buyer's confirmation completes an order or marks its product   *)
(* as sold, whatever fails or restarts (sdm_orders.clj:93-101).            *)
THEOREM OnlyBuyersComplete == Spec => []BuyerDecides
  <1>1. IInv => BuyerDecides
    BY IInvImplies
  <1>2. QED
    BY MarketInvariant, <1>1, PTL
=============================================================================
