------------------------------ MODULE OrderBook ------------------------------
(***************************************************************************)
(* OrderBook<false> of OrderBook.hpp over any of the maps of HashMap.hpp:   *)
(* the map from order ids to order pointers, the quantity of every price    *)
(* level of both sides and the index of each side's best level.  An order   *)
(* is the caller's: orders[id] is what the pointer of id leads to, and the  *)
(* pointer itself is the id here.                                           *)
(*                                                                         *)
(* What the callers keep to (TestOrderBook.cpp): an id is inserted once     *)
(* while it is in the book, quantities are positive, prices are on the      *)
(* board.  The code checks none of it.                                      *)
(***************************************************************************)
EXTENDS HashMaps

CONSTANTS
    MapKinds,         \* the maps orderMap_ may be built with
    Ids,
    Quantities,
    Prices,           \* the prices of orders, in steps of 1/PriceSteps of a tick
    MaxPriceLevels,   \* Const::MaxPriceLevels
    PriceSteps

ASSUME KindsAssumption    == MapKinds \subseteq Kinds
ASSUME IdsAssumption      == Ids \subseteq Nat /\ NoValue \notin Ids
ASSUME QuantityAssumption == Quantities \subseteq Nat \ {0}
ASSUME LevelAssumption    == MaxPriceLevels \in Nat \ {0}
ASSUME StepAssumption     == PriceSteps \in Nat \ {0}
ASSUME PricesAssumption   == Prices \subseteq 0 .. MaxPriceLevels * PriceSteps - 1

Sides  == {"bid", "ask"}
Levels == 0 .. MaxPriceLevels - 1

VARIABLES
    orderMap,   \* orderMap_
    orders,     \* the callers' orders that are in the book, by id
    levels,     \* bidLevels_ and askLevels_
    best,       \* bestBidIndex_ and bestAskIndex_
    crashed     \* a null order pointer was followed

bvars == <<orderMap, orders, levels, best, crashed>>

Order == [price : Prices, quantity : Quantities, side : Sides]

Init ==
    /\ \E kind \in MapKinds : orderMap = EmptyMap(kind)
    /\ orders = <<>>
    /\ crashed = FALSE
    /\ levels = [s \in Sides |-> [i \in Levels |-> 0]]
    /\ best = [bid |-> -1, ask |-> MaxPriceLevels]

-----------------------------------------------------------------------------
\* static_cast<int>(price * TicksPerUnit)
priceToIndex(price) == price \div PriceSteps

\* i comes before j on the side s: higher bids, lower asks.
Before(s, i, j) == IF s = "bid" THEN i > j ELSE i < j

\* Where the scan for a new best level ends when all levels are empty.
LastLevel(s) == IF s = "bid" THEN 0 ELSE MaxPriceLevels - 1

\* Mutant: the scan runs upwards on both sides.
NextBestUpwards(s, lv, idx) ==
    IF \E i \in Levels : Before(s, idx, i) /\ lv[i] > 0
    THEN Min({i \in Levels : Before(s, idx, i) /\ lv[i] > 0})
    ELSE LastLevel(s)

\* The loop of updatePriceLevel from the emptied level away from the top.
NextBest(s, lv, idx) ==
    LET live == {i \in Levels : Before(s, idx, i) /\ lv[i] > 0}
    IN  IF live = {} THEN LastLevel(s)
        ELSE CHOOSE i \in live : \A j \in live \ {i} : Before(s, i, j)

updatePriceLevel(s, price, change) ==
    LET idx == priceToIndex(price)
        lv  == [levels[s] EXCEPT ![idx] = @ + change]
    IN  /\ levels' = [levels EXCEPT ![s] = lv]
        /\ best' = IF idx = best[s] /\ lv[idx] = 0
                   THEN [best EXCEPT ![s] = NextBest(s, lv, idx)]
                   ELSE best

\* The orders with one more, and with one less.
Adding(id, order) == [i \in DOMAIN orders \union {id} |-> IF i = id THEN order ELSE orders[i]]
Removing(id)      == [i \in DOMAIN orders \ {id} |-> orders[i]]

\* Mutant: the best index is left to the next cancel.
insertPlain(id, order) ==
    LET put == MapAssign(orderMap, id, id)
    IN  /\ id \notin DOMAIN orders
        /\ orderMap' = put.map
        /\ orders' = Adding(id, order)
        /\ levels' = [levels EXCEPT ![order.side][priceToIndex(order.price)]
                                        = @ + order.quantity]
        /\ UNCHANGED <<best, crashed>>

\* orderMap_[order->order_id] = mem comes first: when it throws, for a pool of
\* nodes that is used up, nothing has been changed.
insert(id, order) ==
    LET s   == order.side
        idx == priceToIndex(order.price)
        put == MapAssign(orderMap, id, id)
    IN  /\ id \notin DOMAIN orders
        /\ UNCHANGED crashed
        /\ \/ put.thrown /\ UNCHANGED <<orderMap, orders, levels, best>>
           \/ /\ ~put.thrown
              /\ orderMap' = put.map
              /\ orders' = Adding(id, order)
              /\ levels' = [levels EXCEPT ![s][idx] = @ + order.quantity]
              /\ best' = IF Before(s, idx, best[s]) THEN [best EXCEPT ![s] = idx]
                         ELSE best

\* "Order not found" is thrown before anything is changed.
NotFound(id) == ~MapContains(orderMap, id) /\ UNCHANGED bvars

\* OrderPtr ord = orderMap_[order_id], behind contains(order_id): a map that puts
\* a new cell in front of the order gives a null pointer.
NullOrder(id) ==
    /\ MapContains(orderMap, id)
    /\ MapIndex(orderMap, id).value = NoValue
    /\ crashed' = TRUE
    /\ UNCHANGED <<orderMap, orders, levels, best>>

Found(id) ==
    /\ MapContains(orderMap, id)
    /\ MapIndex(orderMap, id).value # NoValue
    /\ UNCHANGED crashed

\* Mutant: the level is changed by the new quantity, not by the difference.
updateWhole(id, newQuantity) ==
    \/ NotFound(id)
    \/ /\ Found(id)
       /\ updatePriceLevel(orders[id].side, orders[id].price, newQuantity)
       /\ orderMap' = MapIndex(orderMap, id).map
       /\ orders' = [orders EXCEPT ![id].quantity = newQuantity]

update(id, newQuantity) ==
    \/ NotFound(id)
    \/ NullOrder(id)
    \/ /\ Found(id)
       /\ updatePriceLevel(orders[id].side, orders[id].price,
                           newQuantity - orders[id].quantity)
       /\ orderMap' = MapIndex(orderMap, id).map
       /\ orders' = [orders EXCEPT ![id].quantity = newQuantity]

cancel(id) ==
    \/ NotFound(id)
    \/ NullOrder(id)
    \/ /\ Found(id)
       /\ updatePriceLevel(orders[id].side, orders[id].price, -orders[id].quantity)
       /\ orderMap' = MapErase(MapIndex(orderMap, id).map, id)
       /\ orders' = Removing(id)

\* Nothing follows a segmentation fault.
Crashed == crashed /\ UNCHANGED bvars

Next ==
    \/ /\ ~crashed
       /\ \E id \in Ids :
             \/ \E o \in Order : insert(id, o)
             \/ \E q \in Quantities : update(id, q)
             \/ cancel(id)
    \/ Crashed

Spec == Init /\ [][Next]_bvars

-----------------------------------------------------------------------------
\* bestBid() and bestAsk(): the index, for its price, and the quantity there.
Best(s) == <<best[s], levels[s][best[s]]>>

\* The levels that print() lists for a side, from the best one on.
Printed(s, count) ==
    LET shown(i) == levels[s][i] > 0 /\ ~Before(s, i, best[s])
    IN  {i \in Levels :
            /\ shown(i)
            /\ Cardinality({j \in Levels : shown(j) /\ Before(s, j, i)}) < count}

\* The orders of the book on a level, and what they add up to.
OrdersAt(s, i) == {id \in DOMAIN orders : /\ orders[id].side = s
                                            /\ priceToIndex(orders[id].price) = i}
QuantityAt(s, i) == MapThenSumSet(LAMBDA id : orders[id].quantity, OrdersAt(s, i))

\* Every level holds the sum of its orders' quantities, after any sequence of
\* insert, update and cancel.
LevelsMatch == \A s \in Sides, i \in Levels : levels[s][i] = QuantityAt(s, i)

\* bestBid() and bestAsk() give the best price that has an order, with all that
\* is offered there; on a side that was emptied they give the quantity 0.  Only
\* on a side without any order ever is there no level to read.
TopOfBook ==
    \A s \in Sides :
        LET live == {i \in Levels : OrdersAt(s, i) # {}}
        IN  IF live # {}
            THEN \E i \in live : /\ Best(s) = <<i, QuantityAt(s, i)>>
                                 /\ \A j \in live : ~Before(s, j, i)
            ELSE best[s] \in Levels => Best(s)[2] = 0

\* print() with room for n levels shows the n best levels that have orders.
PrintShowsTop ==
    \A s \in Sides, n \in 1 .. MaxPriceLevels :
        Printed(s, n) =
            {i \in Levels : /\ OrdersAt(s, i) # {}
                            /\ Cardinality({j \in Levels : OrdersAt(s, j) # {}
                                                           /\ Before(s, j, i)}) < n}

-----------------------------------------------------------------------------
\* The nodes of a FixedSizedChainingHashMap, wherever they are.
NodesOf(m) == m.free \o FlattenSeq([b \in 1 .. InitBuckets |-> m.buckets[b - 1]])

\* With every kind of map, find() gives exactly the orders that were inserted and
\* not cancelled, each its own; and no node of a pool is lost or in two lists.
MapAgrees ==
    /\ \A id \in Ids :
          MapFind(orderMap, id) = IF id \in DOMAIN orders THEN id ELSE NoValue
    /\ orderMap.kind = "fixed" =>
          /\ ToSet(NodesOf(orderMap)) = Nodes
          /\ Len(NodesOf(orderMap)) = Cardinality(Nodes)
    /\ orderMap.kind = "open" =>
          orderMap.size = Cardinality({i \in DOMAIN orderMap.status :
                                          orderMap.status[i] = "OCCUPIED"})

\* From every map the book can build: after insert() of a new key, find() gives
\* its value, and after erase() of a key it gives nothing; no other key changes.
InsertAndErase ==
    \A id, other \in Ids :
        LET put    == MapInsert(orderMap, id, id)
            erased == MapErase(orderMap, id)
            before == MapFind(orderMap, other)
        IN  /\ ~put.thrown /\ ~MapContains(orderMap, id) =>
                  MapFind(put.map, other) = IF other = id THEN id ELSE before
            /\ MapFind(erased, other) = IF other = id THEN NoValue ELSE before

\* operator[] gives the order that contains() has just found, unless the map is
\* an OpenAddressingHashMap in which an erased cell lies in front of it.
NullOnlyBehindTombstone ==
    crashed =>
        /\ orderMap.kind = "open"
        /\ \E id \in DOMAIN orders, i \in DOMAIN orderMap.status :
              /\ i = OpenPlace(orderMap, id)
              /\ orderMap.status[i] = "DELETED"

=============================================================================
