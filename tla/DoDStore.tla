------------------------------ MODULE DoDStore ------------------------------
(***************************************************************************)
(* The DoD settlement store and the invoice queries over it               *)
(* (src/vm/contract/abi/abi_dod_settlement.go): orders by seller and order *)
(* id, connections by seller and product id, each buyer's order list, the  *)
(* PAYG time spans, each buyer's product list, and                         *)
(* DoDSettleGenerateInvoiceByBuyer.                                        *)
(*                                                                         *)
(* The storage-key indirections (order id -> internal id -> order, product *)
(* id -> storage key -> connection) are collapsed into maps keyed by       *)
(* <<seller, order id>> and <<seller, product id>>.  A connection is       *)
(* abstracted to the amount DoDSettleCalcConnInvoice bills it (modelled in *)
(* DoDInvoice), 0 or not.  The contract methods that create orders are not *)
(* part of these sources: Init is any store in which every order of a      *)
(* buyer's list names that buyer, as the tests write it (the list may mix  *)
(* sellers, as TestDoDSettlementAPI_GetOrderIdListByAddressAndSeller does). *)
(***************************************************************************)
EXTENDS Integers, Sequences, FiniteSets, SequencesExt, FiniteSetsExt

CONSTANTS
    Buyers,      \* buyer addresses
    Sellers,     \* seller addresses
    OrderIds,    \* order ids
    ProductIds,  \* product ids
    Times,       \* PAYG start/end times (0: not given)
    MaxCalls,    \* bound on UpdatePAYGTimeSpan calls per key
    None         \* absent record

VARIABLES
    orders,        \* <<seller, orderId>> -> [buyer, conns]: DoDSettleOrderInfo
    userOrders,    \* buyer -> Seq(<<seller, orderId>>): DoDSettleUserInfos.OrderIds
    products,      \* <<seller, productId>> -> billed amount: DoDSettleConnectionInfo
    payg,          \* <<productId, orderId>> -> [st, et]: DoDSettlePAYGTimeSpan
    paygCalls,     \* history: <<productId, orderId>> -> Seq of the [st, et] given
    userProducts,  \* buyer -> Seq(<<seller, productId>>): DoDSettleUserProducts
    productCalls   \* history: buyer -> Seq of the <<seller, productId>> given

storeVars == <<orders, userOrders, products>>
spanVars == <<payg, paygCalls>>
productVars == <<userProducts, productCalls>>
vars == <<storeVars, spanVars, productVars>>

OrderKeys == Sellers \X OrderIds
Amounts == {0, 1}

-----------------------------------------------------------------------------
(* Lookups.                                                                *)

(* DoDSettleGetOrderInfoByOrderId: order id -> internal id -> order info;  *)
(* None where either read fails.                                           *)
GetOrderInfoByOrderId(seller, oid) ==
    IF <<seller, oid>> \in DOMAIN orders THEN orders[<<seller, oid>>] ELSE None

(* DoDSettleGetConnectionInfoByProductId: product id -> storage key ->     *)
(* connection; None where either read fails.                               *)
GetConnectionInfoByProductId(seller, pid) ==
    IF <<seller, pid>> \in DOMAIN products THEN products[<<seller, pid>>] ELSE None

(* DoDSettleGetOrderIdListByAddress: the buyer's <<seller, orderId>> list.*)
GetOrderIdListByAddress(buyer) == userOrders[buyer]

(* DoDSettleGetProductIdListByAddress: the buyer's <<seller, productId>>   *)
(* list; None where nothing is stored for the buyer.                       *)
GetProductIdListByAddress(buyer) ==
    IF buyer \in DOMAIN userProducts THEN userProducts[buyer] ELSE None

(* DoDSettleGetOrderInvoice: the order's connections found under the      *)
(* seller (a missing one is skipped), their amounts summed.               *)
OrderConns(seller, ord) ==
    {p \in ord.conns : GetConnectionInfoByProductId(seller, p) # None}
OrderAmount(seller, ord) ==
    MapThenSumSet(LAMBDA p : GetConnectionInfoByProductId(seller, p), OrderConns(seller, ord))

(* DoDSettleGenerateInvoiceByBuyer(seller, buyer): every order id of the   *)
(* buyer's list is looked up under the given seller, and the first failed *)
(* lookup fails the whole invoice; the buyer is taken from the first      *)
(* order; orders billing 0 are skipped; the connection count is the       *)
(* number of distinct product ids.                                         *)
GenerateInvoiceByBuyer(seller, buyer) ==
    LET list == GetOrderIdListByAddress(buyer)
        info == [i \in DOMAIN list |-> GetOrderInfoByOrderId(seller, list[i][2])]
        billed == {i \in DOMAIN list : info[i] # None /\ OrderAmount(seller, info[i]) # 0}
    IN IF buyer \notin DOMAIN userOrders \/ \E i \in DOMAIN list : info[i] = None
       THEN [err |-> TRUE]
       ELSE [err |-> FALSE,
             buyer |-> IF list = <<>> THEN None ELSE info[1].buyer,
             orderCount |-> Cardinality(billed),
             total |-> MapThenSumSet(LAMBDA i : OrderAmount(seller, info[i]), billed),
             connCount |-> Cardinality(UNION {OrderConns(seller, info[i]) : i \in billed})]

-----------------------------------------------------------------------------
(* Store updates.                                                          *)

(* A connection stored under its product id, as addDoDSettleTestConnection*)
(* does it: DoDSettleUpdateConnection under the storage key, then          *)
(* DoDSettleSetProductStorageKeyByProductId.                               *)
UpdateConnection(seller, pid, amount) ==
    /\ products' = (<<seller, pid>> :> amount) @@ products
    /\ UNCHANGED <<orders, userOrders, spanVars, productVars>>

(* DoDSettleUpdateOrder: the order info rewritten under its internal id,  *)
(* here with another set of connection product ids.                        *)
UpdateOrder(k, conns) ==
    /\ k \in DOMAIN orders
    /\ orders' = [orders EXCEPT ![k].conns = conns]
    /\ UNCHANGED <<userOrders, products, spanVars, productVars>>

(* Mutant: a zero start or end overwrites the stored one.                  *)
UpdatePAYGTimeSpanOverwrite(pid, oid, st, et) ==
    /\ Len(IF <<pid, oid>> \in DOMAIN paygCalls THEN paygCalls[<<pid, oid>>] ELSE <<>>) < MaxCalls
    /\ payg' = (<<pid, oid>> :> [st |-> st, et |-> et]) @@ payg
    /\ paygCalls' = (<<pid, oid>> :> Append(IF <<pid, oid>> \in DOMAIN paygCalls
                                            THEN paygCalls[<<pid, oid>>] ELSE <<>>,
                                            [st |-> st, et |-> et])) @@ paygCalls
    /\ UNCHANGED <<storeVars, productVars>>

(* DoDSettleUpdatePAYGTimeSpan: a first call stores start and end as given;*)
(* a later one replaces only those that are non-zero.                      *)
UpdatePAYGTimeSpan(pid, oid, st, et) ==
    LET k == <<pid, oid>>
        calls == IF k \in DOMAIN paygCalls THEN paygCalls[k] ELSE <<>>
    IN /\ Len(calls) < MaxCalls
       /\ payg' = (k :> IF k \in DOMAIN payg
                        THEN [st |-> IF st > 0 THEN st ELSE payg[k].st,
                              et |-> IF et > 0 THEN et ELSE payg[k].et]
                        ELSE [st |-> st, et |-> et]) @@ payg
       /\ paygCalls' = (k :> Append(calls, [st |-> st, et |-> et])) @@ paygCalls
       /\ UNCHANGED <<storeVars, productVars>>

(* Mutant: the duplicate check compares seller and product id.            *)
UpdateUserProductBySeller(buyer, seller, pid) ==
    LET list == IF buyer \in DOMAIN userProducts THEN userProducts[buyer] ELSE <<>>
        calls == IF buyer \in DOMAIN productCalls THEN productCalls[buyer] ELSE <<>>
    IN /\ Len(calls) < MaxCalls
       /\ userProducts' = IF \E i \in DOMAIN list : list[i] = <<seller, pid>>
                          THEN userProducts
                          ELSE (buyer :> Append(list, <<seller, pid>>)) @@ userProducts
       /\ productCalls' = (buyer :> Append(calls, <<seller, pid>>)) @@ productCalls
       /\ UNCHANGED <<storeVars, spanVars>>

(* DoDSettleUpdateUserProduct: with nothing stored for the buyer, the list *)
(* is the one product; otherwise a product id already listed, under any    *)
(* seller, returns without a write, and a new one is appended.             *)
UpdateUserProduct(buyer, seller, pid) ==
    LET list == IF buyer \in DOMAIN userProducts THEN userProducts[buyer] ELSE <<>>
        calls == IF buyer \in DOMAIN productCalls THEN productCalls[buyer] ELSE <<>>
    IN /\ Len(calls) < MaxCalls
       /\ userProducts' = IF \E i \in DOMAIN list : list[i][2] = pid
                          THEN userProducts
                          ELSE (buyer :> Append(list, <<seller, pid>>)) @@ userProducts
       /\ productCalls' = (buyer :> Append(calls, <<seller, pid>>)) @@ productCalls
       /\ UNCHANGED <<storeVars, spanVars>>

(* DoDSettleGetConnectionInfoByProductStorageKey: a connection's active    *)
(* order with start or end 0 takes them from the PAYG time span, if any.  *)
ActiveSpan(pid, oid, stored) ==
    IF <<pid, oid>> \in DOMAIN payg
    THEN [st |-> IF stored.st = 0 THEN payg[<<pid, oid>>].st ELSE stored.st,
          et |-> IF stored.et = 0 THEN payg[<<pid, oid>>].et ELSE stored.et]
    ELSE stored

-----------------------------------------------------------------------------

(* The lists holding each element of S once.                               *)
Orderings(S) == {f \in [1..Cardinality(S) -> S] : IsInjective(f)}

(* A store the contract may have written: orders with their buyer and     *)
(* connection product ids, each buyer's list holding its orders in some   *)
(* order.                                                                  *)
InitStore ==
    /\ \E keys \in SUBSET OrderKeys :
          orders \in [keys -> [buyer : Buyers, conns : SUBSET ProductIds \ {{}}]]
    /\ \E perm \in Orderings(DOMAIN orders) :
          userOrders = [b \in {orders[k].buyer : k \in DOMAIN orders} |->
                          SelectSeq(perm, LAMBDA k : orders[k].buyer = b)]
    /\ products = <<>>

InitProducts ==
    /\ userProducts = <<>>
    /\ productCalls = <<>>

Init ==
    /\ InitStore
    /\ payg = <<>>
    /\ paygCalls = <<>>
    /\ InitProducts

StoreNext ==
    \/ \E s \in Sellers, p \in ProductIds, a \in Amounts : UpdateConnection(s, p, a)
    \/ \E k \in DOMAIN orders, c \in SUBSET ProductIds \ {{}} : UpdateOrder(k, c)

SpanNext ==
    \E p \in ProductIds, o \in OrderIds, st, et \in Times : UpdatePAYGTimeSpan(p, o, st, et)

ProductNext ==
    \E b \in Buyers, s \in Sellers, p \in ProductIds : UpdateUserProduct(b, s, p)

Next == StoreNext \/ SpanNext \/ ProductNext

Spec == Init /\ [][Next]_vars

-----------------------------------------------------------------------------
(* Properties.                                                             *)

TypeOK ==
    /\ DOMAIN orders \subseteq OrderKeys
    /\ \A k \in DOMAIN orders : orders[k] \in [buyer : Buyers, conns : SUBSET ProductIds]
    /\ DOMAIN userOrders \subseteq Buyers
    /\ DOMAIN products \subseteq Sellers \X ProductIds
    /\ \A k \in DOMAIN products : products[k] \in Amounts
    /\ \A k \in DOMAIN payg : payg[k] \in [st : Times, et : Times]
    /\ DOMAIN userProducts \subseteq Buyers
    /\ \A b \in DOMAIN userProducts : userProducts[b] \in Seq(Sellers \X ProductIds)

(* The invoice a buyer should get from a seller: the buyer's orders with  *)
(* that seller billing something, their total, the distinct products.     *)
ReferenceInvoice(seller, buyer) ==
    LET mine == {k \in ToSet(userOrders[buyer]) : k[1] = seller}
        billed == {k \in mine : OrderAmount(seller, orders[k]) # 0}
    IN [err |-> FALSE,
        buyer |-> buyer,
        orderCount |-> Cardinality(billed),
        total |-> MapThenSumSet(LAMBDA k : OrderAmount(seller, orders[k]), billed),
        connCount |-> Cardinality(UNION {OrderConns(seller, orders[k]) : k \in billed})]

(* For every buyer with orders at the seller, DoDSettleGenerateInvoiceBy-  *)
(* Buyer returns the reference invoice: the invoice of a buyer by one      *)
(* seller is that of its orders with the seller, whatever orders it has    *)
(* with others (TestDoDSettlementAPI_GetOrderIdListByAddress- *)
(* AndSeller stores such a buyer).                                         *)
InvoiceByBuyerCorrect ==
    \A s \in Sellers, b \in DOMAIN userOrders :
        (\E i \in DOMAIN userOrders[b] : userOrders[b][i][1] = s)
            => GenerateInvoiceByBuyer(s, b) = ReferenceInvoice(s, b)

(* The span a connection reads for an order whose stored start and end    *)
(* are 0 is, field by field, the last non-zero value any                  *)
(* DoDSettleUpdatePAYGTimeSpan call gave for it (0 if none did).           *)
LastNonZero(calls, f) ==
    LET nz == {i \in DOMAIN calls : calls[i][f] > 0}
    IN IF nz = {} THEN 0 ELSE calls[Max(nz)][f]

SpanIsLastNonZero ==
    \A k \in DOMAIN paygCalls :
        ActiveSpan(k[1], k[2], [st |-> 0, et |-> 0])
            = [st |-> LastNonZero(paygCalls[k], "st"), et |-> LastNonZero(paygCalls[k], "et")]

(* The buyer's product list, after any sequence of                         *)
(* DoDSettleUpdateUserProduct calls, holds each product id given for the   *)
(* buyer exactly once, with the seller of its first call, in the order of  *)
(* the first calls: a later call with the same product id, from any        *)
(* seller, changes nothing.                                                *)
FirstCalls(calls) ==
    {i \in DOMAIN calls : \A j \in 1..i-1 : calls[j][2] # calls[i][2]}
UserProductsListed ==
    /\ DOMAIN userProducts = DOMAIN productCalls
    /\ \A b \in DOMAIN productCalls :
          LET calls == productCalls[b]
              idx == SetToSortSeq(FirstCalls(calls), <)
          IN GetProductIdListByAddress(b) = [k \in DOMAIN idx |-> calls[idx[k]]]

====
