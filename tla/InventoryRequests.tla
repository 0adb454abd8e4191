------------------------- MODULE InventoryRequests -------------------------
(***************************************************************************)
(* The requests that reach the inventory service's stock operations        *)
(* (services.reserve_stock and services.release_stock) and what they ask   *)
(* for.  A request is a record                                             *)
(*                                                                         *)
(*   [op |-> "reserve" or "release", ref |-> order_ref,                    *)
(*    key |-> idempotency_key, items |-> sequence of [product, quantity]]  *)
(*                                                                         *)
(* where NoRef and NoKey stand for the empty string.  A release carries    *)
(* only its order_ref.                                                     *)
(***************************************************************************)
EXTENDS Integers, Sequences, FiniteSets

CONSTANTS
    Products,       \* primary keys of the Product table
    InitialStock,   \* available_quantity of each product before any order
    Requests,       \* the requests clients may send
    NoRef, NoKey,   \* the empty order_ref and the empty idempotency_key
    NoRequest       \* what a call that has not arrived yet carries

\* Primary keys are integers: the code relies on their order only.
ASSUME ProductsAssumption == Products \subseteq Int

ASSUME StockAssumption == InitialStock \in [Products -> Nat]

\* A request is well formed on the wire; its lines may name a product that
\* does not exist and a quantity that is zero or negative.
ASSUME RequestsAssumption ==
    /\ NoRequest \notin Requests
    /\ \A r \in Requests :
         /\ r.op \in {"reserve", "release"}
         /\ r.items \in Seq([product : Int, quantity : Int])

-----------------------------------------------------------------------------

\* The lines of a request, by position.
Lines(r) == DOMAIN r.items

\* What the servicer lets through to the service layer: an order_ref, and for
\* a reserve at least one line.  The rest is INVALID_ARGUMENT.
Valid(r) == r.ref # NoRef /\ (r.op = "reserve" => r.items # <<>>)

\* The units of product p the request asks for, one element per unit, over all
\* its lines: a product may be named by several of them.
DemandUnits(r, p) ==
    UNION {{i} \X (1 .. r.items[i].quantity) :
               i \in {j \in Lines(r) : r.items[j].product = p}}

Demand(r, p) == Cardinality(DemandUnits(r, p))

\* A plausible mistake in Satisfiable: the quantities are not compared.
BugAnyStock(r, stock) ==
    \A i \in Lines(r) : r.items[i].product \in Products /\ r.items[i].quantity > 0

\* Every line can be served from the given stock, all lines together.
Satisfiable(r, stock) ==
    /\ \A i \in Lines(r) : r.items[i].product \in Products /\ r.items[i].quantity > 0
    /\ \A p \in Products : Demand(r, p) <= stock[p]

\* Two lines of the request name one product.
RepeatsProduct(r) ==
    \E i, j \in Lines(r) : i # j /\ r.items[i].product = r.items[j].product
=============================================================================
