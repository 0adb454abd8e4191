---------------------------- MODULE MCInventory ----------------------------
(***************************************************************************)
(* Small instances of Inventory: two products with stock 2 and 1, and the  *)
(* requests that meet in the interesting ways.                             *)
(***************************************************************************)
EXTENDS Inventory, TLC

CONSTANTS c1, c2, c3, c4, A, B, K, L    \* calls, order_refs and keys

MCProducts == {1, 2}
MCInitialStock == 1 :> 2 @@ 2 :> 1
MCSymmetry == Permutations(Calls)

OneOf(p, n) == [product |-> p, quantity |-> n]
ReserveRequest(ref, key, items) ==
    [op |-> "reserve", ref |-> ref, key |-> key, items |-> items]
ReleaseRequest(ref) ==
    [op |-> "release", ref |-> ref, key |-> NoKey, items |-> <<>>]

\* Order A under key K, one unit of each product.
OrderA == ReserveRequest(A, K, <<OneOf(1, 1), OneOf(2, 1)>>)
\* Order B under key L takes the products in the other order.
OrderB == ReserveRequest(B, L, <<OneOf(2, 1), OneOf(1, 1)>>)
\* Order B again, with key K and another quantity.
StolenKey == ReserveRequest(B, K, <<OneOf(1, 2)>>)
\* A line of ReserveStockBulk: no key.
BulkLine == ReserveRequest(A, NoKey, <<OneOf(1, 1)>>)
\* One product on two lines, with and without a key.
TwoLines == ReserveRequest(B, NoKey, <<OneOf(1, 1), OneOf(1, 1)>>)
KeyedTwoLines == ReserveRequest(B, L, <<OneOf(1, 1), OneOf(1, 1)>>)
\* A line with quantity zero and one for a product that does not exist.
BadLines == ReserveRequest(A, K, <<OneOf(1, 1), OneOf(2, 0), OneOf(3, 1)>>)
\* No line at all; no order_ref.
NoLines == ReserveRequest(A, K, <<>>)
Nameless == ReleaseRequest(NoRef)

\* Every kind of request, three calls at a time.
MCEvery == {OrderA, OrderB, StolenKey, BulkLine, TwoLines, KeyedTwoLines, BadLines,
            NoLines, Nameless, ReleaseRequest(A), ReleaseRequest(B)}
\* The orders that contend, four calls at a time: two bookings of one order and
\* two releases of it, a release between two reserves under one key.
MCContending == {OrderA, OrderB, BulkLine, StolenKey, ReleaseRequest(A)}
=============================================================================
