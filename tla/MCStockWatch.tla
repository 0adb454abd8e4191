---------------------------- MODULE MCStockWatch ----------------------------
(***************************************************************************)
(* Small instances of StockWatch: two products, whose stock falls and      *)
(* rises again, and an id that is no product.                              *)
(***************************************************************************)
EXTENDS StockWatch, TLC

CONSTANTS p1, p2, ghost

Sub(S) == [action |-> "SUBSCRIBE", ids |-> S]
Unsub(S) == [action |-> "UNSUBSCRIBE", ids |-> S]

MCLevel == [p \in Products |-> [v \in Versions(p) |-> IF v % 2 = 0 THEN 5 ELSE 4]]
\* p1 falls and rises again.
MCChanges == [p \in Products |-> IF p = p1 THEN 2 ELSE 0]
\* Two products at once; and one that is taken back and subscribed again.
MCScripts ==
    {<<Sub({p1, p2})>>, <<Sub({p1, ghost}), Unsub({p1}), Sub({p1})>>}
=============================================================================
