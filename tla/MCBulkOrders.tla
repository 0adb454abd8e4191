---------------------------- MODULE MCBulkOrders ----------------------------
(***************************************************************************)
(* A small instance of BulkOrders: two batches compete for stock that is   *)
(* enough for some of their lines only, so that each order can end up      *)
(* persisted, partial or failed, depending on the interleaving.            *)
(***************************************************************************)
EXTENDS BulkOrders, TLC

CONSTANTS b1, b2

MCProducts == {1, 2}
MCInitialStock == 1 :> 2 @@ 2 :> 1
Line(p, n) == [product |-> p, quantity |-> n]
MCPayload ==
    b1 :> << <<Line(1, 1), Line(2, 1)>>, <<Line(1, 1)>> >> @@
    b2 :> << <<Line(2, 1), Line(1, 1)>>, <<Line(1, 1), Line(1, 1)>> >>
MCCalls == UNION {LineCalls(o) \cup {ReleaseCall(o)} : o \in BulkOrderRefs}
MCRequests ==
    {LineMessage(c) : c \in UNION {LineCalls(o) : o \in BulkOrderRefs}}
        \cup {ReleaseMessage(o) : o \in BulkOrderRefs}
=============================================================================
