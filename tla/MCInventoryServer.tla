------------------------- MODULE MCInventoryServer -------------------------
(***************************************************************************)
(* Small instances of InventoryServer: a watch, a low-stock scan and a     *)
(* third call of any sort, in any order.                                   *)
(***************************************************************************)
EXTENDS InventoryServer

CONSTANTS c1, c2, c3

From(origin, methods) == {[method |-> m, origin |-> origin] : m \in methods}

MCRequests ==
    [c \in Rpcs |->
        CASE c = c1 -> From("order-service", {"WatchStock"})
          [] c = c2 -> From("order-service", {"WatchLowStock"})
          [] c = c3 -> From("probe", {"Check"}) \cup From("order-service", {"ReserveStock", "WatchStock"})
                         \cup From("stranger", {"WatchStock", "unknown"})]
=============================================================================
