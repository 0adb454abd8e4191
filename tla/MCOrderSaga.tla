---------------------------- MODULE MCOrderSaga ----------------------------
(***************************************************************************)
(* Small instances of OrderSaga: r1 and r2 are one order sent twice with   *)
(* the same Idempotency-Key, r3 is another order.  Stock is enough to hold *)
(* the first order twice, but not for both orders.                         *)
(***************************************************************************)
EXTENDS OrderSaga, TLC

CONSTANTS r1, r2, r3, k1, k2

MCProducts == {1, 2}
MCInitialStock == 1 :> 2 @@ 2 :> 2
\* The two copies of one request are interchangeable.
MCSymmetry == Permutations({r1, r2})
Line(p, n) == [product |-> p, quantity |-> n]
MCKey == [r \in HttpRequests |-> IF r = r3 THEN k2 ELSE k1]
MCItems == [r \in HttpRequests |->
               IF r = r3 THEN <<Line(1, 2)>> ELSE <<Line(1, 1), Line(2, 1)>>]
MCCalls == HttpRequests \X {"reserve", "release"} \X (1 .. MaxAttempts)
MCRequests ==
    {Message(r, op) : r \in HttpRequests, op \in {"reserve", "release"}}
=============================================================================
