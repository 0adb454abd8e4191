-------------------------- MODULE AtomicInventory --------------------------
(***************************************************************************)
(* What the inventory service promises its callers, with every reserve     *)
(* happening at one instant.  A reserve is all-or-nothing and replays the  *)
(* answer of an active booking under its key; a release takes a snapshot   *)
(* of the order's active bookings and later returns those that are still   *)
(* active.  Inventory.tla, the service as it executes SQL statement by     *)
(* statement, is checked to implement this specification, and              *)
(* OrderSaga.tla composes the order service with it.                       *)
(***************************************************************************)
EXTENDS InventoryRequests

CONSTANT Calls      \* the ReserveStock and ReleaseStock executions

VARIABLES
    req,        \* the request each call carries
    stock,      \* units of each product free to reserve
    booking,    \* the booking a reserve made: "none", "RESERVED", "RELEASED"
    checked,    \* a reserve that has found nothing to replay
    due,        \* the bookings a release has found and is about to return
    reply       \* the answer of each call, "none" before it is given

atomicVars == <<req, stock, booking, checked, due, reply>>

-----------------------------------------------------------------------------

Pending(c) == req[c] # NoRequest /\ reply[c] = "none"

Active == {c \in Calls : booking[c] = "RESERVED"}

SameKey(c, d) == req[c].key # NoKey /\ req[d].key = req[c].key

SharesProduct(c, d) ==
    \E i \in Lines(req[c]), j \in Lines(req[d]) :
        req[c].items[i].product = req[d].items[j].product

\* The unique index on (idempotency_key, product) of active rows refuses c.
Collides(c) ==
    \/ \E d \in Active : SameKey(c, d) /\ SharesProduct(c, d)
    \/ req[c].key # NoKey /\ RepeatsProduct(req[c])

Returned(D, p) ==
    Cardinality(UNION {{d} \X DemandUnits(req[d], p) : d \in D})

-----------------------------------------------------------------------------

AtomicInit ==
    /\ req = [c \in Calls |-> NoRequest]
    /\ stock = InitialStock
    /\ booking = [c \in Calls |-> "none"]
    /\ checked = [c \in Calls |-> FALSE]
    /\ due = [c \in Calls |-> {}]
    /\ reply = [c \in Calls |-> "none"]

Answer(c, r) == reply' = [reply EXCEPT ![c] = r]

\* Request r arrives as call c; one that is not valid is answered at once.
Arrive(c, r) ==
    /\ req[c] = NoRequest
    /\ req' = [req EXCEPT ![c] = r]
    /\ IF Valid(r) THEN UNCHANGED reply ELSE Answer(c, "invalid")
    /\ UNCHANGED <<stock, booking, checked, due>>

\* An active booking under the same key answers for this call.
Replay(c) ==
    /\ Pending(c)
    /\ req[c].op = "reserve"
    /\ ~checked[c]
    /\ \E d \in Active : SameKey(c, d)
    /\ Answer(c, "replayed")
    /\ UNCHANGED <<req, stock, booking, checked, due>>

\* There is none: the call goes on to reserve.
Miss(c) ==
    /\ Pending(c)
    /\ req[c].op = "reserve"
    /\ ~checked[c]
    /\ ~\E d \in Active : SameKey(c, d)
    /\ checked' = [checked EXCEPT ![c] = TRUE]
    /\ UNCHANGED <<req, stock, booking, due, reply>>

Decide(c, r) ==
    /\ Pending(c)
    /\ checked[c]
    /\ checked' = [checked EXCEPT ![c] = FALSE]
    /\ Answer(c, r)
    /\ UNCHANGED <<req, due>>

\* The whole order is taken from stock, or nothing is.
Reserve(c) ==
    /\ Decide(c, "reserved")
    /\ Satisfiable(req[c], stock)
    /\ ~Collides(c)
    /\ stock' = [p \in Products |-> stock[p] - Demand(req[c], p)]
    /\ booking' = [booking EXCEPT ![c] = "RESERVED"]

Reject(c) ==
    /\ Decide(c, "rejected")
    /\ ~Satisfiable(req[c], stock)
    /\ UNCHANGED <<stock, booking>>

\* A booking under the same key was made since the call looked.
Collide(c) ==
    /\ Decide(c, "duplicate")
    /\ Collides(c)
    /\ UNCHANGED <<stock, booking>>

\* A release reads which bookings of its order are active.
Find(c) ==
    /\ Pending(c)
    /\ req[c].op = "release"
    /\ due[c] = {}
    /\ due' = [due EXCEPT ![c] = {d \in Active : req[d].ref = req[c].ref}]
    /\ IF due'[c] = {} THEN Answer(c, "nothing") ELSE UNCHANGED reply
    /\ UNCHANGED <<req, stock, booking, checked>>

\* It returns those that no other release returned in between.
Return(c) ==
    LET D == due[c] \cap Active IN
    /\ Pending(c)
    /\ due[c] # {}
    /\ stock' = [p \in Products |-> stock[p] + Returned(D, p)]
    /\ booking' = [d \in Calls |-> IF d \in D THEN "RELEASED" ELSE booking[d]]
    /\ due' = [due EXCEPT ![c] = {}]
    /\ Answer(c, IF D = {} THEN "nothing" ELSE "released")
    /\ UNCHANGED <<req, checked>>

\* The replica or its database connection dies: no effect, an error status.
Fail(c) ==
    /\ Pending(c)
    /\ checked' = [checked EXCEPT ![c] = FALSE]
    /\ due' = [due EXCEPT ![c] = {}]
    /\ Answer(c, "failed")
    /\ UNCHANGED <<req, stock, booking>>

Serve(c) ==
    \/ Replay(c) \/ Miss(c)
    \/ Reserve(c) \/ Reject(c) \/ Collide(c)
    \/ Find(c) \/ Return(c)

AtomicNext ==
    \E c \in Calls : (\E r \in Requests : Arrive(c, r)) \/ Serve(c) \/ Fail(c)

AtomicSpec == AtomicInit /\ [][AtomicNext]_atomicVars
=============================================================================
