----------------------------- MODULE Inventory -----------------------------
(***************************************************************************)
(* inventory_app/services.py as PostgreSQL executes it.  Every call runs   *)
(* in a worker thread of some replica with a database connection of its    *)
(* own; calls interleave at SQL statements, under READ COMMITTED:          *)
(*                                                                         *)
(*   - a plain SELECT sees what is committed when it starts;               *)
(*   - UPDATE and SELECT ... FOR UPDATE lock the row until the transaction *)
(*     ends, wait for whoever holds it, and then see its newest version;   *)
(*   - an INSERT that meets an uncommitted row under a unique index waits  *)
(*     for that transaction, and fails if a committed row clashes.         *)
(*                                                                         *)
(* A row of StockReservation is named <<call, line>>: the reserve call     *)
(* that inserted it and the position of the line it stands for; its        *)
(* product, quantity, order_ref and idempotency_key are those of the line. *)
(* The CHECK constraint PositiveIntegerField puts on available_quantity is *)
(* left out: the properties show the code never needs it.                  *)
(***************************************************************************)
EXTENDS InventoryRequests

CONSTANTS
    Calls,      \* the executions of reserve_stock and release_stock
    NoCall      \* the holder of a lock nobody holds

ASSUME CallsAssumption == IsFiniteSet(Calls) /\ NoCall \notin Calls

VARIABLES
    \* the database
    avail,      \* available_quantity of each product, committed
    dirty,      \* its newest version: the lock holder's, or the committed one
    lock,       \* the call that holds the row lock of each product
    reserved,   \* committed StockReservation rows with status RESERVED
    released,   \* committed StockReservation rows with status RELEASED
    \* the transaction of each call
    fresh,      \* rows it inserted
    held,       \* rows a release has locked
    freed,      \* rows a release has flipped to RELEASED
    \* the function of each call
    req,        \* its arguments
    pc,         \* where it stands
    todo,       \* reserve: lines left; release: rows of `claim` left to lock
    claim,      \* release: the rows its query found RESERVED
    seen,       \* reserve: the product.available_quantity it has read
    ok,         \* reserve: all_ok
    outcome     \* what the caller is told, "none" before

database == <<avail, dirty, lock, reserved, released>>
work == <<fresh, held, freed>>
frame == <<req, pc, todo, claim, seen, ok, outcome>>
vars == <<database, work, frame>>

-----------------------------------------------------------------------------

Rows == {x \in Calls \X Nat : req[x[1]] # NoRequest /\ x[2] \in Lines(req[x[1]])}

Line(x) == req[x[1]].items[x[2]]
Product(x) == Line(x).product
Quantity(x) == Line(x).quantity
Key(x) == req[x[1]].key
Ref(x) == req[x[1]].ref

\* The rows a request may leave, one per line.
RowsOf(c) == {c} \X Lines(req[c])

(* An operator that begins "Bug" is a plausible mistake in the definition     *)
(* that follows it; the properties are shown to notice it.                   *)

\* The items are not sorted.
BugRequestOrder(c, i, j) == i < j

\* sorted(items, key=product_id): Python's sort is stable.
Before(c, i, j) ==
    LET p == req[c].items[i].product
        q == req[c].items[j].product
    IN  p < q \/ (p = q /\ i < j)

\* i is the next line of the loop.
NextLine(c, i) == i \in todo[c] /\ \A j \in todo[c] \ {i} : Before(c, i, j)

\* The query lacks its order_by.
BugAnyProduct(X, p) == \E x \in X : Product(x) = p

\* p is the first product, in order_by("product_id"), of the rows X.
FirstProduct(X, p) ==
    (\E x \in X : Product(x) = p) /\ (\A x \in X : p <= Product(x))

\* SELECT without FOR UPDATE.
BugNoLock(c, p) == TRUE

LockFree(c, p) == lock[p] \in {NoCall, c}

\* The replay query lacks status=RESERVED.
BugAnyPrior(c) == {x \in reserved \cup released : req[c].key # NoKey /\ Key(x) = req[c].key}

\* The replay query: RESERVED rows under the caller's key, if it has one.
Prior(c) == {x \in reserved : req[c].key # NoKey /\ Key(x) = req[c].key}

\* Rows of X that the partial unique index does not allow beside line i of c.
Clashing(c, i, X) ==
    {x \in X : /\ req[c].key # NoKey
               /\ Key(x) = req[c].key
               /\ Product(x) = req[c].items[i].product}

\* Rows other transactions have inserted or flipped and not yet committed.
Unsettled(c) == UNION {fresh[d] \cup freed[d] : d \in Calls \ {c}}

IndexBusy(c, i) == Clashing(c, i, Unsettled(c)) # {}
\* The partial unique index is missing.
BugNoIndex(c, i) == FALSE

Duplicate(c, i) == Clashing(c, i, reserved \cup fresh[c]) # {}

\* The comparison is off by one.
BugFits(c, i, n) == n + 1 >= req[c].items[i].quantity

\* product.available_quantity >= item.quantity
Fits(c, i, n) == n >= req[c].items[i].quantity

\* The reservations are read without FOR UPDATE.
BugNoRecheck(x) == TRUE

\* The locked row is still RESERVED: EvalPlanQual rechecks the WHERE clause.
StillReserved(x) == x \in reserved

\* transaction.set_rollback(True) is forgotten.
BugNoRollback(c) == TRUE

AllOk(c) == ok[c]

-----------------------------------------------------------------------------

Init ==
    /\ avail = InitialStock
    /\ dirty = InitialStock
    /\ lock = [p \in Products |-> NoCall]
    /\ reserved = {}
    /\ released = {}
    /\ fresh = [c \in Calls |-> {}]
    /\ held = [c \in Calls |-> {}]
    /\ freed = [c \in Calls |-> {}]
    /\ req = [c \in Calls |-> NoRequest]
    /\ pc = [c \in Calls |-> "idle"]
    /\ todo = [c \in Calls |-> {}]
    /\ claim = [c \in Calls |-> {}]
    /\ seen = [c \in Calls |-> 0]
    /\ ok = [c \in Calls |-> TRUE]
    /\ outcome = [c \in Calls |-> "none"]

Goto(c, label) == pc' = [pc EXCEPT ![c] = label]

Finish(c, o) == Goto(c, "done") /\ outcome' = [outcome EXCEPT ![c] = o]

\* COMMIT makes the transaction's versions the committed ones.
Publish(c) ==
    /\ avail' = [p \in Products |-> IF lock[p] = c THEN dirty[p] ELSE avail[p]]
    /\ reserved' = (reserved \ freed[c]) \cup fresh[c]
    /\ released' = released \cup freed[c]
    /\ UNCHANGED dirty

\* ROLLBACK throws them away.
Discard(c) ==
    /\ dirty' = [p \in Products |-> IF lock[p] = c THEN avail[p] ELSE dirty[p]]
    /\ UNCHANGED <<avail, reserved, released>>

\* Either way the locks go, and with them the function's local variables.
Unlock(c) == lock' = [p \in Products |-> IF lock[p] = c THEN NoCall ELSE lock[p]]

EndTransaction(c) ==
    /\ Unlock(c)
    /\ fresh' = [fresh EXCEPT ![c] = {}]
    /\ held' = [held EXCEPT ![c] = {}]
    /\ freed' = [freed EXCEPT ![c] = {}]
    /\ todo' = [todo EXCEPT ![c] = {}]
    /\ claim' = [claim EXCEPT ![c] = {}]
    /\ seen' = [seen EXCEPT ![c] = 0]
    /\ ok' = [ok EXCEPT ![c] = TRUE]
    /\ UNCHANGED req

-----------------------------------------------------------------------------
(* The servicer: request validation.                                       *)

Accept(c, r) ==
    /\ pc[c] = "idle"
    /\ Valid(r)
    /\ req' = [req EXCEPT ![c] = r]
    /\ Goto(c, IF r.op = "reserve" THEN "check" ELSE "select")
    /\ UNCHANGED <<database, work, todo, claim, seen, ok, outcome>>

\* context.abort(INVALID_ARGUMENT)
Abort(c, r) ==
    /\ pc[c] = "idle"
    /\ ~Valid(r)
    /\ req' = [req EXCEPT ![c] = r]
    /\ Finish(c, "invalid")
    /\ UNCHANGED <<database, work, todo, claim, seen, ok>>

-----------------------------------------------------------------------------
(* reserve_stock                                                           *)

Replay(c) ==
    /\ pc[c] = "check"
    /\ Prior(c) # {}
    /\ Finish(c, "replayed")
    /\ UNCHANGED <<database, work, req, todo, claim, seen, ok>>

BeginReserve(c) ==
    /\ pc[c] = "check"
    /\ Prior(c) = {}
    /\ todo' = [todo EXCEPT ![c] = Lines(req[c])]
    /\ Goto(c, "lines")
    /\ UNCHANGED <<database, work, req, claim, seen, ok, outcome>>

\* quantity <= 0, or Product.DoesNotExist.
RejectLine(c, i) ==
    /\ pc[c] = "lines"
    /\ NextLine(c, i)
    /\ req[c].items[i].quantity <= 0 \/ req[c].items[i].product \notin Products
    /\ ok' = [ok EXCEPT ![c] = FALSE]
    /\ todo' = [todo EXCEPT ![c] = @ \ {i}]
    /\ UNCHANGED <<database, work, req, pc, claim, seen, outcome>>

\* Product.objects.select_for_update().get(pk=item.product_id)
LockLine(c, i) ==
    LET p == req[c].items[i].product IN
    /\ pc[c] = "lines"
    /\ NextLine(c, i)
    /\ req[c].items[i].quantity > 0
    /\ p \in Products
    /\ LockFree(c, p)
    /\ lock' = [lock EXCEPT ![p] = c]
    /\ UNCHANGED <<avail, dirty, reserved, released, work, req, claim, outcome>>

EnoughStock(c, i) ==
    /\ LockLine(c, i)
    /\ Fits(c, i, dirty[req[c].items[i].product])
    /\ seen' = [seen EXCEPT ![c] = dirty[req[c].items[i].product]]
    /\ Goto(c, "write")
    /\ UNCHANGED <<todo, ok>>

\* The line fails; the row lock stays.
InsufficientStock(c, i) ==
    /\ LockLine(c, i)
    /\ ~Fits(c, i, dirty[req[c].items[i].product])
    /\ ok' = [ok EXCEPT ![c] = FALSE]
    /\ todo' = [todo EXCEPT ![c] = @ \ {i}]
    /\ UNCHANGED <<pc, seen>>

\* product.save writes the difference computed from the value read, and
\* StockReservation.objects.create inserts the row.
WriteLine(c, i) ==
    /\ pc[c] = "write"
    /\ NextLine(c, i)
    /\ ~IndexBusy(c, i)
    /\ ~Duplicate(c, i)
    /\ dirty' = [dirty EXCEPT ![req[c].items[i].product] =
                                  seen[c] - req[c].items[i].quantity]
    /\ fresh' = [fresh EXCEPT ![c] = @ \cup {<<c, i>>}]
    /\ todo' = [todo EXCEPT ![c] = @ \ {i}]
    /\ seen' = [seen EXCEPT ![c] = 0]
    /\ Goto(c, "lines")
    /\ UNCHANGED <<avail, lock, reserved, released, held, freed, req, claim, ok, outcome>>

\* The insert breaks the unique index: IntegrityError, rolled back.
LoseUniqueRace(c, i) ==
    /\ pc[c] = "write"
    /\ NextLine(c, i)
    /\ ~IndexBusy(c, i)
    /\ Duplicate(c, i)
    /\ Discard(c)
    /\ EndTransaction(c)
    /\ Finish(c, "duplicate")

Commit(c) ==
    /\ pc[c] = "lines"
    /\ todo[c] = {}
    /\ AllOk(c)
    /\ Publish(c)
    /\ EndTransaction(c)
    /\ Finish(c, "reserved")

\* transaction.set_rollback(True)
Rollback(c) ==
    /\ pc[c] = "lines"
    /\ todo[c] = {}
    /\ ~AllOk(c)
    /\ Discard(c)
    /\ EndTransaction(c)
    /\ Finish(c, "rejected")

-----------------------------------------------------------------------------
(* release_stock                                                           *)

\* The query's snapshot.  Its rows are locked one by one afterwards.
Select(c) ==
    LET found == {x \in reserved : Ref(x) = req[c].ref} IN
    /\ pc[c] = "select"
    /\ claim' = [claim EXCEPT ![c] = found]
    /\ todo' = [todo EXCEPT ![c] = found]
    /\ IF found = {} THEN Finish(c, "nothing")
                     ELSE Goto(c, "claim") /\ UNCHANGED outcome
    /\ UNCHANGED <<database, work, req, seen, ok>>

\* FOR UPDATE locks the found rows in product order, those of one product in
\* heap order, which is the same for every query: one step.
LockRows(c, p) ==
    LET batch == {x \in todo[c] : Product(x) = p} IN
    /\ pc[c] = "claim"
    /\ FirstProduct(todo[c], p)
    /\ \A d \in Calls \ {c} : held[d] \cap batch = {}
    /\ held' = [held EXCEPT ![c] = @ \cup {x \in batch : StillReserved(x)}]
    /\ todo' = [todo EXCEPT ![c] = @ \ batch]
    /\ Goto(c, IF todo[c] = batch THEN "release" ELSE "claim")
    /\ UNCHANGED <<database, fresh, freed, req, claim, seen, ok, outcome>>

\* UPDATE ... SET available_quantity = available_quantity + n waits for the
\* product's lock; reservation.save then needs no lock it does not hold.
ReleaseRow(c, x) ==
    /\ pc[c] = "release"
    /\ x \in held[c] \ freed[c]
    /\ FirstProduct(held[c] \ freed[c], Product(x))
    /\ LockFree(c, Product(x))
    /\ lock' = [lock EXCEPT ![Product(x)] = c]
    /\ dirty' = [dirty EXCEPT ![Product(x)] = @ + Quantity(x)]
    /\ freed' = [freed EXCEPT ![c] = @ \cup {x}]
    /\ UNCHANGED <<avail, reserved, released, fresh, held, frame>>

CommitRelease(c) ==
    /\ pc[c] = "release"
    /\ freed[c] = held[c]
    /\ Publish(c)
    /\ EndTransaction(c)
    /\ Finish(c, IF held[c] = {} THEN "nothing" ELSE "released")

-----------------------------------------------------------------------------

Active(c) == pc[c] \notin {"idle", "done"}

\* The replica is killed or the connection drops before COMMIT.
Crash(c) ==
    /\ Active(c)
    /\ Discard(c)
    /\ EndTransaction(c)
    /\ Finish(c, "failed")

Arrive(c) == \E r \in Requests : Accept(c, r) \/ Abort(c, r)

ReserveStep(c) ==
    \/ Replay(c)
    \/ BeginReserve(c)
    \/ \E i \in todo[c] :
         \/ RejectLine(c, i)
         \/ EnoughStock(c, i)
         \/ InsufficientStock(c, i)
         \/ WriteLine(c, i)
         \/ LoseUniqueRace(c, i)
    \/ Commit(c)
    \/ Rollback(c)

ReleaseStep(c) ==
    \/ Select(c)
    \/ \E p \in Products : LockRows(c, p)
    \/ \E x \in held[c] : ReleaseRow(c, x)
    \/ CommitRelease(c)

Step(c) == ReserveStep(c) \/ ReleaseStep(c)

Next == \E c \in Calls : Arrive(c) \/ Step(c) \/ Crash(c)

\* Calls may stop arriving and nothing obliges a replica to crash; a thread
\* that is running goes on.
Fairness == \A c \in Calls : WF_vars(Step(c))

Spec == Init /\ [][Next]_vars /\ Fairness

-----------------------------------------------------------------------------
(* Properties.                                                             *)

Labels == {"idle", "check", "lines", "write", "select", "claim", "release", "done"}

Outcomes == {"none", "invalid", "reserved", "replayed", "rejected", "duplicate",
             "released", "nothing", "failed"}

StockTypes ==
    /\ avail \in [Products -> Nat]
    /\ dirty \in [Products -> Nat]
    /\ lock \in [Products -> Calls \cup {NoCall}]

CallTypes ==
    /\ req \in [Calls -> Requests \cup {NoRequest}]
    /\ pc \in [Calls -> Labels]
    /\ outcome \in [Calls -> Outcomes]
    /\ ok \in [Calls -> BOOLEAN]
    /\ seen \in [Calls -> Nat]
    /\ \A c \in Calls : pc[c] # "idle" => req[c] # NoRequest

RowTypes ==
    /\ reserved \subseteq Rows /\ released \subseteq Rows
    /\ fresh \in [Calls -> SUBSET Rows]
    /\ claim \in [Calls -> SUBSET Rows]
    /\ held \in [Calls -> SUBSET Rows]
    /\ freed \in [Calls -> SUBSET Rows]
    /\ \A c \in Calls : freed[c] \subseteq held[c] /\ held[c] \subseteq claim[c]

TodoTypes ==
    /\ todo = [c \in Calls |-> todo[c]]
    /\ \A c \in Calls :
         /\ pc[c] \in {"lines", "write"} => todo[c] \subseteq Lines(req[c])
         /\ pc[c] = "claim" => todo[c] \subseteq claim[c]
         /\ pc[c] \notin {"lines", "write", "claim"} => todo[c] = {}

\* Types.  In particular no version of available_quantity, committed or not, is
\* ever negative: reserve_stock does not oversell under any interleaving.
TypeOK == StockTypes /\ CallTypes /\ RowTypes /\ TodoTypes

-----------------------------------------------------------------------------
(* What holds of the transactions in flight, by parts: the strengthening    *)
(* the proofs of the properties below rest on.                              *)

\* A product nobody has locked has no uncommitted version.
DirtyInv == \A p \in Products : lock[p] = NoCall => dirty[p] = avail[p]

\* At each stage of a call, what its transaction may own.
StageInv == \A c \in Calls :
    /\ pc[c] = "idle" => req[c] = NoRequest
    /\ pc[c] # "done" => outcome[c] = "none"
    /\ pc[c] \notin {"lines", "write"} => fresh[c] = {}
    /\ pc[c] \notin {"claim", "release"} => claim[c] = {}
    /\ pc[c] # "release" => freed[c] = {}
    /\ pc[c] \notin {"lines", "write", "release"} => \A p \in Products : lock[p] # c

\* Whoever inserts a row holds the product's lock, and has done that line.
FreshInv == \A c \in Calls : \A x \in fresh[c] :
    /\ x[1] = c /\ x[2] \notin todo[c]
    /\ Product(x) \in Products /\ Quantity(x) > 0
    /\ lock[Product(x)] = c

\* So does whoever flips one.
FreedInv == \A c \in Calls : \A x \in freed[c] :
    Product(x) \in Products /\ lock[Product(x)] = c

\* A locked row stays RESERVED, and has one owner.
HeldInv == \A c \in Calls :
    /\ held[c] \subseteq reserved
    /\ \A d \in Calls \ {c} : held[c] \cap held[d] = {}

\* Between the SELECT ... FOR UPDATE and the save, the value read is the newest
\* one and is enough.
WriteInv == \A c \in Calls : \A i \in todo[c] :
    pc[c] = "write" /\ NextLine(c, i) =>
        LET line == req[c].items[i] IN
        /\ line.product \in Products /\ line.quantity > 0
        /\ lock[line.product] = c
        /\ seen[c] = dirty[line.product]
        /\ Fits(c, i, seen[c])

\* Committed rows belong to calls that answered "reserved".
RowsInv == \A x \in reserved \cup released :
    Product(x) \in Products /\ Quantity(x) > 0 /\ outcome[x[1]] = "reserved"

\* The index admits each transaction's rows beside the committed ones.
UniqueInv == \A c \in Calls : \A x, y \in reserved \cup fresh[c] :
    x # y /\ Key(x) = Key(y) /\ Key(x) # NoKey => Product(x) # Product(y)

TransactionInv ==
    /\ DirtyInv /\ StageInv /\ FreshInv /\ FreedInv
    /\ HeldInv /\ WriteInv /\ RowsInv /\ UniqueInv

-----------------------------------------------------------------------------

Units(X) == UNION {{x} \X (1 .. Quantity(x)) : x \in X}

Reserved(p) == Cardinality(Units({x \in reserved : Product(x) = p}))

\* What is committed adds up: each product's available units and its RESERVED
\* units are the initial stock, whatever transactions are in flight.  A lost
\* update, a row released twice or a decrement without its row would break it.
Conservation == \A p \in Products : avail[p] + Reserved(p) = InitialStock[p]

\* The constraint uniq_active_reservation_per_key_product: a retried reserve
\* never holds a product twice under one key.
UniqueActive ==
    \A x, y \in reserved :
        x # y /\ Key(x) = Key(y) /\ Key(x) # NoKey => Product(x) # Product(y)

\* A call that answered "reserved" has a row for each of its lines, all of them
\* RESERVED or all of them RELEASED; any other call has left no row at all.
\* Releases of one order may run together, crash and be retried.
AllOrNothing ==
    \A c \in Calls :
        LET active == {x \in reserved : x[1] = c}
            past == {x \in released : x[1] = c}
        IN  IF outcome[c] = "reserved" THEN {active, past} = {{}, RowsOf(c)}
                                       ELSE active = {} /\ past = {}

\* The transactions the next statement of c would wait for.
WaitsFor(c) ==
    CASE pc[c] = "lines" ->
           {d \in Calls \ {c} : \E i \in todo[c] :
              NextLine(c, i) /\ req[c].items[i].quantity > 0
                /\ req[c].items[i].product \in {p \in Products : lock[p] = d}}
      [] pc[c] = "write" ->
           {d \in Calls \ {c} : \E i \in todo[c] :
              NextLine(c, i) /\ Clashing(c, i, fresh[d] \cup freed[d]) # {}}
      [] pc[c] = "claim" ->
           {d \in Calls \ {c} : \E x \in todo[c] :
              FirstProduct(todo[c], Product(x)) /\ x \in held[d]}
      [] pc[c] = "release" ->
           {d \in Calls \ {c} : \E x \in held[c] \ freed[c] :
              FirstProduct(held[c] \ freed[c], Product(x)) /\ lock[Product(x)] = d}
      [] OTHER -> {}

\* The database never has a deadlock to resolve: some transaction of any group
\* waits for none of the group.  This is what taking locks in product order is
\* for, across row locks of Product, of StockReservation and index waits.
NoWaitCycle ==
    \A S \in (SUBSET Calls) \ {{}} : \E c \in S : WaitsFor(c) \cap S = {}

\* The insert never waits on the unique index: whoever inserts or flips a row
\* of the product holds the product's lock first.  So the index race of the
\* docstring is decided by committed rows alone.
NoIndexWait ==
    \A c \in Calls : \A i \in todo[c] :
        pc[c] = "write" /\ NextLine(c, i) => ~IndexBusy(c, i)

\* Every call is answered: no lock is left behind by a transaction that was
\* rolled back, lost the index race or died.
EveryCallAnswered == \A c \in Calls : Active(c) ~> pc[c] = "done"

\* The service as callers see it.
Atomic == INSTANCE AtomicInventory WITH
    stock <- avail,
    booking <- [c \in Calls |->
                  IF \E x \in reserved : x[1] = c THEN "RESERVED"
                  ELSE IF \E x \in released : x[1] = c THEN "RELEASED" ELSE "none"],
    checked <- [c \in Calls |-> pc[c] \in {"lines", "write"}],
    due <- [c \in Calls |-> {x[1] : x \in claim[c]}],
    reply <- outcome

\* Interleaved SQL behaves as if each reserve, replay and refusal happened at
\* one instant, with releases that return what is still active.
ImplementsAtomic == Atomic!AtomicSpec
=============================================================================
