---------------------------- MODULE BulkOrders ----------------------------
(***************************************************************************)
(* OrderService.create_orders_bulk of the order service (POST /orders/bulk)*)
(* and the client-streaming RPC ReserveStockBulk under it.  The lines of   *)
(* all orders of a batch go down one stream; the server reserves each in a *)
(* transaction of its own and answers once, when the stream ends.  Orders  *)
(* reserved on every line are persisted in one commit, and the ones        *)
(* reserved in part are released.                                          *)
(*                                                                         *)
(* An order is <<batch, position>> and is its own order_ref: the code      *)
(* draws a fresh uuid.  Its line i is the AtomicInventory call             *)
(* <<batch, position, i>>, and its release is <<batch, position, 0>>: one  *)
(* call for all attempts of the RPC, because nothing else uses the ref.    *)
(***************************************************************************)
EXTENDS AtomicInventory

CONSTANTS
    Batches,        \* the POST /orders/bulk requests
    Payload,        \* each batch: a sequence of orders, each a sequence of lines
    MaxOutages,     \* bound: how many calls fail on the server
    Faults          \* which failures happen: see the actions that name them

OrdersOf(b) == {<<b, j>> : j \in DOMAIN Payload[b]}
BulkOrderRefs == UNION {OrdersOf(b) : b \in Batches}

OrderOf(c) == <<c[1], c[2]>>

ItemsOf(o) == Payload[o[1]][o[2]]
LineCalls(o) == {<<o[1], o[2], i>> : i \in DOMAIN ItemsOf(o)}
ReleaseCall(o) == <<o[1], o[2], 0>>
StreamOf(b) == UNION {LineCalls(o) : o \in OrdersOf(b)}

\* OrderCreate and BulkOrderCreate have no empty lists.
ASSUME BulkAssumption ==
    /\ \A b \in Batches :
         Payload[b] \in Seq(Seq([product : Int, quantity : Int]) \ {<<>>}) \ {<<>>}
    /\ NoRef \notin BulkOrderRefs
    /\ Calls = UNION {LineCalls(o) \cup {ReleaseCall(o)} : o \in BulkOrderRefs}
    /\ MaxOutages \in Nat
    /\ Faults \subseteq {"stream", "commit", "release", "crash"}

VARIABLES
    saved,      \* the orders in the order database
    at,         \* where the handler of each batch stands
    left,       \* stranded_refs, less the ones it is done with
    result,     \* the HTTP status it has answered, "none" before
    outages     \* how many calls have failed on the server

bulkHandlers == <<saved, at, left, result>>
bulkVars == <<atomicVars, bulkHandlers, outages>>

-----------------------------------------------------------------------------

BulkInit ==
    /\ AtomicInit
    /\ saved = {}
    /\ at = [b \in Batches |-> "new"]
    /\ left = [b \in Batches |-> {}]
    /\ result = [b \in Batches |-> "none"]
    /\ outages = 0

InFlight(b) == at[b] \notin {"new", "done"}

Goto(b, place) == at' = [at EXCEPT ![b] = place]

Respond(b, status) ==
    /\ Goto(b, "done")
    /\ result' = [result EXCEPT ![b] = status]

-----------------------------------------------------------------------------
(* The stream.                                                             *)

OpenStream(b) ==
    /\ at[b] = "new"
    /\ Goto(b, "stream")
    /\ UNCHANGED <<atomicVars, saved, left, result, outages>>

\* d goes down the stream before c.
Before(d, c) == d[2] < c[2] \/ (d[2] = c[2] /\ d[3] < c[3])

Outcome(c) == reply[c] \in {"reserved", "rejected"}

LineMessage(c) ==
    [op |-> "reserve", ref |-> OrderOf(c), key |-> NoKey,
     items |-> <<Payload[c[1]][c[2]][c[3]]>>]

\* The server reads line c when it is done with the lines before it.  It may
\* go on after the client has left: a cancelled stream is noticed late.
ReadLine(c) ==
    LET b == c[1] IN
    /\ at[b] # "new"
    /\ c \in StreamOf(b)
    /\ \A d \in StreamOf(b) : Before(d, c) => Outcome(d)
    /\ Arrive(c, LineMessage(c))
    /\ UNCHANGED <<bulkHandlers, outages>>

\* A line raised or its replica died: the stream ends there, with an error
\* and without a summary.  The RPC has no retry policy.
LineRaised(b) ==
    /\ at[b] = "stream"
    /\ \E c \in StreamOf(b) : reply[c] = "failed"
    /\ Respond(b, "5xx")
    /\ UNCHANGED <<atomicVars, saved, left, outages>>

\* The deadline passes or the connection breaks, wherever the server is.
StreamBroken(b) ==
    /\ "stream" \in Faults
    /\ at[b] = "stream"
    /\ Respond(b, "5xx")
    /\ UNCHANGED <<atomicVars, saved, left, outages>>

\* The wait for the summary ends only with an outcome that reserved.
BugAllReserved(b) == \A c \in StreamOf(b) : reply[c] = "reserved"

\* The stream is exhausted: the summary holds the outcome of every line.
Exhausted(b) == \A c \in StreamOf(b) : Outcome(c)

Summary(b) ==
    /\ at[b] = "stream"
    /\ Exhausted(b)
    /\ Goto(b, "persist")
    /\ UNCHANGED <<atomicVars, saved, left, result, outages>>

-----------------------------------------------------------------------------
(* create_orders_bulk, from the summary on.                                *)

ReservedLines(o) == {c \in LineCalls(o) : reply[c] = "reserved"}

Persisted(b) == {o \in OrdersOf(b) : ReservedLines(o) = LineCalls(o)}

\* Whatever has a reserved line is released, persisted or not.
BugReleaseAll(b) == {o \in OrdersOf(b) : ReservedLines(o) # {}}

\* An order counts as partial by its first line.
BugFirstLine(b) ==
    {o \in OrdersOf(b) \ Persisted(b) : <<o[1], o[2], 1>> \in ReservedLines(o)}

Partial(b) == {o \in OrdersOf(b) \ Persisted(b) : ReservedLines(o) # {}}

\* All persisted orders are saved in one commit.
Commit(b) ==
    /\ at[b] = "persist"
    /\ saved' = saved \cup Persisted(b)
    /\ left' = [left EXCEPT ![b] = Partial(b)]
    /\ Goto(b, "release")
    /\ UNCHANGED <<atomicVars, result, outages>>

\* commit raises, before or after it took effect in the database, and nothing
\* catches it.  A session without new orders has nothing to commit.
CommitRaises(b) ==
    /\ "commit" \in Faults
    /\ at[b] = "persist"
    /\ Persisted(b) # {}
    /\ saved' \in {saved, saved \cup Persisted(b)}
    /\ Respond(b, "500")
    /\ UNCHANGED <<atomicVars, left, outages>>

\* Partial orders are released one after another: o is the next.
First(b, o) == \A q \in left[b] : o[2] <= q[2]

ReleaseMessage(o) == [op |-> "release", ref |-> o, key |-> NoKey, items |-> <<>>]

SendRelease(b) ==
    /\ at[b] = "release"
    /\ \E o \in left[b] : First(b, o) /\ Arrive(ReleaseCall(o), ReleaseMessage(o))
    /\ UNCHANGED <<bulkHandlers, outages>>

\* _release_quietly returns on any answer, and on an error just the same; after
\* a deadline the server may still execute the release.
ReleaseEnds(b) ==
    /\ at[b] = "release"
    /\ \E o \in left[b] :
         /\ First(b, o)
         /\ req[ReleaseCall(o)] # NoRequest
         /\ reply[ReleaseCall(o)] # "none" \/ "release" \in Faults
         /\ left' = [left EXCEPT ![b] = @ \ {o}]
    /\ UNCHANGED <<atomicVars, saved, at, result, outages>>

Report(b) ==
    /\ at[b] = "release"
    /\ left[b] = {}
    /\ Respond(b, "200")
    /\ UNCHANGED <<atomicVars, saved, left, outages>>

-----------------------------------------------------------------------------

\* The order service's process dies with every handler in it.
BulkCrash ==
    /\ "crash" \in Faults
    /\ \E b \in Batches : InFlight(b)
    /\ at' = [b \in Batches |-> IF InFlight(b) THEN "done" ELSE at[b]]
    /\ result' = [b \in Batches |-> IF InFlight(b) THEN "lost" ELSE result[b]]
    /\ UNCHANGED <<atomicVars, saved, left, outages>>

\* A call raises on the server, or its replica dies.
CallFails(c) ==
    /\ outages < MaxOutages
    /\ Fail(c)
    /\ outages' = outages + 1
    /\ UNCHANGED bulkHandlers

BulkServe(c) == Serve(c) /\ UNCHANGED <<bulkHandlers, outages>>

BulkHandle(b) ==
    \/ LineRaised(b) \/ Summary(b)
    \/ Commit(b) \/ CommitRaises(b)
    \/ SendRelease(b) \/ ReleaseEnds(b) \/ Report(b)

BulkNext ==
    \/ \E b \in Batches : OpenStream(b) \/ StreamBroken(b) \/ BulkHandle(b)
    \/ \E c \in Calls : ReadLine(c) \/ BulkServe(c) \/ CallFails(c)
    \/ BulkCrash

\* The client waits, so the server keeps reading: while it does, lines are
\* read and served.  Nobody has to send a batch and nothing has to fail.
BulkFairness ==
    /\ \A b \in Batches : WF_bulkVars(BulkHandle(b))
    /\ \A c \in Calls :
         WF_bulkVars(BulkServe(c)) /\ WF_bulkVars(at[c[1]] = "stream" /\ ReadLine(c))

BulkSpec == BulkInit /\ [][BulkNext]_bulkVars /\ BulkFairness

-----------------------------------------------------------------------------
(* Properties.                                                             *)

Holding(o) == {c \in LineCalls(o) : booking[c] = "RESERVED"}

BulkTypeOK ==
    /\ stock \in [Products -> Nat]
    /\ booking \in [Calls -> {"none", "RESERVED", "RELEASED"}]
    /\ saved \subseteq BulkOrderRefs
    /\ at \in [Batches -> {"new", "stream", "persist", "release", "done"}]
    /\ \A b \in Batches : left[b] \subseteq OrdersOf(b)
    /\ result \in [Batches -> {"none", "200", "500", "5xx", "lost"}]
    /\ outages \in 0 .. MaxOutages

\* Every line of every persisted order holds its stock, whatever is released
\* around it and however often its batch is interrupted (service.py:179-201).
SavedBacked == \A o \in saved : Holding(o) = LineCalls(o)

\* A batch answered with its report holds stock for the orders it persisted
\* only, except where the release of a partial order failed or is still
\* running (service.py:184-201).
PartialReleased ==
    \A o \in BulkOrderRefs :
        /\ result[o[1]] = "200"
        /\ o \notin saved
        /\ req[ReleaseCall(o)] # NoRequest => reply[ReleaseCall(o)] \in {"released", "nothing"}
        => Holding(o) = {}

\* README.md:16-17 "a compensating release on order-persist failure, so stock
\* is never oversold or stranded", and specs/009:73-74 "order-service compensates
\* on persist failure and for bulk `partial` orders": when all is quiet, no
\* order that is not persisted holds stock.
BulkNoStranded ==
    /\ \A b \in Batches : ~InFlight(b)
    /\ \A c \in Calls : ~Pending(c)
    => \A o \in BulkOrderRefs : o \in saved \/ Holding(o) = {}

\* Every batch is answered, whatever becomes of its lines and its releases.
EveryBatchAnswered == \A b \in Batches : InFlight(b) ~> at[b] = "done"
=============================================================================
