----------------------------- MODULE OrderSaga -----------------------------
(***************************************************************************)
(* OrderService.create_order of the order service (POST /orders) over the  *)
(* inventory service: look the order up, reserve over gRPC, persist, and   *)
(* release the reservation when persisting fails.  Handlers are coroutines *)
(* that interleave at their awaits; each RPC is retried by the channel on  *)
(* UNAVAILABLE and bounded by a deadline.                                  *)
(*                                                                         *)
(* The inventory side is AtomicInventory.  One of its calls is one attempt *)
(* of one RPC, <<request, op, attempt>>; the messages of an attempt are    *)
(* left implicit: it is sent when req holds it, and executed by the server *)
(* at any later time, also after the client has abandoned it.              *)
(***************************************************************************)
EXTENDS AtomicInventory

CONSTANTS
    HttpRequests,   \* the POST /orders requests
    Keys,           \* order ids
    Key,            \* each request's Idempotency-Key, or the uuid it is given
    Items,          \* each request's payload.items
    NoOrder,        \* an order id without a row in the order database
    MaxAttempts,    \* maxAttempts of the channel's retryPolicy
    MaxOutages,     \* bound: how many attempts die or lose their connection
    Overlap,        \* may requests with one key be in flight together?
    Late,           \* the ops whose abandoned attempts may still be executed
    Faults          \* which failures happen: see the actions that name them

\* OrderCreate has no empty list of items, and a row is not the lack of one.
ASSUME SagaAssumption ==
    /\ Key \in [HttpRequests -> Keys]
    /\ Items \in [HttpRequests -> Seq([product : Int, quantity : Int]) \ {<<>>}]
    /\ \A r \in HttpRequests : NoOrder # Items[r]
    /\ NoKey \notin Keys /\ NoRef \notin Keys
    /\ MaxAttempts \in Nat \ {0} /\ MaxOutages \in Nat
    /\ Overlap \in BOOLEAN
    /\ Late \subseteq {"reserve", "release"}
    /\ Faults \subseteq {"deadline", "error", "commit", "lost", "refresh", "crash"}
    /\ Calls = HttpRequests \X {"reserve", "release"} \X (1 .. MaxAttempts)

VARIABLES
    orders,     \* the Order table: the items persisted under each id
    at,         \* where each handler stands
    attempt,    \* the attempt its RPC is at
    result,     \* the HTTP status it has answered, "none" before
    outages     \* how often the network or a replica has failed

handlers == <<at, attempt, result>>
sagaVars == <<atomicVars, orders, handlers, outages>>

-----------------------------------------------------------------------------

SagaInit ==
    /\ AtomicInit
    /\ orders = [k \in Keys |-> NoOrder]
    /\ at = [r \in HttpRequests |-> "new"]
    /\ attempt = [r \in HttpRequests |-> 0]
    /\ result = [r \in HttpRequests |-> "none"]
    /\ outages = 0

InFlight(r) == at[r] \notin {"new", "done"}

Waiting(r) == at[r] \in {"reserve", "release"}

Answered(r) == reply[<<r, at[r], attempt[r]>>]

Exists(k) == orders[k] # NoOrder

(* As in Inventory, an operator that begins "Bug" is a plausible mistake in  *)
(* the definition that follows it.                                           *)

\* session.get(Order, order_ref) finds a row.
Found(r) == Exists(Key[r])

\* reserve_stock is called without its idempotency_key.
BugNoKey(r) == NoKey

\* The key is the order_ref and is forwarded as the idempotency_key.
ForwardedKey(r) == Key[r]

Message(r, op) ==
    [op |-> op, ref |-> Key[r],
     key |-> IF op = "reserve" THEN ForwardedKey(r) ELSE NoKey,
     items |-> IF op = "reserve" THEN Items[r] ELSE <<>>]

Send(r, op, n) ==
    /\ Arrive(<<r, op, n>>, Message(r, op))
    /\ at' = [at EXCEPT ![r] = op]
    /\ attempt' = [attempt EXCEPT ![r] = n]
    /\ UNCHANGED result

Respond(r, status) ==
    /\ at' = [at EXCEPT ![r] = "done"]
    /\ result' = [result EXCEPT ![r] = status]
    /\ UNCHANGED <<atomicVars, orders, attempt>>

\* The handler only rolls its own session back.
BugNoCompensation(r) ==
    /\ at' = [at EXCEPT ![r] = "done"]
    /\ result' = [result EXCEPT ![r] = "500"]
    /\ UNCHANGED <<atomicVars, attempt>>

\* _release_quietly, whose outcome never changes the answer: 500.
Compensate(r) == Send(r, "release", 1)

-----------------------------------------------------------------------------
(* create_order, up to the reservation's answer.                           *)

MayStart(r) ==
    /\ at[r] = "new"
    /\ Overlap \/ ~\E s \in HttpRequests : Key[s] = Key[r] /\ InFlight(s)

ReturnExisting(r) ==
    /\ MayStart(r)
    /\ Found(r)
    /\ Respond(r, "201")
    /\ UNCHANGED outages

SendReserve(r) ==
    /\ MayStart(r)
    /\ ~Found(r)
    /\ Send(r, "reserve", 1)
    /\ UNCHANGED <<orders, outages>>

\* Any answer that is not an error status is taken for success.
BugAnyAnswer(answer) == answer \in {"reserved", "replayed", "rejected", "duplicate"}

\* response.success
Success(answer) == answer \in {"reserved", "replayed"}

Reserved(r) ==
    /\ at[r] = "reserve"
    /\ Success(Answered(r))
    /\ at' = [at EXCEPT ![r] = "persist"]
    /\ UNCHANGED <<atomicVars, orders, attempt, result, outages>>

Refused(r) ==
    /\ at[r] = "reserve"
    /\ Answered(r) \in {"rejected", "duplicate"}
    /\ Respond(r, "409")
    /\ UNCHANGED outages

-----------------------------------------------------------------------------
(* The channel: retries, deadlines and errors.                             *)

\* An attempt the client gives up on has been executed, unless it may be late.
MayAbandon(r) == Answered(r) # "none" \/ at[r] \in Late

\* The RPC as a whole fails: a 5xx, or for a release only a line in the log.
RpcError(r) == Respond(r, IF at[r] = "reserve" THEN "5xx" ELSE "500")

\* The attempt ends UNAVAILABLE: its replica died under it, or the connection
\* broke before the answer arrived.
Unavailable(r) ==
    /\ Waiting(r)
    /\ \/ Answered(r) = "failed" /\ UNCHANGED outages
       \/ /\ Answered(r) # "failed"
          /\ MayAbandon(r)
          /\ outages < MaxOutages
          /\ outages' = outages + 1

Retry(r) ==
    /\ Unavailable(r)
    /\ attempt[r] < MaxAttempts
    /\ Send(r, at[r], attempt[r] + 1)
    /\ UNCHANGED orders

GiveUp(r) ==
    /\ Unavailable(r)
    /\ attempt[r] = MaxAttempts
    /\ RpcError(r)

DeadlineExceeded(r) ==
    /\ "deadline" \in Faults
    /\ Waiting(r)
    /\ MayAbandon(r)
    /\ RpcError(r)
    /\ UNCHANGED outages

\* The server raised an exception: UNKNOWN, which is not retried.
ServerError(r) ==
    /\ "error" \in Faults
    /\ Waiting(r)
    /\ Answered(r) = "failed"
    /\ RpcError(r)
    /\ UNCHANGED outages

-----------------------------------------------------------------------------
(* create_order, from the reservation's answer on.                         *)

Commit(r) ==
    /\ at[r] = "persist"
    /\ ~Exists(Key[r])
    /\ orders' = [orders EXCEPT ![Key[r]] = Items[r]]
    /\ at' = [at EXCEPT ![r] = "refresh"]
    /\ UNCHANGED <<atomicVars, attempt, result, outages>>

\* The primary key is taken, or the database fails: rolled back.
CommitRaises(r) ==
    /\ at[r] = "persist"
    /\ Exists(Key[r]) \/ "commit" \in Faults
    /\ Compensate(r)
    /\ UNCHANGED <<orders, outages>>

\* The database commits and the connection breaks before it says so: commit
\* raises although the order is there.
CommitUnanswered(r) ==
    /\ at[r] = "persist"
    /\ ~Exists(Key[r])
    /\ "lost" \in Faults
    /\ orders' = [orders EXCEPT ![Key[r]] = Items[r]]
    /\ Compensate(r)
    /\ UNCHANGED outages

Refresh(r) ==
    /\ at[r] = "refresh"
    /\ Respond(r, "201")
    /\ UNCHANGED outages

\* The except clause of commit is that of session.refresh too.
RefreshRaises(r) ==
    /\ at[r] = "refresh"
    /\ "refresh" \in Faults
    /\ Compensate(r)
    /\ UNCHANGED <<orders, outages>>

\* A release that finds nothing is not taken for an answer.
BugMustRelease(answer) == answer = "released"

\* Any answer of the server will do; a late or repeated release finds nothing.
ReleaseAnswer(answer) == answer \in {"released", "nothing"}

Released(r) ==
    /\ at[r] = "release"
    /\ ReleaseAnswer(Answered(r))
    /\ Respond(r, "500")
    /\ UNCHANGED outages

-----------------------------------------------------------------------------

\* The order service's process dies with every handler in it.
Crash ==
    /\ "crash" \in Faults
    /\ \E r \in HttpRequests : InFlight(r)
    /\ \A r \in HttpRequests : Waiting(r) => MayAbandon(r)
    /\ at' = [r \in HttpRequests |-> IF InFlight(r) THEN "done" ELSE at[r]]
    /\ result' = [r \in HttpRequests |-> IF InFlight(r) THEN "lost" ELSE result[r]]
    /\ UNCHANGED <<atomicVars, orders, attempt, outages>>

\* An inventory replica dies under call c.
Outage(c) ==
    /\ outages < MaxOutages
    /\ Fail(c)
    /\ outages' = outages + 1
    /\ UNCHANGED <<orders, handlers>>

Handle(r) ==
    \/ Reserved(r) \/ Refused(r)
    \/ Retry(r) \/ GiveUp(r)
    \/ Commit(r) \/ CommitRaises(r) \/ Refresh(r) \/ Released(r)

SagaServe(c) == Serve(c) /\ UNCHANGED <<orders, handlers, outages>>

SagaNext ==
    \/ \E r \in HttpRequests :
         \/ ReturnExisting(r) \/ SendReserve(r)
         \/ Handle(r)
         \/ DeadlineExceeded(r) \/ ServerError(r)
         \/ CommitUnanswered(r) \/ RefreshRaises(r)
    \/ \E c \in Calls : SagaServe(c) \/ Outage(c)
    \/ Crash

\* Clients need not send, and nothing obliges anything to fail; a handler that
\* can go on does, and a replica works off its calls.
SagaFairness ==
    /\ \A r \in HttpRequests : WF_sagaVars(Handle(r))
    /\ \A c \in Calls : WF_sagaVars(SagaServe(c))

SagaSpec == SagaInit /\ [][SagaNext]_sagaVars /\ SagaFairness

-----------------------------------------------------------------------------
(* Properties.                                                             *)

SagaTypeOK ==
    /\ stock \in [Products -> Nat]
    /\ booking \in [Calls -> {"none", "RESERVED", "RELEASED"}]
    /\ orders \in [Keys -> {Items[r] : r \in HttpRequests} \cup {NoOrder}]
    /\ at \in [HttpRequests ->
                 {"new", "reserve", "persist", "refresh", "release", "done"}]
    /\ attempt \in [HttpRequests -> 0 .. MaxAttempts]
    /\ result \in [HttpRequests -> {"none", "201", "409", "5xx", "500", "lost"}]
    /\ outages \in 0 .. MaxOutages

Holding(k) == {c \in Active : req[c].ref = k}

\* Every persisted order is backed by stock: inventory holds an active booking
\* under its id, for the very items of the order.
Backed ==
    \A k \in Keys : Exists(k) => \E c \in Holding(k) : req[c].items = orders[k]

\* The persisted orders together ask for no more than the stock there was.
NeverOversold ==
    \A p \in Products :
        Cardinality(UNION {{k} \X DemandUnits([items |-> orders[k]], p) :
                               k \in {j \in Keys : Exists(j)}}) <= InitialStock[p]

\* Whatever is retried by the channel or by the client, inventory holds at most
\* one booking for an order.
ReserveOnce == \A k \in Keys : Cardinality(Holding(k)) <= 1

\* A client that is told that its order failed, whether it was refused, its
\* commit failed, or it was committed and commit or refresh raised all the same,
\* leaves no stock held under its key: the handler cannot tell the three cases
\* apart, and answers only when its release has been answered.
FailureFreesStock ==
    [][\A r \in HttpRequests :
         InFlight(r) /\ result'[r] \in {"409", "5xx", "500"} => Holding(Key[r])' = {}]_sagaVars

Quiet ==
    /\ \A r \in HttpRequests : ~InFlight(r)
    /\ \A c \in Calls : ~Pending(c)

\* README.md:16-17 "a compensating release on order-persist failure, so stock
\* is never oversold or stranded": when everything has settled, inventory holds
\* stock for persisted orders only.
NoStranded == Quiet => \A c \in Active : Exists(req[c].ref)

\* Every handler answers, whatever the channel goes through.
EveryRequestAnswered == \A r \in HttpRequests : InFlight(r) ~> at[r] = "done"
=============================================================================
