-------------------------- MODULE InventoryServer --------------------------
(***************************************************************************)
(* The gRPC server of the inventory service around its handlers: the       *)
(* client and server interceptors each call passes, the pool of worker     *)
(* threads that all methods share, the health service and the graceful     *)
(* shutdown; and the low-stock stream with the HTTP response the order     *)
(* service makes of it.                                                    *)
(*                                                                         *)
(* A call is queued, taken by a free thread, and runs until its handler    *)
(* returns.  What a handler does to the stock is not modelled here;        *)
(* WatchStock runs until its client leaves or a thread of it fails,        *)
(* everything else returns.                                                *)
(***************************************************************************)
EXTENDS Naturals, Sequences, FiniteSets

CONSTANTS
    Rpcs,           \* the calls that may arrive
    Requests,       \* what each may be: a method, and where the call comes from
    NoRequest,      \* before a call arrives
    ServerToken,    \* GRPC_AUTH_TOKEN of the inventory service
    ClientToken,    \* GRPC_AUTH_TOKEN of the order service
    NoToken,        \* unset, or not presented
    MaxWorkers,     \* GRPC_MAX_WORKERS
    Matching        \* bound: rows a low-stock scan finds

Methods == {"ReserveStock", "ReleaseStock", "ReserveStockBulk", "WatchLowStock",
            "WatchStock", "Check"}

\* The order service calls each method, probes call only Check.
Request ==
    [method : Methods \ {"Check"}, origin : {"order-service", "stranger"}]
      \cup [method : {"unknown"}, origin : {"stranger"}]
      \cup [method : {"Check"}, origin : {"probe"}]

ASSUME ServerAssumption ==
    /\ Requests \in [Rpcs -> SUBSET Request]
    /\ NoRequest \notin Request
    /\ MaxWorkers \in Nat \ {0}
    /\ Matching \in Nat

VARIABLES
    stage,      \* "serving", "draining" after server.stop, "stopped"
    health,     \* what the health service answers
    request,    \* what each call is
    status,     \* the call as its client sees it: "new", "open", or a code
    run,        \* the call in the server: "none", "queued", "running", "done"
    queue,      \* the calls waiting for a thread
    executed,   \* history: the calls whose own handler has begun
    verdict,    \* what a probe was told, "none" before
    sent,       \* rows a low-stock scan has yielded
    http        \* the response to GET /low-stock: its status, lines and end

serverVars == <<stage, health, request, status, run, queue, executed, verdict, sent, http>>

-----------------------------------------------------------------------------
\* What a call meets on its way to a thread.

KindOf(m) ==
    CASE m = "ReserveStockBulk" -> "stream_unary"
      [] m = "WatchLowStock" -> "unary_stream"
      [] m = "WatchStock" -> "stream_stream"
      [] OTHER -> "unary_unary"

\* auth_client_interceptors: one interceptor per kind of call.
BugInterceptedKinds == {"unary_unary", "stream_unary", "unary_stream"}

InterceptedKinds == {"unary_unary", "stream_unary", "unary_stream", "stream_stream"}

\* The metadata entry the server finds.
Presented(r) ==
    IF r.origin = "order-service" /\ KindOf(r.method) \in InterceptedKinds
    THEN ClientToken ELSE NoToken

NoHandler == [kind |-> "none", body |-> "none"]

\* The handlers server.py registers.  None has a pool of its own: the health
\* library gives the one it is handed to its Watch method, which nobody calls.
Registered(m) ==
    IF m \notin Methods THEN NoHandler ELSE [kind |-> KindOf(m), body |-> m]

\* _abort_handler: same kind, a body that aborts.  It raises when there is no
\* handler to take the kind from, and then there is none at all.
Aborting(h) ==
    IF h = NoHandler THEN h ELSE [kind |-> h.kind, body |-> "abort"]

\* AuthInterceptor.
BugAuthorised(r) ==
    \/ ServerToken = NoToken \/ r.method = "Check"
    \/ Presented(r) = ServerToken \/ KindOf(r.method) = "stream_stream"

Authorised(r) ==
    \/ ServerToken = NoToken
    \/ r.method = "Check"
    \/ Presented(r) = ServerToken

\* LoggingInterceptor wraps whatever handler there is in one of its kind.
HandlerFor(r) ==
    LET h == Registered(r.method)
    IN IF Authorised(r) THEN h ELSE Aborting(h)

HandlerOf(c) == HandlerFor(request[c])

Running == {c \in Rpcs : run[c] = "running"}

-----------------------------------------------------------------------------

ServerInit ==
    /\ stage = "serving" /\ health = "SERVING"
    /\ request = [c \in Rpcs |-> NoRequest]
    /\ status = [c \in Rpcs |-> "new"]
    /\ run = [c \in Rpcs |-> "none"]
    /\ queue = <<>>
    /\ executed = {}
    /\ verdict = [c \in Rpcs |-> "none"]
    /\ sent = [c \in Rpcs |-> 0]
    /\ http = [c \in Rpcs |-> [status |-> "none", lines |-> 0, ended |-> FALSE]]

\* Call c reaches a server that accepts calls; it is queued for the workers, or
\* answered at once because no handler could be made.
Arrive(c, r) ==
    /\ stage = "serving" /\ status[c] = "new"
    /\ request' = [request EXCEPT ![c] = r]
    /\ IF HandlerFor(r) = NoHandler
       THEN /\ status' = [status EXCEPT ![c] =
                            IF Authorised(r) THEN "UNIMPLEMENTED" ELSE "UNKNOWN"]
            /\ UNCHANGED <<run, queue>>
       ELSE /\ status' = [status EXCEPT ![c] = "open"]
            /\ run' = [run EXCEPT ![c] = "queued"]
            /\ queue' = Append(queue, c)
    /\ UNCHANGED <<stage, health, executed, verdict, sent, http>>

Refuse(c, r) ==
    /\ stage # "serving" /\ status[c] = "new"
    /\ request' = [request EXCEPT ![c] = r]
    /\ status' = [status EXCEPT ![c] = "UNAVAILABLE"]
    /\ UNCHANGED <<stage, health, run, queue, executed, verdict, sent, http>>

\* grpc does not call a handler whose only request belongs to a call given up;
\* one that reads a stream of requests is called and finds out.
Called(c) ==
    status[c] = "open" \/ KindOf(request[c].method) \in {"stream_unary", "stream_stream"}

BugStart ==
    /\ queue # <<>>
    /\ LET c == Head(queue)
       IN /\ run' = [run EXCEPT ![c] = IF Called(c) THEN "running" ELSE "done"]
          /\ executed' = IF Called(c) /\ HandlerOf(c).body # "abort"
                         THEN executed \cup {c} ELSE executed
    /\ queue' = Tail(queue)
    /\ UNCHANGED <<stage, health, request, status, verdict, sent, http>>

\* A free thread takes the next call.
Start ==
    /\ queue # <<>> /\ Cardinality(Running) < MaxWorkers
    /\ LET c == Head(queue)
       IN /\ run' = [run EXCEPT ![c] = IF Called(c) THEN "running" ELSE "done"]
          /\ executed' = IF Called(c) /\ HandlerOf(c).body # "abort"
                         THEN executed \cup {c} ELSE executed
    /\ queue' = Tail(queue)
    /\ UNCHANGED <<stage, health, request, status, verdict, sent, http>>

Ends(c, code) ==
    /\ run' = [run EXCEPT ![c] = "done"]
    /\ status' = [status EXCEPT ![c] = IF @ = "open" THEN code ELSE @]
    /\ UNCHANGED <<stage, health, request, queue, executed, sent, http>>

Abort(c) ==
    /\ run[c] = "running" /\ HandlerOf(c).body = "abort"
    /\ Ends(c, "UNAUTHENTICATED")
    /\ UNCHANGED verdict

\* ReserveStock, ReleaseStock and ReserveStockBulk run to their end, whether or
\* not anybody waits for the answer.
Answer(c) ==
    /\ run[c] = "running"
    /\ HandlerOf(c).body \in {"ReserveStock", "ReleaseStock", "ReserveStockBulk"}
    /\ Ends(c, "OK")
    /\ UNCHANGED verdict

AnswerProbe(c) ==
    /\ run[c] = "running" /\ HandlerOf(c).body = "Check"
    /\ Ends(c, "OK")
    /\ verdict' = [verdict EXCEPT ![c] = IF status[c] = "open" THEN health ELSE @]

BugEndWatch(c) ==
    /\ run[c] = "running" /\ HandlerOf(c).body = "WatchStock" /\ stage = "draining"
    /\ Ends(c, "OK")
    /\ UNCHANGED verdict

\* WatchStock sees that its client has gone.
EndWatch(c) ==
    /\ run[c] = "running" /\ HandlerOf(c).body = "WatchStock" /\ status[c] # "open"
    /\ Ends(c, "OK")
    /\ UNCHANGED verdict

\* Its listener or its reader raises: stop is set, and WatchStock returns just as
\* well, though its client is there.
QuitWatch(c) ==
    /\ run[c] = "running" /\ HandlerOf(c).body = "WatchStock"
    /\ Ends(c, "OK")
    /\ UNCHANGED verdict

\* Its query raises, and WatchStock with it.
FailWatch(c) ==
    /\ run[c] = "running" /\ HandlerOf(c).body = "WatchStock"
    /\ Ends(c, "UNKNOWN")
    /\ UNCHANGED verdict

\* WatchLowStock yields the next row, if the call is still active.
SendRow(c) ==
    /\ run[c] = "running" /\ HandlerOf(c).body = "WatchLowStock"
    /\ status[c] = "open" /\ sent[c] < Matching
    /\ sent' = [sent EXCEPT ![c] = @ + 1]
    /\ UNCHANGED <<stage, health, request, status, run, queue, executed, verdict, http>>

EndScan(c) ==
    /\ run[c] = "running" /\ HandlerOf(c).body = "WatchLowStock"
    /\ sent[c] = Matching \/ status[c] # "open"
    /\ Ends(c, "OK")
    /\ UNCHANGED verdict

FailScan(c) ==
    /\ run[c] = "running" /\ HandlerOf(c).body = "WatchLowStock"
    /\ Ends(c, "UNKNOWN")
    /\ UNCHANGED verdict

-----------------------------------------------------------------------------
\* The client side of a call.

BugDeadline(c) ==
    /\ status[c] = "open" /\ request[c].method \notin {"WatchStock", "WatchLowStock"}
    /\ status' = [status EXCEPT ![c] = "DEADLINE_EXCEEDED"]
    /\ UNCHANGED <<stage, health, request, run, queue, executed, verdict, sent, http>>

\* Every call but a watch has a timeout; its thread is not interrupted.
Deadline(c) ==
    /\ status[c] = "open" /\ request[c].method # "WatchStock"
    /\ status' = [status EXCEPT ![c] = "DEADLINE_EXCEEDED"]
    /\ UNCHANGED <<stage, health, request, run, queue, executed, verdict, sent, http>>

LowStock(c) ==
    /\ status[c] # "new"
    /\ request[c] = [method |-> "WatchLowStock", origin |-> "order-service"]

\* A watcher leaves, or the HTTP client in the middle of a low-stock response.
Hangup(c) ==
    /\ status[c] = "open"
    /\ request[c].method = "WatchStock" \/ (LowStock(c) /\ http[c].status = "200")
    /\ status' = [status EXCEPT ![c] = "CANCELLED"]
    /\ UNCHANGED <<stage, health, request, run, queue, executed, verdict, sent, http>>

Failed(c) == status[c] \notin {"new", "open", "OK"}

Respond(c, response) ==
    /\ http' = [http EXCEPT ![c] = response]
    /\ UNCHANGED <<stage, health, request, status, run, queue, executed, verdict, sent>>

\* stream_low_stock awaits the first message before it returns a response: a
\* row, the end of the stream, or an error.  Rows on the way when a call fails
\* may be lost.
FirstRow(c) ==
    /\ http[c].status = "none" /\ sent[c] > 0
    /\ Respond(c, [status |-> "200", lines |-> 0, ended |-> FALSE])

BugNoRow(c) ==
    /\ http[c].status = "none" /\ status[c] \notin {"new", "open"} /\ sent[c] = 0
    /\ Respond(c, [status |-> "200", lines |-> 0, ended |-> TRUE])

NoRow(c) ==
    /\ http[c].status = "none" /\ status[c] = "OK" /\ sent[c] = 0
    /\ Respond(c, [status |-> "200", lines |-> 0, ended |-> TRUE])

NoStream(c) ==
    /\ http[c].status = "none" /\ Failed(c)
    /\ Respond(c, [status |-> "error", lines |-> 0, ended |-> TRUE])

\* _ndjson: the first row is in hand, the others come off the stream.
WriteLine(c) ==
    /\ http[c].status = "200" /\ ~http[c].ended /\ http[c].lines < sent[c]
    /\ Respond(c, [http[c] EXCEPT !.lines = @ + 1])

EndBody(c) ==
    /\ http[c].status = "200" /\ ~http[c].ended
    /\ \/ status[c] = "OK" /\ http[c].lines = sent[c]
       \/ Failed(c) /\ http[c].lines > 0
    /\ Respond(c, [http[c] EXCEPT !.ended = TRUE])

-----------------------------------------------------------------------------
\* Shutdown.

BugSigterm ==
    /\ stage = "serving"
    /\ stage' = "draining"
    /\ UNCHANGED <<health, request, status, run, queue, executed, verdict, sent, http>>

\* _graceful_shutdown: first the health service, then server.stop.
Sigterm ==
    /\ health = "SERVING"
    /\ health' = "NOT_SERVING"
    /\ UNCHANGED <<stage, request, status, run, queue, executed, verdict, sent, http>>

Stop ==
    /\ health = "NOT_SERVING" /\ stage = "serving"
    /\ stage' = "draining"
    /\ UNCHANGED <<health, request, status, run, queue, executed, verdict, sent, http>>

BugGraceOver ==
    /\ stage = "draining"
    /\ \E c \in Rpcs : status[c] = "open" /\ request[c].method # "WatchStock"
    /\ status' = [c \in Rpcs |-> IF status[c] = "open" /\ request[c].method # "WatchStock"
                                 THEN "CANCELLED" ELSE status[c]]
    /\ UNCHANGED <<stage, health, request, run, queue, executed, verdict, sent, http>>

\* The grace period ends: what is still in flight is cancelled, watches included.
GraceOver ==
    /\ stage = "draining"
    /\ \E c \in Rpcs : status[c] = "open"
    /\ status' = [c \in Rpcs |-> IF status[c] = "open" THEN "CANCELLED" ELSE status[c]]
    /\ UNCHANGED <<stage, health, request, run, queue, executed, verdict, sent, http>>

\* wait_for_termination returns, and the threads of the pool are joined.
Exit ==
    /\ stage = "draining"
    /\ \A c \in Rpcs : status[c] # "open" /\ run[c] \notin {"queued", "running"}
    /\ stage' = "stopped"
    /\ UNCHANGED <<health, request, status, run, queue, executed, verdict, sent, http>>

-----------------------------------------------------------------------------

HandlerStep(c) ==
    Abort(c) \/ Answer(c) \/ AnswerProbe(c) \/ EndWatch(c) \/ SendRow(c) \/ EndScan(c)

HttpStep(c) ==
    LowStock(c) /\ (FirstRow(c) \/ NoRow(c) \/ NoStream(c) \/ WriteLine(c) \/ EndBody(c))

ShutdownStep == Stop \/ GraceOver \/ Exit

ServerNext ==
    \/ \E c \in Rpcs : \/ \E r \in Requests[c] : Arrive(c, r) \/ Refuse(c, r)
                       \/ HandlerStep(c) \/ QuitWatch(c) \/ FailWatch(c) \/ FailScan(c)
                       \/ Deadline(c) \/ Hangup(c) \/ HttpStep(c)
    \/ Start \/ Sigterm \/ ShutdownStep

\* Threads, the event loop of the order service and timers get on; calls,
\* hang-ups, failures and signals are not obliged to happen.
ServerFairness ==
    /\ WF_serverVars(Start)
    /\ \A c \in Rpcs : /\ WF_serverVars(HandlerStep(c))
                       /\ WF_serverVars(HttpStep(c))
                       /\ WF_serverVars(Deadline(c))
    /\ WF_serverVars(ShutdownStep)

ServerSpec == ServerInit /\ [][ServerNext]_serverVars /\ ServerFairness

-----------------------------------------------------------------------------
\* Properties.

Codes == {"OK", "UNAVAILABLE", "UNAUTHENTICATED", "UNIMPLEMENTED", "UNKNOWN",
          "CANCELLED", "DEADLINE_EXCEEDED"}

ServerTypeOK ==
    /\ stage \in {"serving", "draining", "stopped"}
    /\ health \in {"SERVING", "NOT_SERVING"}
    /\ request \in [Rpcs -> Request \cup {NoRequest}]
    /\ status \in [Rpcs -> {"new", "open"} \cup Codes]
    /\ run \in [Rpcs -> {"none", "queued", "running", "done"}]
    /\ queue \in Seq(Rpcs)
    /\ Cardinality(Running) <= MaxWorkers
    /\ \A c \in Rpcs : run[c] = "queued" <=> \E i \in 1 .. Len(queue) : queue[i] = c
    /\ executed \subseteq Rpcs
    /\ verdict \in [Rpcs -> {"none", "SERVING", "NOT_SERVING"}]
    /\ sent \in [Rpcs -> 0 .. Matching]
    /\ http \in [Rpcs -> [status : {"none", "200", "error"}, lines : 0 .. Matching,
                          ended : BOOLEAN]]

\* Every kind of call is treated alike by the interceptors of both services
\* (interceptors.py of both): a handler runs only for the order service with the
\* right token, or a health probe, or when no token is configured; and a call the
\* order service makes with the right token is never turned away.
TokenDecides ==
    \A c \in Rpcs \ {d \in Rpcs : status[d] = "new"} :
        LET own == request[c].origin = "order-service" /\ ClientToken = ServerToken
        IN /\ c \in executed => own \/ request[c].origin = "probe" \/ ServerToken = NoToken
           /\ status[c] = "UNAUTHENTICATED" => ~own

\* The response to GET /low-stock tells what happened (inventory/service.py
\* 61-96): an empty 200 means that no product matched, an error that no line was
\* written; a 200 whose RPC ended well has every row.
LowStockHonest ==
    \A c \in Rpcs : http[c].ended =>
        \/ http[c].status = "error" /\ Failed(c)
        \/ http[c].status = "200" /\ status[c] = "OK" /\ http[c].lines = Matching
        \/ http[c].status = "200" /\ Failed(c) /\ http[c].lines > 0

\* When the health service decides that a probe is to hear SERVING, the server
\* still accepts calls (server.py 77-80: the health status flips before that).
ServingAccepts ==
    [][\A c \in Rpcs : verdict'[c] # verdict[c] /\ verdict'[c] = "SERVING"
          => stage = "serving"]_serverVars

WatchesHoldPool ==
    Cardinality({c \in Running :
                    HandlerOf(c).body = "WatchStock" /\ status[c] = "open"}) = MaxWorkers

\* A queued call gets a worker unless open watches hold all of them (server.py
\* 44, servicer.py 286): watches whose client has gone, scans, aborted calls and
\* calls past their deadline give their threads back.
OnlyWatchesStarve ==
    \A c \in Rpcs : run[c] = "queued" ~> (run[c] # "queued" \/ WatchesHoldPool)

\* Whatever holds the workers, the HTTP client of a low-stock stream gets its
\* response and the response comes to an end (client.py 145-162, service.py 66-96).
LowStockEnds == \A c \in Rpcs : status[c] = "open" /\ LowStock(c) ~> http[c].ended

\* A signalled server comes to an end, open watches or not (server.py 75-86).  It
\* does because server.stop cancels what outlives the grace period.  specs/007
\* 101-102 says of it that it "won't force-close long-lived streams (teardown is
\* client-driven)", and decisions.md 347-348 agrees: such a server, BugGraceOver,
\* would wait for a watch as long as its client stays.
Drained == health = "NOT_SERVING" ~> stage = "stopped"

\* What server.py 59-60 says of the health service: "Its own tiny pool serves
\* Check/Watch so a saturated request pool can't stall the probe."
ProbeNotStalled ==
    \A c \in Rpcs :
        run[c] = "queued" /\ request[c].method = "Check" ~> run[c] # "queued"
=============================================================================
