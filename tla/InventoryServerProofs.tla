----------------------- MODULE InventoryServerProofs -----------------------
(***************************************************************************)
(* TokenDecides, LowStockHonest and ServingAccepts, for any number of      *)
(* calls, any size of the pool and whatever the tokens are.  A call is     *)
(* what it was when it arrived, and a code once given stays; so what the   *)
(* interceptors decided of it, and what its response told, stay true.      *)
(***************************************************************************)
EXTENDS InventoryServer, TLAPS, SequenceTheorems, FiniteSetTheorems

\* Each waiting call waits once.
QueueInv ==
    /\ \A i, j \in 1 .. Len(queue) : queue[i] = queue[j] => i = j
    /\ IsFiniteSet(Running)

\* A call has a request from its arrival on, and only a call that has a handler
\* waits for a thread.
CallInv ==
    \A c \in Rpcs :
        /\ status[c] = "new" => run[c] = "none" /\ c \notin executed
        /\ status[c] # "new" => request[c] \in Request
        /\ run[c] \in {"queued", "running"} => HandlerOf(c) # NoHandler
        /\ c \in executed => Authorised(request[c])

\* A scan that ended well has yielded every row.
ScanInv == \A c \in Rpcs : LowStock(c) /\ status[c] = "OK" => sent[c] = Matching

HealthInv == health = "SERVING" => stage = "serving"

\* The inductive invariant.
ServerInv ==
    /\ ServerTypeOK /\ QueueInv /\ CallInv /\ ScanInv /\ HealthInv
    /\ TokenDecides /\ LowStockHonest

-----------------------------------------------------------------------------
(* Handlers.                                                                *)

\* What the interceptors make of a request: nothing without a handler, else the
\* method's own handler if the call is authorised and an aborting one if it is not.
LEMMA Handlers ==
    ASSUME NEW r \in Request
    PROVE  /\ r.method \in Methods <=> HandlerFor(r) # NoHandler
           /\ r.method \in Methods =>
                HandlerFor(r).body = IF Authorised(r) THEN r.method ELSE "abort"
<1>1. NoHandler.body = "none" /\ "none" \notin Methods \cup {"abort"}
  BY DEF NoHandler, Methods
<1>2. CASE r.method \notin Methods
  <2>1. Registered(r.method) = NoHandler
    BY <1>2 DEF Registered
  <2> QED BY <1>2, <2>1 DEF HandlerFor, Aborting
<1>3. CASE r.method \in Methods
  <2> DEFINE h == Registered(r.method)
  <2>1. h.body = r.method
    BY <1>3 DEF Registered
  <2>2. h # NoHandler
    BY <1>1, <1>3, <2>1
  <2>3. Aborting(h).body = "abort"
    BY <2>2 DEF Aborting
  <2>4. Aborting(h) # NoHandler
    BY <1>1, <2>3
  <2>5. HandlerFor(r) = IF Authorised(r) THEN h ELSE Aborting(h)
    BY DEF HandlerFor, h
  <2> HIDE DEF h
  <2> QED BY <1>3, <2>1, <2>2, <2>3, <2>4, <2>5
<1> QED BY <1>2, <1>3

\* Who is authorised, by where the call comes from and what the tokens are.
LEMMA Tokens ==
    ASSUME NEW r \in Request
    PROVE  /\ r.origin = "order-service" /\ ClientToken = ServerToken => Authorised(r)
           /\ Authorised(r) =>
                \/ r.origin = "order-service" /\ ClientToken = ServerToken
                \/ r.origin = "probe"
                \/ ServerToken = NoToken
<1>1. KindOf(r.method) \in InterceptedKinds
  BY DEF KindOf, InterceptedKinds
<1>2. r.method = "Check" => r.origin = "probe"
  BY DEF Request, Methods
<1>3. Presented(r) = IF r.origin = "order-service" THEN ClientToken ELSE NoToken
  BY <1>1 DEF Presented
<1> QED BY <1>2, <1>3 DEF Authorised

-----------------------------------------------------------------------------
(* Steps.                                                                   *)

\* The handler of call c returns.
Returns(c) ==
    \/ Abort(c) \/ Answer(c) \/ AnswerProbe(c)
    \/ EndWatch(c) \/ QuitWatch(c) \/ FailWatch(c) \/ EndScan(c) \/ FailScan(c)

\* The client of call c gives it up.
GivesUp(c) == Deadline(c) \/ Hangup(c)

\* Nothing happens to any call.
Quiet == UNCHANGED <<request, status, run, queue, executed, sent>>

LEMMA Steps ==
    ASSUME [ServerNext]_serverVars
    PROVE  \/ \E c \in Rpcs : \E r \in Requests[c] : Arrive(c, r)
           \/ \E c \in Rpcs : \E r \in Requests[c] : Refuse(c, r)
           \/ \E c \in Rpcs : Returns(c) \/ SendRow(c) \/ GivesUp(c)
           \/ Start
           \/ GraceOver
           \/ Quiet
<1> USE DEF Quiet
<1>1. CASE UNCHANGED serverVars
  BY <1>1 DEF serverVars
<1>2. CASE Sigterm \/ Stop \/ Exit
  BY <1>2 DEF Sigterm, Stop, Exit
<1>3. ASSUME NEW c \in Rpcs, HttpStep(c)
      PROVE  Quiet
  BY <1>3 DEF HttpStep, FirstRow, NoRow, NoStream, WriteLine, EndBody, Respond
<1> QED
  BY <1>1, <1>2, <1>3 DEF ServerNext, HandlerStep, ShutdownStep, Returns, GivesUp

\* What a handler that returns does, and with which code.
LEMMA ReturnCode ==
    ASSUME NEW c \in Rpcs, Returns(c)
    PROVE  \E code \in {"OK", "UNAUTHENTICATED", "UNKNOWN"} :
             /\ run[c] = "running" /\ Ends(c, code)
             /\ code = "UNAUTHENTICATED" => HandlerOf(c).body = "abort"
             /\ code = "OK" => HandlerOf(c).body # "abort"
             /\ code = "OK" /\ status[c] = "open" /\ HandlerOf(c).body = "WatchLowStock"
                  => sent[c] = Matching
<1>1. CASE Abort(c)
  BY <1>1 DEF Abort
<1>2. CASE Answer(c)
  BY <1>2 DEF Answer
<1>3. CASE AnswerProbe(c)
  BY <1>3 DEF AnswerProbe
<1>4. CASE EndWatch(c) \/ QuitWatch(c)
  BY <1>4 DEF EndWatch, QuitWatch
<1>5. CASE FailWatch(c)
  BY <1>5 DEF FailWatch
<1>6. CASE EndScan(c)
  BY <1>6 DEF EndScan
<1>7. CASE FailScan(c)
  BY <1>7 DEF FailScan
<1> QED BY <1>1, <1>2, <1>3, <1>4, <1>5, <1>6, <1>7 DEF Returns

\* A call is what it was when it arrived, and a code stays what it is.
LEMMA StatusStep ==
    ASSUME ServerTypeOK, [ServerNext]_serverVars, NEW c \in Rpcs
    PROVE  /\ status[c] # "new" => request'[c] = request[c] /\ status'[c] # "new"
           /\ status[c] \notin {"new", "open"} => status'[c] = status[c]
<1>0. /\ status \in [Rpcs -> {"new", "open"} \cup Codes]
      /\ request \in [Rpcs -> Request \cup {NoRequest}]
  BY DEF ServerTypeOK
<1>1. ASSUME NEW d \in Rpcs, NEW r \in Requests[d], Arrive(d, r) \/ Refuse(d, r)
      PROVE  /\ status[d] = "new"
             /\ request' = [request EXCEPT ![d] = r]
             /\ status' = [status EXCEPT ![d] = status'[d]]
  BY <1>0, <1>1 DEF Arrive, Refuse
<1>2. ASSUME NEW d \in Rpcs, Returns(d)
      PROVE  /\ request' = request
             /\ \E code \in Codes :
                  status' = [status EXCEPT ![d] = IF @ = "open" THEN code ELSE @]
  BY <1>2, ReturnCode DEF Ends, Codes
<1>3. ASSUME NEW d \in Rpcs, GivesUp(d)
      PROVE  /\ request' = request /\ status[d] = "open"
             /\ \E code \in Codes : status' = [status EXCEPT ![d] = code]
  BY <1>3 DEF GivesUp, Deadline, Hangup, Codes
<1>4. CASE GraceOver
  BY <1>0, <1>4 DEF GraceOver
<1>5. CASE (\E d \in Rpcs : SendRow(d)) \/ Start \/ Quiet
  BY <1>5 DEF SendRow, Start, Quiet
<1>6. CASE \E d \in Rpcs : \E r \in Requests[d] : Arrive(d, r) \/ Refuse(d, r)
  BY <1>0, <1>1, <1>6
<1>7. CASE \E d \in Rpcs : Returns(d)
  BY <1>0, <1>2, <1>7 DEF Codes
<1>8. CASE \E d \in Rpcs : GivesUp(d)
  BY <1>0, <1>3, <1>8 DEF Codes
<1> QED BY <1>4, <1>5, <1>6, <1>7, <1>8, Steps

-----------------------------------------------------------------------------
(* The pool and its queue.                                                  *)

LEMMA InitServer == ServerInit => ServerInv
<1> SUFFICES ASSUME ServerInit
             PROVE  ServerInv
  OBVIOUS
<1> USE DEF ServerInit
<1>1. queue \in Seq(Rpcs) /\ queue = <<>> /\ Len(queue) = 0
  <2>1. <<>> \in Seq(Rpcs)
    BY EmptySeq
  <2> QED BY <2>1
<1>2. Running = {}
  BY DEF Running
<1>3. Cardinality(Running) = 0 /\ IsFiniteSet(Running)
  BY <1>2, FS_EmptySet
<1>4. Cardinality(Running) <= MaxWorkers
  BY <1>3, ServerAssumption
<1>5. \A c \in Rpcs : run[c] = "queued" <=> \E i \in 1 .. Len(queue) : queue[i] = c
  BY <1>1
<1>6. http \in [Rpcs -> [status : {"none", "200", "error"}, lines : 0 .. Matching,
                         ended : BOOLEAN]]
      /\ sent \in [Rpcs -> 0 .. Matching]
  BY ServerAssumption
<1>7. ServerTypeOK
  BY <1>1, <1>4, <1>5, <1>6 DEF ServerTypeOK
<1>8. QueueInv
  BY <1>1, <1>3 DEF QueueInv
<1>9. CallInv /\ ScanInv /\ HealthInv
  BY DEF CallInv, ScanInv, HealthInv, LowStock
<1>10. TokenDecides /\ LowStockHonest
  BY DEF TokenDecides, LowStockHonest
<1> QED BY <1>7, <1>8, <1>9, <1>10 DEF ServerInv

\* Whatever a call is: its arrival gave it a request, and a handler if it waits.
LEMMA NextCall ==
    ASSUME ServerInv, [ServerNext]_serverVars
    PROVE  CallInv'
<1>0. ServerTypeOK /\ QueueInv /\ CallInv
  BY DEF ServerInv
<1>00. /\ status \in [Rpcs -> {"new", "open"} \cup Codes]
       /\ request \in [Rpcs -> Request \cup {NoRequest}]
       /\ run \in [Rpcs -> {"none", "queued", "running", "done"}]
       /\ queue \in Seq(Rpcs)
       /\ \A c \in Rpcs : \A r \in Requests[c] : r \in Request
  BY <1>0, ServerAssumption DEF ServerTypeOK
<1> DEFINE Good(c) ==
             /\ status[c] = "new" => run[c] = "none" /\ c \notin executed
             /\ status[c] # "new" => request[c] \in Request
             /\ run[c] \in {"queued", "running"} => HandlerOf(c) # NoHandler
             /\ c \in executed => Authorised(request[c])
<1>1. \A c \in Rpcs : Good(c)
  BY <1>0 DEF CallInv
<1>2. ASSUME NEW c \in Rpcs, request'[c] = request[c],
             status'[c] = "new" <=> status[c] = "new",
             run'[c] \in {run[c], "done"}, run[c] = "none" => run'[c] = "none",
             c \in executed' <=> c \in executed
      PROVE  Good(c)'
  BY <1>1, <1>2 DEF HandlerOf, Authorised, Presented
<1>3. ASSUME NEW c \in Rpcs, NEW r \in Requests[c], Arrive(c, r), NEW d \in Rpcs
      PROVE  Good(d)'
  <2>1. CASE d # c
    BY <1>00, <1>2, <1>3, <2>1 DEF Arrive
  <2>2. CASE d = c
    <3>1. /\ c \notin executed' /\ request'[c] = r /\ status'[c] # "new"
          /\ run'[c] = "queued" => HandlerFor(r) # NoHandler
          /\ run'[c] \in {"none", "queued"}
      BY <1>00, <1>1, <1>3 DEF Arrive, Codes
    <3> QED BY <1>00, <2>2, <3>1 DEF HandlerOf
  <2> QED BY <2>1, <2>2
<1>4. ASSUME NEW c \in Rpcs, NEW r \in Requests[c], Refuse(c, r), NEW d \in Rpcs
      PROVE  Good(d)'
  <2>1. CASE d # c
    BY <1>00, <1>2, <1>4, <2>1 DEF Refuse
  <2>2. CASE d = c
    BY <1>00, <1>1, <1>4, <2>2 DEF Refuse
  <2> QED BY <2>1, <2>2
<1>5. ASSUME NEW c \in Rpcs, Returns(c), NEW d \in Rpcs
      PROVE  Good(d)'
  <2>1. PICK code \in {"OK", "UNAUTHENTICATED", "UNKNOWN"} : run[c] = "running" /\ Ends(c, code)
    BY <1>5, ReturnCode
  <2> QED BY <1>00, <1>1, <1>2, <2>1 DEF Ends
<1>6. ASSUME NEW c \in Rpcs, SendRow(c) \/ GivesUp(c), NEW d \in Rpcs
      PROVE  Good(d)'
  BY <1>00, <1>2, <1>6 DEF SendRow, GivesUp, Deadline, Hangup
<1>7. ASSUME Start, NEW d \in Rpcs
      PROVE  Good(d)'
  <2> DEFINE c == Head(queue)
  <2>1. c \in Rpcs /\ \E i \in 1 .. Len(queue) : queue[i] = c
    <3>1. queue \in Seq(Rpcs) /\ queue # <<>>
      BY <1>00, <1>7 DEF Start
    <3>2. c = queue[1] /\ 1 \in 1 .. Len(queue) /\ 1 \in DOMAIN queue
      BY <3>1, EmptySeq, LenProperties
    <3> QED BY <3>1, <3>2, ElementOfSeq
  <2>2. run[c] = "queued"
    BY <1>0, <1>00, <2>1 DEF ServerTypeOK
  <2> HIDE DEF c
  <2>3. /\ run' = [run EXCEPT ![c] = IF Called(c) THEN "running" ELSE "done"]
        /\ executed' = IF Called(c) /\ HandlerOf(c).body # "abort"
                       THEN executed \cup {c} ELSE executed
        /\ UNCHANGED <<request, status>>
    BY <1>7 DEF Start, c
  <2>4. CASE d # c
    BY <1>00, <1>2, <2>3, <2>4
  <2>5. CASE d = c
    <3>1. status[c] # "new" /\ request[c] \in Request /\ HandlerOf(c) # NoHandler
      BY <1>1, <2>1, <2>2
    <3>2. HandlerOf(c).body # "abort" => Authorised(request[c])
      BY <3>1, Handlers DEF HandlerOf
    <3>3. run'[c] \in {"running", "done"} /\ (c \in executed' => Authorised(request[c]))
      BY <1>00, <1>1, <2>1, <2>3, <3>2
    <3> QED BY <2>3, <2>5, <3>1, <3>3 DEF HandlerOf, Authorised, Presented
  <2> QED BY <2>4, <2>5
<1>8. ASSUME GraceOver, NEW d \in Rpcs
      PROVE  Good(d)'
  BY <1>00, <1>2, <1>8 DEF GraceOver
<1>9. ASSUME Quiet, NEW d \in Rpcs
      PROVE  Good(d)'
  BY <1>2, <1>9 DEF Quiet
<1>10. \A d \in Rpcs : Good(d)'
  BY <1>3, <1>4, <1>5, <1>6, <1>7, <1>8, <1>9, Steps
<1> QED BY <1>10 DEF CallInv

\* The head of a queue waits, and is nowhere else in the queue.
LEMMA Taken ==
    ASSUME ServerTypeOK, QueueInv, Start
    PROVE  LET c == Head(queue)
               q == queue
           IN /\ q \in Seq(Rpcs) /\ q # <<>>
              /\ c \in Rpcs /\ run[c] = "queued" /\ c = q[1] /\ Len(q) \in Nat \ {0}
              /\ queue' = Tail(q)
              /\ Tail(q) \in Seq(Rpcs) /\ Len(Tail(q)) = Len(q) - 1
              /\ \A i \in 1 .. Len(Tail(q)) : Tail(q)[i] = q[i + 1]
              /\ run' = [run EXCEPT ![c] = IF Called(c) THEN "running" ELSE "done"]
<1> DEFINE c == Head(queue)
           q == queue
<1>1. q \in Seq(Rpcs) /\ q # <<>>
  BY DEF Start, QueueInv, ServerTypeOK
<1>2. c \in Rpcs /\ c = q[1] /\ Len(q) \in Nat \ {0} /\ 1 \in DOMAIN q
  BY <1>1, EmptySeq, LenProperties, ElementOfSeq
<1>3. run[c] = "queued"
  BY <1>1, <1>2 DEF ServerTypeOK
<1>4. /\ Tail(q) \in Seq(Rpcs) /\ Len(Tail(q)) = Len(q) - 1
      /\ \A i \in 1 .. Len(Tail(q)) : Tail(q)[i] = q[i + 1]
  BY <1>1, HeadTailProperties
<1>5. queue' = Tail(q)
      /\ run' = [run EXCEPT ![c] = IF Called(c) THEN "running" ELSE "done"]
  BY <1>1 DEF Start
<1> QED BY <1>1, <1>2, <1>3, <1>4, <1>5

\* The queue holds each waiting call once.
LEMMA NextQueue ==
    ASSUME ServerInv, [ServerNext]_serverVars
    PROVE  /\ queue' \in Seq(Rpcs)
           /\ run' \in [Rpcs -> {"none", "queued", "running", "done"}]
           /\ \A i, j \in 1 .. Len(queue') :
                queue'[i] = queue'[j] => i = j
           /\ \A c \in Rpcs : run'[c] = "queued" <=>
                \E i \in 1 .. Len(queue') : queue'[i] = c
<1> DEFINE Kept(q, r) ==
             /\ q \in Seq(Rpcs)
             /\ r \in [Rpcs -> {"none", "queued", "running", "done"}]
             /\ \A i, j \in 1 .. Len(q) :
                  q[i] = q[j] => i = j
             /\ \A c \in Rpcs : r[c] = "queued" <=>
                  \E i \in 1 .. Len(q) : q[i] = c
<1>0. ServerTypeOK /\ QueueInv /\ CallInv
  BY DEF ServerInv
<1>1. Kept(queue, run)
  <2>1. /\ queue \in Seq(Rpcs)
        /\ run \in [Rpcs -> {"none", "queued", "running", "done"}]
        /\ \A i, j \in 1 .. Len(queue) :
             queue[i] = queue[j] => i = j
    BY <1>0 DEF ServerTypeOK, QueueInv
  <2>2. ASSUME NEW c \in Rpcs
        PROVE  run[c] = "queued" <=>
                 \E i \in 1 .. Len(queue) : queue[i] = c
    BY <1>0 DEF ServerTypeOK
  <2> QED BY <2>1, <2>2
<1>2. \A c \in Rpcs : \A r \in Requests[c] : r \in Request
  BY ServerAssumption
<1>3. ASSUME queue' = queue, run' \in [Rpcs -> {"none", "queued", "running", "done"}],
             \A c \in Rpcs : run'[c] = "queued" <=> run[c] = "queued"
      PROVE  Kept(queue', run')
  BY <1>1, <1>3
<1>4. ASSUME NEW c \in Rpcs, NEW r \in Requests[c], Arrive(c, r)
      PROVE  Kept(queue', run')
  <2> DEFINE q == queue
  <2>1. CASE HandlerFor(r) = NoHandler
    BY <1>1, <1>3, <1>4, <2>1 DEF Arrive
  <2>2. CASE HandlerFor(r) # NoHandler
    <3>1. /\ queue' = Append(q, c)
          /\ run' = [run EXCEPT ![c] = "queued"] /\ run[c] = "none"
      BY <1>0, <1>4, <2>2 DEF Arrive, CallInv
    <3>2. q \in Seq(Rpcs) /\ Len(q) \in Nat
      BY <1>1, LenProperties
    <3>3. /\ Append(q, c) \in Seq(Rpcs) /\ Len(Append(q, c)) = Len(q) + 1
          /\ \A i \in 1 .. Len(q) : Append(q, c)[i] = q[i]
          /\ Append(q, c)[Len(q) + 1] = c
      BY <3>2, AppendProperties
    <3>4. \A i \in 1 .. Len(q) : q[i] # c
      BY <1>1, <3>1
    <3> HIDE DEF q
    <3>5. /\ queue' \in Seq(Rpcs)
          /\ queue' = Append(q, c)
          /\ run' \in [Rpcs -> {"none", "queued", "running", "done"}]
      BY <1>1, <3>1, <3>3
    <3>6. \A i, j \in 1 .. Len(Append(q, c)) : Append(q, c)[i] = Append(q, c)[j] => i = j
      <4>1. \A i, j \in 1 .. Len(q) : q[i] = q[j] => i = j
        BY <1>1 DEF q
      <4>2. \A i \in 1 .. Len(Append(q, c)) : i \in 1 .. Len(q) \/ i = Len(q) + 1
        BY <3>2, <3>3
      <4> QED BY <3>3, <3>4, <4>1, <4>2
    <3>7. ASSUME NEW d \in Rpcs
          PROVE  run'[d] = "queued" <=>
                   \E i \in 1 .. Len(Append(q, c)) : Append(q, c)[i] = d
      <4>1. CASE d = c
        BY <1>1, <3>1, <3>2, <3>3, <4>1
      <4>2. CASE d # c
        <5>1. run'[d] = run[d]
          BY <1>1, <3>1, <4>2
        <5>2. run[d] = "queued" <=> \E i \in 1 .. Len(q) : q[i] = d
          BY <1>1 DEF q
        <5> QED BY <3>2, <3>3, <4>2, <5>1, <5>2
      <4> QED BY <4>1, <4>2
    <3> QED BY <3>5, <3>6, <3>7
  <2> QED BY <2>1, <2>2
<1>5. ASSUME Start
      PROVE  Kept(queue', run')
  <2> DEFINE q == queue
             c == Head(q)
  <2>1. /\ q \in Seq(Rpcs) /\ c \in Rpcs /\ c = q[1] /\ Len(q) \in Nat \ {0}
        /\ queue' = Tail(q)
        /\ Tail(q) \in Seq(Rpcs) /\ Len(Tail(q)) = Len(q) - 1
        /\ \A i \in 1 .. Len(Tail(q)) : Tail(q)[i] = q[i + 1]
        /\ run' = [run EXCEPT ![c] = IF Called(c) THEN "running" ELSE "done"]
    BY <1>0, <1>5, Taken
  <2> HIDE DEF q, c
  <2>2. /\ queue' \in Seq(Rpcs)
        /\ queue' = Tail(q)
        /\ run' \in [Rpcs -> {"none", "queued", "running", "done"}]
    BY <1>1, <2>1
  <2>3. \A i, j \in 1 .. Len(q) : q[i] = q[j] => i = j
    BY <1>1 DEF q
  <2>4. \A i, j \in 1 .. Len(Tail(q)) : Tail(q)[i] = Tail(q)[j] => i = j
    BY <2>1, <2>3
  <2>5. ASSUME NEW d \in Rpcs
        PROVE  run'[d] = "queued" <=> \E i \in 1 .. Len(Tail(q)) : Tail(q)[i] = d
    <3>1. run[d] = "queued" <=> \E i \in 1 .. Len(q) : q[i] = d
      BY <1>1 DEF q
    <3>2. CASE d = c
      <4>1. \A i \in 1 .. Len(Tail(q)) : Tail(q)[i] # c
        BY <2>1, <2>3
      <4> QED BY <1>1, <2>1, <3>2, <4>1
    <3>3. CASE d # c
      <4>1. run'[d] = run[d]
        BY <1>1, <2>1, <3>3
      <4>2. ASSUME NEW i \in 1 .. Len(q), q[i] = d
            PROVE  i - 1 \in 1 .. Len(Tail(q)) /\ Tail(q)[i - 1] = d
        BY <2>1, <3>3, <4>2
      <4>3. ASSUME NEW i \in 1 .. Len(Tail(q)), Tail(q)[i] = d
            PROVE  i + 1 \in 1 .. Len(q) /\ q[i + 1] = d
        BY <2>1, <4>3
      <4> QED BY <3>1, <4>1, <4>2, <4>3
    <3> QED BY <3>2, <3>3
  <2> QED BY <2>2, <2>4, <2>5
<1>6. ASSUME NEW c \in Rpcs, Returns(c)
      PROVE  Kept(queue', run')
  <2>1. PICK code \in {"OK", "UNAUTHENTICATED", "UNKNOWN"} : run[c] = "running" /\ Ends(c, code)
    BY <1>6, ReturnCode
  <2> QED BY <1>1, <1>3, <2>1 DEF Ends
<1>7. CASE \E c \in Rpcs : (\E r \in Requests[c] : Refuse(c, r)) \/ SendRow(c) \/ GivesUp(c)
  BY <1>1, <1>3, <1>7 DEF Refuse, SendRow, GivesUp, Deadline, Hangup
<1>8. CASE GraceOver \/ Quiet
  BY <1>1, <1>3, <1>8 DEF GraceOver, Quiet
<1>9. Kept(queue', run')
  BY <1>4, <1>5, <1>6, <1>7, <1>8, Steps
<1> QED BY <1>9

\* No more calls run than there are threads.
LEMMA NextThreads ==
    ASSUME ServerInv, [ServerNext]_serverVars
    PROVE  /\ IsFiniteSet(Running)'
           /\ (Cardinality(Running) <= MaxWorkers)'
<1> DEFINE W == {c \in Rpcs : run[c] = "running"}
<1>0. ServerTypeOK /\ QueueInv /\ CallInv /\ CallInv'
  BY NextCall DEF ServerInv
<1>00. run \in [Rpcs -> {"none", "queued", "running", "done"}]
  BY <1>0 DEF ServerTypeOK
<1>1. /\ IsFiniteSet(W) /\ Cardinality(W) <= MaxWorkers /\ Cardinality(W) \in Nat
      /\ Running = W /\ Running' = W'
  <2>1. IsFiniteSet(Running) /\ Cardinality(Running) <= MaxWorkers
    BY <1>0 DEF ServerTypeOK, QueueInv
  <2> QED BY <2>1, FS_CardinalityType DEF Running
<1> HIDE DEF W
<1>2. ASSUME W' \subseteq W
      PROVE  IsFiniteSet(W') /\ Cardinality(W') <= MaxWorkers
  <2>1. IsFiniteSet(W') /\ Cardinality(W') <= Cardinality(W)
    BY <1>1, <1>2, FS_Subset
  <2> QED BY <1>1, <2>1, ServerAssumption, FS_CardinalityType
<1>3. ASSUME Start
      PROVE  IsFiniteSet(W') /\ Cardinality(W') <= MaxWorkers
  <2> DEFINE c == Head(queue)
  <2>1. /\ c \in Rpcs /\ run[c] = "queued"
        /\ run' = [run EXCEPT ![c] = IF Called(c) THEN "running" ELSE "done"]
    BY <1>0, <1>3, Taken
  <2>2. Cardinality(W) < MaxWorkers
    BY <1>1, <1>3, <2>1 DEF Start
  <2> HIDE DEF c
  <2>3. W' \subseteq W \cup {c} /\ c \notin W
    BY <1>00, <2>1 DEF W
  <2>4. IsFiniteSet(W \cup {c}) /\ Cardinality(W \cup {c}) = Cardinality(W) + 1
    BY <1>1, <2>3, FS_AddElement
  <2>5. IsFiniteSet(W') /\ Cardinality(W') <= Cardinality(W) + 1
    BY <2>3, <2>4, FS_Subset
  <2> QED BY <1>1, <2>2, <2>5, ServerAssumption, FS_CardinalityType
<1>4. ASSUME \E c \in Rpcs : \E r \in Requests[c] : Arrive(c, r)
      PROVE  IsFiniteSet(W') /\ Cardinality(W') <= MaxWorkers
  <2>1. W' \subseteq W
    BY <1>00, <1>4 DEF Arrive, W
  <2> QED BY <1>2, <2>1
<1>5. ASSUME \E c \in Rpcs : Returns(c)
      PROVE  IsFiniteSet(W') /\ Cardinality(W') <= MaxWorkers
  <2>1. PICK c \in Rpcs : Returns(c)
    BY <1>5
  <2>2. PICK code \in {"OK", "UNAUTHENTICATED", "UNKNOWN"} : Ends(c, code)
    BY <2>1, ReturnCode
  <2>3. W' \subseteq W
    BY <1>00, <2>2 DEF Ends, W
  <2> QED BY <1>2, <2>3
<1>6. ASSUME \E c \in Rpcs : (\E r \in Requests[c] : Refuse(c, r)) \/ SendRow(c) \/ GivesUp(c)
      PROVE  IsFiniteSet(W') /\ Cardinality(W') <= MaxWorkers
  <2>1. W' = W
    BY <1>6 DEF Refuse, SendRow, GivesUp, Deadline, Hangup, W
  <2> QED BY <1>2, <2>1
<1>7. ASSUME GraceOver \/ Quiet
      PROVE  IsFiniteSet(W') /\ Cardinality(W') <= MaxWorkers
  <2>1. W' = W
    BY <1>7 DEF GraceOver, Quiet, W
  <2> QED BY <1>2, <2>1
<1>8. IsFiniteSet(W') /\ Cardinality(W') <= MaxWorkers
  BY <1>3, <1>4, <1>5, <1>6, <1>7, Steps
<1> QED BY <1>1, <1>8

LEMMA NextType ==
    ASSUME ServerInv, [ServerNext]_serverVars
    PROVE  ServerTypeOK'
<1>0. ServerTypeOK /\ QueueInv /\ CallInv
  BY DEF ServerInv
<1>00. /\ stage \in {"serving", "draining", "stopped"} /\ health \in {"SERVING", "NOT_SERVING"}
       /\ request \in [Rpcs -> Request \cup {NoRequest}]
       /\ status \in [Rpcs -> {"new", "open"} \cup Codes]
       /\ executed \subseteq Rpcs
       /\ verdict \in [Rpcs -> {"none", "SERVING", "NOT_SERVING"}]
       /\ sent \in [Rpcs -> 0 .. Matching]
       /\ http \in [Rpcs -> [status : {"none", "200", "error"}, lines : 0 .. Matching,
                             ended : BOOLEAN]]
       /\ Matching \in Nat /\ \A c \in Rpcs : Requests[c] \subseteq Request
  BY <1>0, ServerAssumption DEF ServerTypeOK
<1>1. stage' \in {"serving", "draining", "stopped"} /\ health' \in {"SERVING", "NOT_SERVING"}
  <2>1. \/ UNCHANGED <<stage, health>> \/ Sigterm \/ Stop \/ Exit
    BY ReturnCode DEF ServerNext, serverVars, Arrive, Refuse, HandlerStep, QuitWatch, FailWatch, FailScan,
       Abort, Answer, AnswerProbe, EndWatch, EndScan, SendRow, Ends, Deadline, Hangup, HttpStep,
       FirstRow, NoRow, NoStream, WriteLine, EndBody, Respond, Start, ShutdownStep, GraceOver
  <2> QED BY <1>00, <2>1 DEF Sigterm, Stop, Exit
<1>2. /\ request' \in [Rpcs -> Request \cup {NoRequest}]
      /\ status' \in [Rpcs -> {"new", "open"} \cup Codes]
      /\ executed' \subseteq Rpcs /\ sent' \in [Rpcs -> 0 .. Matching]
  <2>1. CASE \E c \in Rpcs : \E r \in Requests[c] : Arrive(c, r) \/ Refuse(c, r)
    <3>1. CASE \E c \in Rpcs : \E r \in Requests[c] : Arrive(c, r)
      <4>1. PICK c \in Rpcs : \E r \in Requests[c] : Arrive(c, r)
        BY <3>1
      <4>2. PICK r \in Requests[c] : Arrive(c, r)
        BY <4>1
      <4>3. \E code \in {"open"} \cup Codes : status' = [status EXCEPT ![c] = code]
        BY <4>2 DEF Arrive, Codes
      <4>4. request' = [request EXCEPT ![c] = r] /\ UNCHANGED <<executed, sent>>
        BY <4>2 DEF Arrive
      <4> QED BY <1>00, <4>1, <4>2, <4>3, <4>4
    <3>2. CASE \E c \in Rpcs : \E r \in Requests[c] : Refuse(c, r)
      BY <1>00, <3>2 DEF Refuse, Codes
    <3> QED BY <2>1, <3>1, <3>2
  <2>2. CASE \E c \in Rpcs : Returns(c)
    <3>1. PICK c \in Rpcs : Returns(c)
      BY <2>2
    <3>2. PICK code \in {"OK", "UNAUTHENTICATED", "UNKNOWN"} : Ends(c, code)
      BY <3>1, ReturnCode
    <3> QED BY <1>00, <3>1, <3>2 DEF Ends, Codes
  <2>3. CASE \E c \in Rpcs : SendRow(c)
    BY <1>00, <2>3 DEF SendRow
  <2>4. CASE (\E c \in Rpcs : GivesUp(c)) \/ GraceOver \/ Quiet
    BY <1>00, <2>4 DEF GivesUp, Deadline, Hangup, GraceOver, Quiet, Codes
  <2>5. ASSUME Start
        PROVE  executed' \subseteq Rpcs /\ UNCHANGED <<request, status, sent>>
    BY <1>0, <1>00, <2>5, Taken DEF Start
  <2> QED BY <1>00, <2>1, <2>2, <2>3, <2>4, <2>5, Steps
<1>3. verdict' \in [Rpcs -> {"none", "SERVING", "NOT_SERVING"}]
  <2>1. \/ UNCHANGED verdict \/ \E c \in Rpcs : AnswerProbe(c)
    BY DEF ServerNext, serverVars, Arrive, Refuse, HandlerStep, QuitWatch, FailWatch, FailScan,
       Abort, Answer, EndWatch, EndScan, SendRow, Deadline, Hangup, HttpStep,
       FirstRow, NoRow, NoStream, WriteLine, EndBody, Respond, Start, ShutdownStep, GraceOver,
       Sigterm, Stop, Exit
  <2> QED BY <1>00, <2>1 DEF AnswerProbe
<1>4. http' \in [Rpcs -> [status : {"none", "200", "error"}, lines : 0 .. Matching,
                          ended : BOOLEAN]]
  <2>1. \/ UNCHANGED http \/ \E c \in Rpcs : HttpStep(c)
    BY ReturnCode DEF ServerNext, serverVars, Arrive, Refuse, HandlerStep, QuitWatch, FailWatch, FailScan,
       Abort, Answer, AnswerProbe, EndWatch, EndScan, SendRow, Ends, Deadline, Hangup,
       Start, ShutdownStep, GraceOver, Sigterm, Stop, Exit
  <2>2. ASSUME NEW c \in Rpcs, HttpStep(c)
        PROVE  http' \in [Rpcs -> [status : {"none", "200", "error"}, lines : 0 .. Matching,
                                   ended : BOOLEAN]]
    <3>1. CASE FirstRow(c) \/ NoRow(c) \/ NoStream(c)
      <4>1. 0 \in 0 .. Matching
        BY <1>00
      <4>2. PICK answer \in {"200", "error"}, over \in BOOLEAN :
              http' = [http EXCEPT ![c] = [status |-> answer, lines |-> 0, ended |-> over]]
        BY <3>1 DEF FirstRow, NoRow, NoStream, Respond
      <4> QED BY <1>00, <4>1, <4>2
    <3>2. CASE WriteLine(c)
      <4>1. /\ http[c].lines \in 0 .. Matching /\ sent[c] \in 0 .. Matching
            /\ http[c].lines < sent[c] /\ http' = [http EXCEPT ![c] = [http[c] EXCEPT !.lines = @ + 1]]
        BY <1>00, <3>2 DEF WriteLine, Respond
      <4>2. http[c].lines + 1 \in 0 .. Matching
        BY <1>00, <4>1
      <4> QED BY <1>00, <4>1, <4>2
    <3>3. CASE EndBody(c)
      BY <1>00, <3>3 DEF EndBody, Respond
    <3> QED BY <2>2, <3>1, <3>2, <3>3 DEF HttpStep
  <2> QED BY <1>00, <2>1, <2>2
<1>5. (Cardinality(Running) <= MaxWorkers)'
  BY NextThreads
<1> QED BY <1>1, <1>2, <1>3, <1>4, <1>5, NextQueue DEF ServerTypeOK

-----------------------------------------------------------------------------
(* What the properties rest on.                                             *)

\* A code is given once: here is which step gives it.
LEMMA CodeGiven ==
    ASSUME ServerTypeOK, CallInv, [ServerNext]_serverVars,
           NEW c \in Rpcs, status'[c] # status[c]
    PROVE  /\ status'[c] = "UNAUTHENTICATED" =>
                /\ status[c] # "new" /\ HandlerOf(c) # NoHandler
                /\ HandlerOf(c).body = "abort"
           /\ status'[c] = "OK" =>
                /\ status[c] = "open" /\ HandlerOf(c) # NoHandler
                /\ HandlerOf(c).body # "abort"
                /\ HandlerOf(c).body = "WatchLowStock" => sent[c] = Matching
                /\ sent' = sent
<1>0. status \in [Rpcs -> {"new", "open"} \cup Codes]
  BY DEF ServerTypeOK
<1>1. CASE \E d \in Rpcs : \E r \in Requests[d] : Arrive(d, r) \/ Refuse(d, r)
  BY <1>0, <1>1 DEF Arrive, Refuse
<1>2. CASE \E d \in Rpcs : GivesUp(d)
  BY <1>0, <1>2 DEF GivesUp, Deadline, Hangup
<1>3. CASE GraceOver
  BY <1>0, <1>3 DEF GraceOver
<1>4. CASE (\E d \in Rpcs : SendRow(d)) \/ Start \/ Quiet
  BY <1>4 DEF SendRow, Start, Quiet
<1>5. ASSUME NEW d \in Rpcs, Returns(d)
      PROVE  /\ status'[c] = "UNAUTHENTICATED" =>
                  /\ status[c] # "new" /\ HandlerOf(c) # NoHandler
                  /\ HandlerOf(c).body = "abort"
             /\ status'[c] = "OK" =>
                  /\ status[c] = "open" /\ HandlerOf(c) # NoHandler
                  /\ HandlerOf(c).body # "abort"
                  /\ HandlerOf(c).body = "WatchLowStock" => sent[c] = Matching
                  /\ sent' = sent
  <2>1. PICK code \in {"OK", "UNAUTHENTICATED", "UNKNOWN"} :
             /\ run[d] = "running" /\ Ends(d, code)
             /\ code = "UNAUTHENTICATED" => HandlerOf(d).body = "abort"
             /\ code = "OK" => HandlerOf(d).body # "abort"
             /\ code = "OK" /\ status[d] = "open" /\ HandlerOf(d).body = "WatchLowStock"
                  => sent[d] = Matching
    BY <1>5, ReturnCode
  <2>2. d = c /\ status[c] = "open" /\ status'[c] = code /\ sent' = sent
    BY <1>0, <2>1 DEF Ends
  <2>3. HandlerOf(c) # NoHandler
    BY <2>1, <2>2 DEF CallInv
  <2> QED BY <2>1, <2>2, <2>3
<1> QED BY <1>1, <1>2, <1>3, <1>4, <1>5, Steps

LEMMA NextScan ==
    ASSUME ServerInv, [ServerNext]_serverVars
    PROVE  ScanInv' /\ HealthInv'
<1>0. ServerTypeOK /\ CallInv /\ ScanInv /\ HealthInv
  BY DEF ServerInv
<1>1. ASSUME NEW c \in Rpcs, LowStock(c)', status'[c] = "OK"
      PROVE  sent'[c] = Matching
  <2>1. CASE status'[c] = status[c]
    <3>1. request'[c] = request[c] /\ LowStock(c)
      BY <1>0, <1>1, <2>1, StatusStep DEF LowStock
    <3>2. sent[c] = Matching
      BY <1>0, <1>1, <2>1, <3>1 DEF ScanInv
    <3>3. ASSUME NEW d \in Rpcs, SendRow(d)
          PROVE  sent'[c] = sent[c]
      BY <1>0, <1>1, <2>1, <3>3 DEF SendRow, ServerTypeOK
    <3>4. ASSUME NEW d \in Rpcs, Returns(d)
          PROVE  sent'[c] = sent[c]
      BY <3>4, ReturnCode DEF Ends
    <3>5. sent'[c] = sent[c]
      BY <3>3, <3>4, Steps DEF Arrive, Refuse, GivesUp, Deadline, Hangup, Start, GraceOver, Quiet
    <3> QED BY <3>2, <3>5
  <2>2. CASE status'[c] # status[c]
    <3>1. /\ status[c] = "open" /\ HandlerOf(c) # NoHandler /\ HandlerOf(c).body # "abort"
          /\ HandlerOf(c).body = "WatchLowStock" => sent[c] = Matching
          /\ sent' = sent
      BY <1>0, <1>1, <2>2, CodeGiven
    <3>2. request[c].method = "WatchLowStock" /\ request[c] \in Request
      BY <1>0, <1>1, <3>1, StatusStep DEF LowStock, CallInv
    <3>3. HandlerOf(c).body = "WatchLowStock"
      BY <3>1, <3>2, Handlers DEF HandlerOf
    <3> QED BY <3>1, <3>3
  <2> QED BY <2>1, <2>2
<1>2. HealthInv'
  <2>1. \/ UNCHANGED <<stage, health>> \/ Sigterm \/ Stop \/ Exit
    BY ReturnCode DEF ServerNext, serverVars, Arrive, Refuse, HandlerStep, QuitWatch, FailWatch, FailScan,
       Abort, Answer, AnswerProbe, EndWatch, EndScan, SendRow, Ends, Deadline, Hangup, HttpStep,
       FirstRow, NoRow, NoStream, WriteLine, EndBody, Respond, Start, ShutdownStep, GraceOver
  <2> QED BY <1>0, <2>1 DEF HealthInv, Sigterm, Stop, Exit
<1> QED BY <1>1, <1>2 DEF ScanInv

LEMMA NextToken ==
    ASSUME ServerInv, [ServerNext]_serverVars
    PROVE  TokenDecides'
<1>0. ServerTypeOK /\ CallInv /\ TokenDecides /\ CallInv'
  BY NextCall DEF ServerInv
<1> DEFINE Own(r) == r.origin = "order-service" /\ ClientToken = ServerToken
<1>1. ASSUME NEW c \in Rpcs, status'[c] # "new"
      PROVE  /\ c \in executed' =>
                  Own(request'[c]) \/ request'[c].origin = "probe" \/ ServerToken = NoToken
             /\ status'[c] = "UNAUTHENTICATED" => ~Own(request'[c])
  <2>1. request'[c] \in Request /\ (c \in executed' => Authorised(request'[c]))
    BY <1>0, <1>1 DEF CallInv, Authorised, Presented
  <2>2. CASE status'[c] = status[c]
    BY <1>0, <1>1, <2>1, <2>2, StatusStep, Tokens DEF TokenDecides
  <2>3. CASE status'[c] # status[c] /\ status'[c] = "UNAUTHENTICATED"
    <3>1. /\ status[c] # "new" /\ HandlerOf(c) # NoHandler
          /\ HandlerOf(c).body = "abort"
      BY <1>0, <2>3, CodeGiven
    <3>2. request[c] \in Request /\ request'[c] = request[c]
      BY <1>0, <3>1, StatusStep DEF CallInv
    <3>3. ~Authorised(request[c])
      <4>1. request[c].method # "abort"
        BY <3>2 DEF Request, Methods
      <4> QED BY <3>1, <3>2, <4>1, Handlers DEF HandlerOf
    <3> QED BY <2>1, <3>2, <3>3, Tokens
  <2>4. CASE status'[c] # "UNAUTHENTICATED"
    BY <2>1, <2>4, Tokens
  <2> QED BY <2>2, <2>3, <2>4
<1> QED BY <1>1 DEF TokenDecides

LEMMA NextLowStock ==
    ASSUME ServerInv, [ServerNext]_serverVars
    PROVE  LowStockHonest'
<1> DEFINE Honest(c) ==
             \/ http[c].status = "error" /\ Failed(c)
             \/ http[c].status = "200" /\ status[c] = "OK" /\ http[c].lines = Matching
             \/ http[c].status = "200" /\ Failed(c) /\ http[c].lines > 0
<1>0. ServerTypeOK /\ ScanInv /\ LowStockHonest
  BY DEF ServerInv
<1>00. /\ http \in [Rpcs -> [status : {"none", "200", "error"}, lines : 0 .. Matching,
                             ended : BOOLEAN]]
       /\ Matching \in Nat /\ sent \in [Rpcs -> 0 .. Matching]
  BY <1>0, ServerAssumption DEF ServerTypeOK
<1>1. ASSUME NEW c \in Rpcs, http[c].ended, http'[c] = http[c]
      PROVE  Honest(c)'
  <2>1. Honest(c)
    BY <1>0, <1>1 DEF LowStockHonest
  <2>2. status'[c] = status[c]
    BY <1>0, <2>1, StatusStep DEF Failed
  <2> QED BY <1>1, <2>1, <2>2 DEF Failed
<1>2. ASSUME NEW d \in Rpcs, HttpStep(d), NEW c \in Rpcs, http'[c].ended
      PROVE  Honest(c)'
  <2>1. status' = status /\ LowStock(d)
    BY <1>2 DEF HttpStep, FirstRow, NoRow, NoStream, WriteLine, EndBody, Respond
  <2>2. CASE http'[c] = http[c]
    BY <1>1, <1>2, <2>2
  <2>3. CASE d = c /\ (FirstRow(c) \/ WriteLine(c))
    <3>1. ~http'[c].ended
      BY <1>00, <2>3 DEF FirstRow, WriteLine, Respond
    <3> QED BY <1>2, <3>1
  <2>4. CASE d = c /\ NoRow(c)
    <3>1. status[c] = "OK" /\ sent[c] = 0 /\ sent[c] = Matching
      BY <1>0, <2>1, <2>4 DEF NoRow, ScanInv
    <3>2. http'[c].status = "200" /\ http'[c].lines = 0
      BY <1>00, <2>4 DEF NoRow, Respond
    <3> QED BY <2>1, <3>1, <3>2
  <2>5. CASE d = c /\ NoStream(c)
    BY <1>00, <2>1, <2>5 DEF NoStream, Respond, Failed
  <2>6. CASE d = c /\ EndBody(c)
    <3>1. http'[c].status = "200" /\ http'[c].lines = http[c].lines
      BY <1>00, <2>6 DEF EndBody, Respond
    <3>2. \/ status[c] = "OK" /\ http[c].lines = Matching
          \/ Failed(c) /\ http[c].lines > 0
      BY <1>0, <2>1, <2>6 DEF EndBody, ScanInv
    <3> QED BY <2>1, <3>1, <3>2 DEF Failed
  <2>7. d # c => http'[c] = http[c]
    BY <1>00, <1>2 DEF HttpStep, FirstRow, NoRow, NoStream, WriteLine, EndBody, Respond
  <2> QED BY <1>2, <2>2, <2>3, <2>4, <2>5, <2>6, <2>7 DEF HttpStep
<1>3. \/ UNCHANGED http \/ \E c \in Rpcs : HttpStep(c)
  BY ReturnCode DEF ServerNext, serverVars, Arrive, Refuse, HandlerStep, QuitWatch, FailWatch, FailScan,
     Abort, Answer, AnswerProbe, EndWatch, EndScan, SendRow, Ends, Deadline, Hangup,
     Start, ShutdownStep, GraceOver, Sigterm, Stop, Exit
<1>4. \A c \in Rpcs : http'[c].ended => Honest(c)'
  BY <1>1, <1>2, <1>3
<1> QED BY <1>4 DEF LowStockHonest

\* A probe is told what the health service says.
LEMMA NextProbe ==
    ASSUME ServerInv, [ServerNext]_serverVars, NEW c \in Rpcs,
           verdict'[c] # verdict[c], verdict'[c] = "SERVING"
    PROVE  stage = "serving"
<1>1. \/ UNCHANGED verdict \/ \E d \in Rpcs : AnswerProbe(d)
  BY DEF ServerNext, serverVars, Arrive, Refuse, HandlerStep, QuitWatch, FailWatch, FailScan,
     Abort, Answer, EndWatch, EndScan, SendRow, Deadline, Hangup, HttpStep,
     FirstRow, NoRow, NoStream, WriteLine, EndBody, Respond, Start, ShutdownStep, GraceOver,
     Sigterm, Stop, Exit
<1>2. HealthInv /\ verdict \in [Rpcs -> {"none", "SERVING", "NOT_SERVING"}]
  BY DEF ServerInv, ServerTypeOK
<1> QED BY <1>1, <1>2 DEF AnswerProbe, HealthInv

-----------------------------------------------------------------------------
(* Theorems.                                                                *)

LEMMA NextServer == ServerInv /\ [ServerNext]_serverVars => ServerInv'
<1> SUFFICES ASSUME ServerInv, [ServerNext]_serverVars
             PROVE  ServerInv'
  OBVIOUS
<1>1. QueueInv'
  BY NextQueue, NextThreads DEF QueueInv
<1> QED
  BY <1>1, NextType, NextCall, NextScan, NextToken, NextLowStock DEF ServerInv

LEMMA ServerSafe == ServerSpec => []ServerInv
BY InitServer, NextServer, PTL DEF ServerSpec

\* For any number of calls and any size of the pool: no more calls run than
\* there are threads (server.py 44), and what waits is in exactly the queues.
THEOREM ServerTypeCorrect == ServerSpec => []ServerTypeOK
<1>1. ServerInv => ServerTypeOK
  BY DEF ServerInv
<1> QED BY <1>1, ServerSafe, PTL

\* Whatever the tokens of the two services are: only the order service with the
\* right one, or a probe, reaches a handler, and it is never turned away
\* (interceptors.py of both services).
THEOREM TokenDecidesCorrect == ServerSpec => []TokenDecides
<1>1. ServerInv => TokenDecides
  BY DEF ServerInv
<1> QED BY <1>1, ServerSafe, PTL

\* For any number of rows: a response of GET /low-stock that came to an end
\* tells what became of the call under it (inventory/service.py 61-96).
THEOREM LowStockHonestCorrect == ServerSpec => []LowStockHonest
<1>1. ServerInv => LowStockHonest
  BY DEF ServerInv
<1> QED BY <1>1, ServerSafe, PTL

\* No probe is told SERVING by a server that refuses calls (server.py 77-80).
THEOREM ServingAcceptsCorrect == ServerSpec => ServingAccepts
<1>1. ServerInv /\ [ServerNext]_serverVars =>
        [\A c \in Rpcs : verdict'[c] # verdict[c] /\ verdict'[c] = "SERVING"
           => stage = "serving"]_serverVars
  BY NextProbe
<1> QED BY <1>1, ServerSafe, PTL DEF ServingAccepts, ServerSpec
=============================================================================
