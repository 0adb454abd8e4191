----------------------------- MODULE SagaProofs -----------------------------
(***************************************************************************)
(* The order saga, for any number of requests, keys and attempts.  BaseInv *)
(* says what calls carry; it holds of every deployment, and with it an     *)
(* order has at most one booking.  On top of it, CareInv says what a       *)
(* handler that is about to commit relies on, from which Backed and        *)
(* NeverOversold follow, and SettleInv follows the one handler of a key    *)
(* until nothing is held that nobody answers for.                          *)
(***************************************************************************)
EXTENDS OrderSaga, AtomicProofs

\* A key stands for one order: who sends it again sends the same items.
SamePayload == \A r, s \in HttpRequests : Key[r] = Key[s] => Items[r] = Items[s]

\* The shape of the handlers' state.
HandlerTypes ==
    /\ orders \in [Keys -> {Items[r] : r \in HttpRequests} \cup {NoOrder}]
    /\ at \in [HttpRequests ->
                 {"new", "reserve", "persist", "refresh", "release", "done"}]
    /\ attempt \in [HttpRequests -> 0 .. MaxAttempts]
    /\ result \in [HttpRequests -> {"none", "201", "409", "5xx", "500", "lost"}]
    /\ outages \in 0 .. MaxOutages
    /\ \A r \in HttpRequests :
         /\ at[r] # "done" => result[r] = "none"
         /\ at[r] \in {"reserve", "release"} => attempt[r] # 0

\* What a call carries is the message of its request and operation.
Carries(c) ==
    IF req[c] = NoRequest THEN reply[c] = "none" ELSE req[c] = Message(c[1], c[2])

\* What a call is in the middle of is its own operation's.
Busy(c) ==
    /\ checked[c] => c[2] = "reserve"
    /\ booking[c] # "none" => c[2] = "reserve"
    /\ \A d \in due[c] :
         /\ c[2] = "release" /\ req[c] # NoRequest
         /\ d \in Calls /\ req[d] # NoRequest /\ req[d].ref = req[c].ref

MessageInv == \A c \in Calls : Carries(c) /\ Busy(c)

\* The part of the invariant that holds whatever the requests are.
BaseInv == AtomicInv /\ HandlerTypes /\ MessageInv

\* Inventory holds one active booking for an order at most.
Once == \A c, d \in Active : req[c].ref = req[d].ref => c = d

\* What run saga_safe leaves out, because each of them alone refutes Backed: two
\* handlers of one key at a time, a commit or a refresh that raises after the
\* order is there, and a release executed after its handler has answered.
Careful == ~Overlap /\ {"lost", "refresh"} \cap Faults = {} /\ "release" \notin Late

\* One handler of a key at a time.
Single ==
    \A r, s \in HttpRequests : Key[r] = Key[s] /\ InFlight(r) /\ InFlight(s) => r = s

\* Until it has persisted the order, a handler knows that there is none.
NoRowYet ==
    \A r \in HttpRequests : at[r] \in {"reserve", "persist", "release"} => ~Exists(Key[r])

\* Inventory works on a release only while its handler waits for it.
ReleaseInv ==
    \A c \in Calls :
        Pending(c) /\ c[2] = "release" => at[c[1]] = "release" /\ attempt[c[1]] = c[3]

HeldFor(k, items) == \E c \in Holding(k) : req[c].items = items

\* A handler that has been told that its order is reserved can rely on it.
HoldInv ==
    \A r \in HttpRequests :
        \/ at[r] = "persist"
        \/ at[r] = "reserve" /\ Success(Answered(r))
        => HeldFor(Key[r], Items[r])

\* The inductive invariant of a careful deployment.
CareInv == Single /\ NoRowYet /\ ReleaseInv /\ HoldInv /\ Backed

\* What run saga_settles leaves out: besides two handlers of one key at a time,
\* whatever makes a handler stop waiting before its attempts are used up, and
\* outages enough to use them up.
Settling ==
    /\ ~Overlap /\ Late = {} /\ Faults \subseteq {"commit", "lost", "refresh"}
    /\ MaxOutages < MaxAttempts

\* Inventory works only on the calls that handlers wait for.
CurrentInv ==
    \A c \in Calls : Pending(c) => at[c[1]] = c[2] /\ attempt[c[1]] = c[3]

\* Every attempt but the last has cost an outage.
OutageInv ==
    \A r \in HttpRequests :
        Waiting(r) =>
            /\ attempt[r] <= outages + 1
            /\ Answered(r) = "failed" => attempt[r] <= outages

\* A reserve that found nothing to replay is still alone with its order, and a
\* release that has read the bookings of its order has read all of them.
AloneInv ==
    \A c \in Calls :
        /\ checked[c] => Pending(c) /\ Holding(Key[c[1]]) = {}
        /\ Pending(c) /\ due[c] # {} => Holding(Key[c[1]]) \subseteq due[c]

\* Nothing is held when a reserve was refused or a release was answered.
EmptyInv ==
    \A r \in HttpRequests :
        \/ at[r] = "reserve" /\ Answered(r) \in {"rejected", "duplicate"}
        \/ at[r] = "release" /\ Answered(r) \in {"released", "nothing"}
        => Holding(Key[r]) = {}

\* Whatever is held is for an order, or for a handler that is not done.
OwnedInv ==
    \A k \in Keys :
        Holding(k) # {} => Exists(k) \/ \E r \in HttpRequests : Key[r] = k /\ InFlight(r)

RefreshInv == \A r \in HttpRequests : at[r] = "refresh" => Exists(Key[r])

\* The inductive invariant of a deployment that settles.
SettleInv ==
    Single /\ CurrentInv /\ OutageInv /\ AloneInv /\ EmptyInv /\ OwnedInv /\ RefreshInv

-----------------------------------------------------------------------------
(* Messages and calls.                                                      *)

\* A call is an attempt of an operation of a request.
LEMMA CallParts ==
    /\ \A c \in Calls : /\ c[1] \in HttpRequests /\ c[2] \in {"reserve", "release"}
                        /\ c[3] \in 1 .. MaxAttempts /\ c = <<c[1], c[2], c[3]>>
    /\ \A r \in HttpRequests, op \in {"reserve", "release"}, n \in 1 .. MaxAttempts :
         <<r, op, n>> \in Calls
BY SagaAssumption

LEMMA Messages ==
    ASSUME NEW r \in HttpRequests, NEW op \in {"reserve", "release"}
    PROVE  /\ Message(r, op).op = op /\ Message(r, op).ref = Key[r]
           /\ Message(r, "reserve").key = Key[r] /\ Message(r, "release").key = NoKey
           /\ Message(r, "reserve").items = Items[r]
           /\ Message(r, op).items \in Seq(Item)
           /\ Key[r] \in Keys /\ Key[r] # NoKey /\ Key[r] # NoRef
           /\ Items[r] \in Seq(Item) /\ Items[r] # <<>>
           /\ Valid(Message(r, op))
<1>1. /\ Key[r] \in Keys /\ Key[r] # NoKey /\ Key[r] # NoRef
      /\ Items[r] \in Seq(Item) /\ Items[r] # <<>>
  BY SagaAssumption DEF Item
<1>2. <<>> \in Seq(Item)
  BY EmptySeq
<1> QED BY <1>1, <1>2 DEF Message, ForwardedKey, Valid

\* What is known of a call that has been sent.
LEMMA Sent ==
    ASSUME MessageInv, NEW c \in Calls, req[c] # NoRequest
    PROVE  /\ req[c].op = c[2] /\ req[c].ref = Key[c[1]]
           /\ req[c].key = IF c[2] = "reserve" THEN Key[c[1]] ELSE NoKey
           /\ c[2] = "reserve" => req[c].items = Items[c[1]]
<1>1. req[c] = Message(c[1], c[2]) /\ c[1] \in HttpRequests /\ c[2] \in {"reserve", "release"}
  BY CallParts DEF MessageInv, Carries
<1> QED BY <1>1, Messages

-----------------------------------------------------------------------------
(* Steps.                                                                   *)

\* A handler sends a message.
Sends(r) ==
    \/ SendReserve(r) \/ Retry(r)
    \/ CommitRaises(r) \/ CommitUnanswered(r) \/ RefreshRaises(r)

\* The commit takes effect as the release is sent.
Persists(r) ==
    /\ at[r] = "persist" /\ "lost" \in Faults
    /\ orders' = [orders EXCEPT ![Key[r]] = Items[r]]

\* A handler answers its client.
Answers(r) ==
    \/ ReturnExisting(r) \/ Refused(r) \/ GiveUp(r) \/ DeadlineExceeded(r)
    \/ ServerError(r) \/ Refresh(r) \/ Released(r)

\* Inventory works on a call.
Works(c) == (Serve(c) \/ Fail(c)) /\ UNCHANGED <<orders, at, attempt, result>>

LEMMA SagaSteps ==
    ASSUME [SagaNext]_sagaVars
    PROVE  \/ \E r \in HttpRequests : Sends(r) \/ Answers(r) \/ Reserved(r) \/ Commit(r)
           \/ \E c \in Calls : Works(c) /\ (SagaServe(c) \/ Outage(c))
           \/ Crash
           \/ UNCHANGED <<atomicVars, orders, at, attempt, result, outages>>
<1>1. CASE UNCHANGED sagaVars
  BY <1>1 DEF sagaVars, handlers
<1>2. ASSUME NEW c \in Calls, SagaServe(c) \/ Outage(c)
      PROVE  Works(c) /\ (SagaServe(c) \/ Outage(c))
  BY <1>2 DEF SagaServe, Outage, Works, handlers
<1> QED BY <1>1, <1>2 DEF SagaNext, Handle, Sends, Answers

\* Which message is sent, and what came before.
LEMMA SendStep ==
    ASSUME HandlerTypes, NEW r \in HttpRequests, Sends(r)
    PROVE  \E op \in {"reserve", "release"}, n \in 1 .. MaxAttempts :
             /\ Send(r, op, n)
             /\ UNCHANGED orders \/ (op = "release" /\ Persists(r))
             /\ \/ op = "reserve" /\ n = 1 /\ MayStart(r) /\ ~Exists(Key[r]) /\ UNCHANGED outages
                \/ op = "release" /\ n = 1 /\ at[r] = "persist" /\ UNCHANGED outages
                \/ /\ op = "release" /\ n = 1 /\ at[r] = "refresh" /\ "refresh" \in Faults
                   /\ UNCHANGED outages
                \/ op = at[r] /\ n = attempt[r] + 1 /\ Unavailable(r)
<1>1. 1 \in 1 .. MaxAttempts
  BY SagaAssumption
<1>2. CASE SendReserve(r)
  BY <1>1, <1>2 DEF SendReserve, Found
<1>3. CASE CommitRaises(r)
  BY <1>1, <1>3 DEF CommitRaises, Compensate
<1>4. CASE RefreshRaises(r) \/ CommitUnanswered(r)
  BY <1>1, <1>4 DEF RefreshRaises, CommitUnanswered, Compensate, Persists
<1>5. CASE Retry(r)
  <2>1. attempt[r] + 1 \in 1 .. MaxAttempts
    BY <1>5, SagaAssumption DEF Retry, HandlerTypes
  <2> QED BY <1>5, <2>1 DEF Retry, Unavailable, Waiting
<1> QED BY <1>2, <1>3, <1>4, <1>5 DEF Sends

\* Which answer is given, and from where.
LEMMA AnswerStep ==
    ASSUME NEW r \in HttpRequests, Answers(r)
    PROVE  \E status \in {"201", "409", "5xx", "500"} :
             /\ Respond(r, status)
             /\ \/ at[r] = "new" /\ status = "201"
                \/ at[r] = "refresh" /\ status = "201"
                \/ Waiting(r) /\ MayAbandon(r)
<1>1. CASE ReturnExisting(r) \/ Refresh(r)
  BY <1>1 DEF ReturnExisting, MayStart, Refresh
<1>2. CASE Refused(r)
  BY <1>2 DEF Refused, Waiting, MayAbandon
<1>3. CASE GiveUp(r)
  BY <1>3 DEF GiveUp, Unavailable, RpcError, MayAbandon, Waiting
<1>4. CASE DeadlineExceeded(r)
  BY <1>4 DEF DeadlineExceeded, RpcError
<1>5. CASE ServerError(r)
  BY <1>5 DEF ServerError, RpcError, MayAbandon
<1>6. CASE Released(r)
  BY <1>6 DEF Released, ReleaseAnswer, Waiting, MayAbandon
<1> QED BY <1>1, <1>2, <1>3, <1>4, <1>5, <1>6 DEF Answers

-----------------------------------------------------------------------------
(* Types and messages.                                                      *)

LEMMA InitBase == SagaInit => BaseInv
<1> SUFFICES ASSUME SagaInit
             PROVE  BaseInv
  OBVIOUS
<1>1. AtomicInv
  BY InitAtomic DEF SagaInit
<1>2. HandlerTypes
  BY SagaAssumption DEF SagaInit, HandlerTypes
<1>3. MessageInv
  BY DEF SagaInit, AtomicInit, MessageInv, Carries, Busy
<1> QED BY <1>1, <1>2, <1>3 DEF BaseInv

\* Seen from inventory, a step of the saga is a message that arrives, work on a
\* call, or nothing.
LEMMA InventoryStep ==
    ASSUME HandlerTypes, [SagaNext]_sagaVars
    PROVE  \/ \E r \in HttpRequests, op \in {"reserve", "release"}, n \in 1 .. MaxAttempts :
                Send(r, op, n)
           \/ \E c \in Calls : Works(c)
           \/ UNCHANGED atomicVars
<1>1. ASSUME NEW r \in HttpRequests, Sends(r)
      PROVE  \E op \in {"reserve", "release"}, n \in 1 .. MaxAttempts : Send(r, op, n)
  BY <1>1, SendStep
<1>2. ASSUME NEW r \in HttpRequests, Answers(r)
      PROVE  UNCHANGED atomicVars
  BY <1>2, AnswerStep DEF Respond
<1>3. ASSUME NEW r \in HttpRequests, Reserved(r) \/ Commit(r)
      PROVE  UNCHANGED atomicVars
  BY <1>3 DEF Reserved, Commit
<1>4. CASE Crash
  BY <1>4 DEF Crash
<1> QED BY <1>1, <1>2, <1>3, <1>4, SagaSteps

LEMMA NextAtomic ==
    ASSUME BaseInv, [SagaNext]_sagaVars
    PROVE  AtomicInv'
<1>1. ASSUME NEW r \in HttpRequests, NEW op \in {"reserve", "release"},
             NEW n \in 1 .. MaxAttempts, Send(r, op, n)
      PROVE  AtomicInv'
  BY <1>1, CallParts, Messages, ArriveAtomic DEF BaseInv, Send
<1> QED BY <1>1, InventoryStep, ServeAtomic, StutterAtomic DEF BaseInv, Works

LEMMA OneOutage ==
    ASSUME outages \in 0 .. MaxOutages, NEW r \in HttpRequests,
           UNCHANGED outages \/ Unavailable(r)
    PROVE  outages' \in 0 .. MaxOutages
BY SagaAssumption DEF Unavailable

LEMMA NextHandlers ==
    ASSUME BaseInv, [SagaNext]_sagaVars
    PROVE  HandlerTypes'
<1> USE DEF HandlerTypes
<1>0. HandlerTypes
  BY DEF BaseInv
<1>1. ASSUME NEW r \in HttpRequests, Sends(r)
      PROVE  HandlerTypes'
  <2>1. PICK op \in {"reserve", "release"}, n \in 1 .. MaxAttempts :
             /\ Send(r, op, n)
             /\ at[r] # "done"
             /\ UNCHANGED orders \/ Persists(r)
             /\ UNCHANGED outages \/ Unavailable(r)
    BY <1>0, <1>1, SendStep DEF MayStart, Unavailable, Waiting
  <2>2. outages' \in 0 .. MaxOutages
    BY <1>0, <2>1, OneOutage
  <2>3. orders' \in [Keys -> {Items[s] : s \in HttpRequests} \cup {NoOrder}]
    BY <1>0, <2>1 DEF Persists
  <2> QED BY <1>0, <2>1, <2>2, <2>3 DEF Send
<1>2. ASSUME NEW r \in HttpRequests, Answers(r)
      PROVE  HandlerTypes'
  <2>1. PICK status \in {"201", "409", "5xx", "500"} : Respond(r, status)
    BY <1>2, AnswerStep
  <2>2. outages' \in 0 .. MaxOutages
    BY <1>0, <1>2, OneOutage DEF Answers, ReturnExisting, Refused, GiveUp, DeadlineExceeded,
       ServerError, Refresh, Released
  <2> QED BY <1>0, <2>1, <2>2 DEF Respond
<1>3. ASSUME NEW r \in HttpRequests, Reserved(r)
      PROVE  HandlerTypes'
  BY <1>0, <1>3 DEF Reserved
<1>4. ASSUME NEW r \in HttpRequests, Commit(r)
      PROVE  HandlerTypes'
  BY <1>0, <1>4, SagaAssumption DEF Commit
<1>5. ASSUME NEW c \in Calls, Works(c), SagaServe(c) \/ Outage(c)
      PROVE  HandlerTypes'
  <2>1. outages' \in 0 .. MaxOutages
    BY <1>0, <1>5, SagaAssumption DEF SagaServe, Outage
  <2>2. UNCHANGED <<orders, at, attempt, result>>
    BY <1>5 DEF Works
  <2> QED BY <1>0, <2>1, <2>2
<1>6. CASE Crash
  <2>1. \A r \in HttpRequests : at'[r] \in {"new", "done"}
    BY <1>0, <1>6 DEF Crash, InFlight
  <2> QED BY <1>0, <1>6, <2>1 DEF Crash, InFlight
<1>7. CASE UNCHANGED <<atomicVars, orders, at, attempt, result, outages>>
  BY <1>0, <1>7
<1> QED BY <1>1, <1>2, <1>3, <1>4, <1>5, <1>6, <1>7, SagaSteps

\* A message that arrives changes the request of its call only, and its answer
\* at most to "invalid".
LEMMA SendEffect ==
    ASSUME AtomicTypes, NEW r \in HttpRequests, NEW op \in {"reserve", "release"},
           NEW n \in 1 .. MaxAttempts, Send(r, op, n)
    PROVE  /\ <<r, op, n>> \in Calls /\ req[<<r, op, n>>] = NoRequest
           /\ req' = [req EXCEPT ![<<r, op, n>>] = Message(r, op)]
           /\ UNCHANGED <<stock, booking, checked, due, reply, result>>
           /\ at' = [at EXCEPT ![r] = op] /\ attempt' = [attempt EXCEPT ![r] = n]
BY CallParts, Messages DEF Send, Arrive

\* What work on a call changes of it.
LEMMA WorkEffect ==
    ASSUME BaseInv, NEW c \in Calls, Works(c)
    PROVE  /\ UNCHANGED req /\ req[c] # NoRequest /\ reply[c] = "none"
           /\ \A d \in Calls : d # c => reply'[d] = reply[d] /\ checked'[d] = checked[d]
                                        /\ due'[d] = due[d]
           /\ checked'[c] => c[2] = "reserve"
           /\ booking'[c] # "none" => c[2] = "reserve"
           /\ \A d \in Calls : d # c /\ booking[d] = "none" => booking'[d] = "none"
           /\ \A d \in due'[c] : c[2] = "release" /\ d \in Calls /\ req[d] # NoRequest
                                 /\ req[d].ref = req[c].ref
<1>0. AtomicTypes /\ CallsInv /\ Busy(c) /\ Carries(c) /\ MessageInv
      /\ \A d \in Calls : Busy(d)
  BY DEF BaseInv, AtomicInv, MessageInv
<1>1. UNCHANGED req /\ req[c] # NoRequest /\ reply[c] = "none"
  BY DEF Works, Serve, Fail, Replay, Miss, Reserve, Reject, Collide, Decide, Find, Return,
     Pending
<1>2. req[c].op = c[2]
  BY <1>0, <1>1, Sent
<1>3. \A d \in Active : d \in Calls /\ req[d] # NoRequest /\ booking[d] # "none"
  BY <1>0, ActiveTyped DEF Active
<1>4. CASE Replay(c) \/ Reject(c) \/ Collide(c)
  BY <1>0, <1>1, <1>4 DEF Replay, Reject, Collide, Decide, Answer, AtomicTypes, Busy
<1>5. CASE Miss(c)
  BY <1>0, <1>1, <1>2, <1>5 DEF Miss, AtomicTypes, Busy
<1>6. CASE Reserve(c)
  BY <1>0, <1>1, <1>6 DEF Reserve, Decide, Answer, AtomicTypes, Busy
<1>7. CASE Find(c)
  <2>1. /\ due' = [due EXCEPT ![c] = {d \in Active : req[d].ref = req[c].ref}]
        /\ UNCHANGED <<booking, checked>> /\ c[2] = "release"
        /\ reply' = reply \/ reply' = [reply EXCEPT ![c] = "nothing"]
    BY <1>2, <1>7 DEF Find, Answer
  <2> QED BY <1>0, <1>1, <1>3, <2>1 DEF AtomicTypes, Busy
<1>8. CASE Return(c)
  <2>1. /\ due' = [due EXCEPT ![c] = {}] /\ UNCHANGED checked
        /\ \A d \in Calls : booking'[d] \in {booking[d], "RELEASED"}
        /\ \A d \in Calls : booking[d] = "none" => booking'[d] = "none"
        /\ \E a : reply' = [reply EXCEPT ![c] = a]
    BY <1>3, <1>8 DEF Return, Answer
  <2> QED BY <1>0, <1>1, <2>1 DEF AtomicTypes, Busy
<1>9. CASE Fail(c)
  BY <1>0, <1>1, <1>9 DEF Fail, Answer, AtomicTypes, Busy
<1> QED BY <1>4, <1>5, <1>6, <1>7, <1>8, <1>9 DEF Works, Serve

LEMMA NextMessages ==
    ASSUME BaseInv, [SagaNext]_sagaVars
    PROVE  MessageInv'
<1>0. AtomicTypes /\ MessageInv /\ HandlerTypes
  BY DEF BaseInv, AtomicInv
<1>00. \A c \in Calls : Message(c[1], c[2])' = Message(c[1], c[2])
  BY DEF Message, ForwardedKey
<1>1. ASSUME NEW r \in HttpRequests, NEW op \in {"reserve", "release"},
             NEW n \in 1 .. MaxAttempts, Send(r, op, n)
      PROVE  MessageInv'
  <2> DEFINE c == <<r, op, n>>
  <2>1. /\ c \in Calls /\ req[c] = NoRequest
        /\ req' = [req EXCEPT ![c] = Message(r, op)]
        /\ UNCHANGED <<booking, checked, due, reply>>
    BY <1>0, <1>1, SendEffect
  <2>2. c[1] = r /\ c[2] = op
    OBVIOUS
  <2> HIDE DEF c
  <2>3. \A d \in Calls : Carries(d)'
    BY <1>0, <1>00, <2>1, <2>2 DEF AtomicTypes, MessageInv, Carries
  <2>4. ASSUME NEW d \in Calls
        PROVE  Busy(d)'
    <3>1. Busy(d)
      BY <1>0 DEF MessageInv
    <3>2. \A e \in Calls : req[e] # NoRequest => req'[e] = req[e]
      BY <1>0, <2>1 DEF AtomicTypes
    <3> QED BY <2>1, <3>1, <3>2 DEF Busy
  <2> QED BY <2>3, <2>4 DEF MessageInv
<1>2. ASSUME NEW c \in Calls, Works(c)
      PROVE  MessageInv'
  <2>1. /\ UNCHANGED req /\ req[c] # NoRequest /\ reply[c] = "none"
        /\ \A d \in Calls : d # c => reply'[d] = reply[d] /\ checked'[d] = checked[d]
                                     /\ due'[d] = due[d]
        /\ checked'[c] => c[2] = "reserve"
        /\ booking'[c] # "none" => c[2] = "reserve"
        /\ \A d \in Calls : d # c /\ booking[d] = "none" => booking'[d] = "none"
        /\ \A d \in due'[c] : c[2] = "release" /\ d \in Calls /\ req[d] # NoRequest
                              /\ req[d].ref = req[c].ref
    BY <1>2, WorkEffect
  <2>2. \A d \in Calls : Carries(d)'
    BY <1>0, <1>00, <2>1 DEF MessageInv, Carries
  <2>3. \A d \in Calls : Busy(d)'
    BY <1>0, <2>1 DEF MessageInv, Busy
  <2> QED BY <2>2, <2>3 DEF MessageInv
<1>3. CASE UNCHANGED atomicVars
  BY <1>0, <1>00, <1>3 DEF atomicVars, MessageInv, Carries, Busy
<1> QED BY <1>0, <1>1, <1>2, <1>3, InventoryStep

LEMMA NextBase == BaseInv /\ [SagaNext]_sagaVars => BaseInv'
BY NextAtomic, NextHandlers, NextMessages DEF BaseInv

\* SagaTypeOK, for any number of requests, keys and attempts.
THEOREM SagaTypeCorrect == SagaSpec => []SagaTypeOK
<1>1. SagaInit /\ [][SagaNext]_sagaVars => []BaseInv
  BY InitBase, NextBase, PTL
<1>2. BaseInv => SagaTypeOK
  BY DEF BaseInv, AtomicInv, AtomicTypes, HandlerTypes, SagaTypeOK
<1> QED BY <1>1, <1>2, PTL DEF SagaSpec

-----------------------------------------------------------------------------
(* One booking at most for an order.                                       *)

\* A booking is a reserve's, under its request's key and for its items.
LEMMA Bookings ==
    ASSUME BaseInv
    PROVE  \A d \in Active : /\ d \in Calls /\ req[d] # NoRequest /\ d[2] = "reserve"
                             /\ d[1] \in HttpRequests /\ req[d].ref = Key[d[1]]
                             /\ req[d].key = Key[d[1]] /\ req[d].items = Items[d[1]]
                             /\ reply[d] = "reserved"
<1> SUFFICES ASSUME NEW d \in Active
             PROVE  /\ d \in Calls /\ req[d] # NoRequest /\ d[2] = "reserve"
                    /\ d[1] \in HttpRequests /\ req[d].ref = Key[d[1]]
                    /\ req[d].key = Key[d[1]] /\ req[d].items = Items[d[1]]
                    /\ reply[d] = "reserved"
  OBVIOUS
<1>1. d \in Calls /\ req[d] # NoRequest /\ reply[d] = "reserved" /\ booking[d] = "RESERVED"
  BY ActiveTyped DEF BaseInv, AtomicInv, Active
<1>2. d[2] = "reserve"
  BY <1>1 DEF BaseInv, MessageInv, Busy
<1> QED BY <1>1, <1>2, Sent, CallParts DEF BaseInv

\* What work on a call does to the bookings: a release of their order returns
\* some, or a reserve that collides with none adds its own.
LEMMA WorkBookings ==
    ASSUME BaseInv, NEW c \in Calls, Works(c)
    PROVE  /\ \A d \in Active : d \in Active' \/ (/\ Pending(c) /\ c[2] = "release"
                                                 /\ req[d].ref = Key[c[1]])
           /\ \A d \in Active' : d \in Active \/ (d = c /\ Reserve(c))
           /\ reply'[c] = "reserved" => c \in Active'
           /\ reply'[c] = "replayed" => (\E d \in Active : SameKey(c, d)) /\ Active' = Active
<1>0. AtomicTypes /\ MessageInv /\ req[c] # NoRequest /\ reply[c] = "none"
  BY WorkEffect DEF BaseInv, AtomicInv
<1>1. CASE Replay(c) \/ Miss(c) \/ Reject(c) \/ Collide(c) \/ Find(c) \/ Fail(c)
  <2>1. Active' = Active
    BY <1>1 DEF Active, Replay, Miss, Reject, Collide, Find, Fail, Decide
  <2>2. reply'[c] # "reserved"
    BY <1>0, <1>1 DEF Replay, Miss, Reject, Collide, Find, Fail, Decide, Answer, AtomicTypes
  <2>3. reply'[c] = "replayed" => \E d \in Active : SameKey(c, d)
    BY <1>0, <1>1 DEF Replay, Miss, Reject, Collide, Find, Fail, Decide, Answer, AtomicTypes
  <2> QED BY <2>1, <2>2, <2>3
<1>2. CASE Reserve(c)
  <2>1. booking' = [booking EXCEPT ![c] = "RESERVED"] /\ reply' = [reply EXCEPT ![c] = "reserved"]
    BY <1>2 DEF Reserve, Decide, Answer
  <2>2. Active' = Active \cup {c}
    BY <1>0, <2>1 DEF Active, AtomicTypes
  <2> QED BY <1>0, <1>2, <2>1, <2>2 DEF AtomicTypes
<1>3. CASE Return(c)
  <2>1. /\ due[c] # {} /\ Pending(c) /\ \E a \in {"nothing", "released"} :
                                             reply' = [reply EXCEPT ![c] = a]
        /\ booking' = [d \in Calls |-> IF d \in due[c] \cap Active THEN "RELEASED" ELSE booking[d]]
    BY <1>3 DEF Return, Answer
  <2>2. c[2] = "release" /\ \A d \in due[c] : req[d].ref = req[c].ref
    BY <1>0, <2>1 DEF MessageInv, Busy
  <2>3. req[c].ref = Key[c[1]]
    BY <1>0, Sent
  <2>4. \A d \in Active : d \notin due[c] => d \in Active'
    BY <2>1 DEF Active
  <2>5. \A d \in Active' : d \in Active
    BY <2>1 DEF Active
  <2> QED BY <1>0, <2>1, <2>2, <2>3, <2>4, <2>5 DEF AtomicTypes
<1> QED BY <1>1, <1>2, <1>3 DEF Works, Serve

LEMMA SendBookings ==
    ASSUME BaseInv, NEW r \in HttpRequests, NEW op \in {"reserve", "release"},
           NEW n \in 1 .. MaxAttempts, Send(r, op, n)
    PROVE  Active' = Active /\ \A d \in Active : req'[d] = req[d]
<1>1. /\ req[<<r, op, n>>] = NoRequest /\ req' = [req EXCEPT ![<<r, op, n>>] = Message(r, op)]
      /\ UNCHANGED booking
  BY SendEffect DEF BaseInv, AtomicInv
<1>2. \A d \in Active : d \in Calls /\ req[d] # NoRequest
  BY Bookings
<1> QED BY <1>1, <1>2 DEF BaseInv, AtomicInv, AtomicTypes, Active

LEMMA NextOnce ==
    ASSUME SamePayload, BaseInv, Once, [SagaNext]_sagaVars
    PROVE  Once'
<1>1. ASSUME NEW r \in HttpRequests, NEW op \in {"reserve", "release"},
             NEW n \in 1 .. MaxAttempts, Send(r, op, n)
      PROVE  Once'
  BY <1>1, SendBookings DEF Once
<1>2. ASSUME NEW c \in Calls, Works(c)
      PROVE  Once'
  <2>1. UNCHANGED req /\ req[c] # NoRequest
    BY <1>2, WorkEffect
  <2>2. ASSUME NEW d \in Active, Reserve(c)
        PROVE  req[d].ref # req[c].ref
    <3> SUFFICES ASSUME req[d].ref = req[c].ref
                 PROVE  FALSE
      OBVIOUS
    <3>1. /\ req[d].ref = Key[d[1]] /\ req[d].key = Key[d[1]] /\ d[1] \in HttpRequests
          /\ req[d].items = Items[d[1]]
      BY Bookings
    <3>2. c[2] = "reserve"
      BY <2>2 DEF Reserve, Decide, BaseInv, MessageInv, Busy
    <3>3. /\ req[c].ref = Key[c[1]] /\ req[c].key = Key[c[1]] /\ c[1] \in HttpRequests
          /\ req[c].items = Items[c[1]]
      BY <2>1, <3>2, Sent, CallParts DEF BaseInv
    <3>4. req[c].items = req[d].items
      BY <3>1, <3>3 DEF SamePayload
    <3>5. req[c].items \in Seq(Item) /\ req[c].items # <<>> /\ req[c].key # NoKey
      BY <3>3, Messages
    <3>6. 1 \in DOMAIN req[c].items
      BY <3>5, LenProperties, EmptySeq
    <3>7. SameKey(c, d) /\ SharesProduct(c, d)
      BY <3>1, <3>3, <3>4, <3>5, <3>6 DEF SameKey, SharesProduct, Lines
    <3> QED BY <2>2, <3>7 DEF Reserve, Collides
  <2>3. \A d \in Active' : d \in Active \/ (d = c /\ Reserve(c))
    BY <1>2, WorkBookings
  <2> QED BY <2>1, <2>2, <2>3 DEF Once
<1>3. CASE UNCHANGED atomicVars
  BY <1>3 DEF atomicVars, Active, Once
<1> QED BY <1>1, <1>2, <1>3, InventoryStep DEF BaseInv

\* ReserveOnce: whoever retries, and however late an attempt is executed,
\* inventory holds at most one booking for an order, as long as a key is not
\* sent again with other items.
THEOREM ReserveOnceCorrect == SamePayload /\ SagaSpec => []ReserveOnce
<1> SUFFICES ASSUME SamePayload
             PROVE  SagaSpec => []ReserveOnce
  OBVIOUS
<1>1. SagaInit => BaseInv /\ Once
  BY InitBase DEF SagaInit, AtomicInit, Once, Active
<1>2. BaseInv /\ Once /\ [SagaNext]_sagaVars => (BaseInv /\ Once)'
  BY NextBase, NextOnce
<1>3. BaseInv /\ Once => ReserveOnce
  <2> SUFFICES ASSUME BaseInv, Once, NEW k \in Keys
               PROVE  Cardinality(Holding(k)) <= 1
    BY DEF ReserveOnce
  <2>1. \A c, d \in Holding(k) : c = d
    BY DEF Once, Holding
  <2>2. Holding(k) = {} \/ \E d : Holding(k) = {d}
    BY <2>1
  <2>3. CASE Holding(k) = {}
    BY <2>3, FS_EmptySet
  <2>4. ASSUME NEW d, Holding(k) = {d}
        PROVE  Cardinality(Holding(k)) <= 1
    <3>1. Cardinality({d}) = 1
      BY FS_Singleton
    <3> QED BY <2>4, <3>1
  <2> QED BY <2>2, <2>3, <2>4
<1> QED BY <1>1, <1>2, <1>3, PTL DEF SagaSpec

-----------------------------------------------------------------------------
(* A careful deployment.                                                   *)

LEMMA InitCare == SagaInit => CareInv
<1> SUFFICES ASSUME SagaInit
             PROVE  CareInv
  OBVIOUS
<1>1. (\A r \in HttpRequests : at[r] = "new") /\ (\A k \in Keys : ~Exists(k))
      /\ \A c \in Calls : ~Pending(c)
  BY DEF SagaInit, AtomicInit, Exists, Pending
<1>2. Single /\ NoRowYet /\ ReleaseInv /\ HoldInv
  BY <1>1 DEF Single, InFlight, NoRowYet, ReleaseInv, HoldInv
<1>3. Backed
  BY <1>1 DEF Backed
<1> QED BY <1>2, <1>3 DEF CareInv

\* What is held for an order stays held.
LEMMA HeldStays ==
    ASSUME NEW k, NEW items, HeldFor(k, items),
           \A d \in Active : req[d].ref = k => d \in Active' /\ req'[d] = req[d]
    PROVE  HeldFor(k, items)'
BY DEF HeldFor, Holding

\* A handler that waits has its own call, and no release of it is left over.
LEMMA SendCare ==
    ASSUME Careful, BaseInv, CareInv, NEW r \in HttpRequests, Sends(r)
    PROVE  CareInv'
<1>0. /\ HandlerTypes /\ AtomicTypes /\ MessageInv
      /\ Single /\ NoRowYet /\ ReleaseInv /\ HoldInv /\ Backed
  BY DEF BaseInv, AtomicInv, CareInv
<1>1. PICK op \in {"reserve", "release"}, n \in 1 .. MaxAttempts :
             /\ Send(r, op, n) /\ UNCHANGED orders
             /\ \/ op = "reserve" /\ MayStart(r) /\ ~Exists(Key[r])
                \/ op = "release" /\ at[r] = "persist"
                \/ op = at[r] /\ Unavailable(r)
  BY <1>0, SendStep DEF Careful, Persists
<1> DEFINE c == <<r, op, n>>
<1>2. /\ c \in Calls /\ req[c] = NoRequest /\ c[1] = r /\ c[2] = op /\ c[3] = n
      /\ req' = [req EXCEPT ![c] = Message(r, op)]
      /\ UNCHANGED <<booking, reply, orders>>
      /\ at' = [at EXCEPT ![r] = op] /\ attempt' = [attempt EXCEPT ![r] = n]
  BY <1>0, <1>1, SendEffect
<1>3. reply[c] = "none"
  BY <1>0, <1>2 DEF MessageInv, Carries
<1> HIDE DEF c
<1>4. Active' = Active /\ \A d \in Active : req'[d] = req[d]
  BY <1>1, SendBookings
<1>5. at'[r] = op /\ attempt'[r] = n
      /\ \A s \in HttpRequests : s # r => at'[s] = at[s] /\ attempt'[s] = attempt[s]
  BY <1>0, <1>2 DEF HandlerTypes
<1>6. InFlight(r) \/ ~\E s \in HttpRequests : Key[s] = Key[r] /\ InFlight(s)
  BY <1>1 DEF MayStart, Careful, InFlight, Unavailable, Waiting
<1>7. Single'
  BY <1>0, <1>5, <1>6 DEF Single, InFlight
<1>8. NoRowYet'
  <2>1. ~Exists(Key[r])
    BY <1>0, <1>1 DEF NoRowYet, Unavailable, Waiting
  <2> QED BY <1>0, <1>2, <1>5, <2>1 DEF NoRowYet, Exists
<1>9. ReleaseInv'
  <2>1. ASSUME NEW d \in Calls, Pending(d)', d[2] = "release", d # c
        PROVE  at'[d[1]] = "release" /\ attempt'[d[1]] = d[3]
    <3>1. Pending(d)
      BY <1>0, <1>2, <2>1 DEF Pending, AtomicTypes
    <3>2. at[d[1]] = "release" /\ attempt[d[1]] = d[3]
      BY <1>0, <2>1, <3>1 DEF ReleaseInv
    <3>3. d[1] # r
      <4> SUFFICES ASSUME d[1] = r
                   PROVE  FALSE
        OBVIOUS
      <4>1. Unavailable(r) /\ at[r] = "release"
        BY <1>1, <3>2 DEF MayStart
      <4>2. Answered(r) # "none"
        BY <4>1 DEF Unavailable, MayAbandon, Careful
      <4>3. d = <<r, at[r], attempt[r]>>
        BY <2>1, <3>2, CallParts
      <4> QED BY <3>1, <4>2, <4>3 DEF Pending, Answered
    <3> QED BY <1>5, <3>2, <3>3, CallParts
  <2> QED BY <1>2, <1>5, <2>1 DEF ReleaseInv
<1>10. HoldInv'
  <2>1. ASSUME NEW s \in HttpRequests,
               at'[s] = "persist" \/ (at'[s] = "reserve" /\ Success(Answered(s))')
        PROVE  HeldFor(Key[s], Items[s])'
    <3>1. s # r
      BY <1>2, <1>3, <1>5, <2>1 DEF Answered, Success, c
    <3>2. at'[s] = at[s] /\ Answered(s)' = Answered(s)
      BY <1>2, <1>5, <3>1 DEF Answered
    <3>3. Success(Answered(s))' = Success(Answered(s))
      BY <3>2 DEF Success
    <3>4. HeldFor(Key[s], Items[s])
      BY <1>0, <2>1, <3>2, <3>3 DEF HoldInv
    <3> QED BY <1>4, <3>4, HeldStays
  <2> QED BY <2>1 DEF HoldInv
<1>11. Backed'
  BY <1>0, <1>2, <1>4 DEF Backed, Exists, Holding
<1> QED BY <1>7, <1>8, <1>9, <1>10, <1>11 DEF CareInv

\* No release of a handler is pending that may give its attempt up.
LEMMA NoLateRelease ==
    ASSUME Careful, BaseInv, CareInv, NEW c \in Calls, Pending(c), c[2] = "release",
           Waiting(c[1]) => MayAbandon(c[1])
    PROVE  FALSE
<1>1. at[c[1]] = "release" /\ attempt[c[1]] = c[3] /\ c = <<c[1], c[2], c[3]>>
  BY CallParts DEF CareInv, ReleaseInv
<1>2. Answered(c[1]) # "none"
  BY <1>1 DEF Waiting, MayAbandon, Careful
<1> QED BY <1>1, <1>2 DEF Answered, Pending

\* Handlers that end leave the rest as it is.
LEMMA DoneCare ==
    ASSUME Careful, BaseInv, CareInv, UNCHANGED <<atomicVars, orders, attempt>>,
           \A r \in HttpRequests :
               at'[r] = at[r] \/ (at'[r] = "done" /\ (Waiting(r) => MayAbandon(r)))
    PROVE  CareInv'
<1>0. Single /\ NoRowYet /\ ReleaseInv /\ HoldInv /\ Backed
  BY DEF CareInv
<1>1. Single'
  BY <1>0 DEF Single, InFlight
<1>2. NoRowYet'
  BY <1>0 DEF NoRowYet, Exists
<1>3. ReleaseInv'
  <2> SUFFICES ASSUME NEW c \in Calls, Pending(c)', c[2] = "release"
               PROVE  at'[c[1]] = "release" /\ attempt'[c[1]] = c[3]
    BY DEF ReleaseInv
  <2>1. Pending(c) /\ c[1] \in HttpRequests
    BY CallParts DEF atomicVars, Pending
  <2>2. at[c[1]] = "release" /\ attempt[c[1]] = c[3]
    BY <1>0, <2>1 DEF ReleaseInv
  <2>3. ~(Waiting(c[1]) => MayAbandon(c[1]))
    BY <2>1, NoLateRelease
  <2> QED BY <2>1, <2>2, <2>3
<1>4. HoldInv'
  <2> SUFFICES ASSUME NEW r \in HttpRequests,
                      at'[r] = "persist" \/ (at'[r] = "reserve" /\ Success(Answered(r))')
               PROVE  HeldFor(Key[r], Items[r])'
    BY DEF HoldInv
  <2>1. at'[r] = at[r] /\ Answered(r)' = Answered(r)
    BY DEF Answered, atomicVars
  <2>2. HeldFor(Key[r], Items[r])
    BY <1>0, <2>1 DEF HoldInv, Success
  <2> QED BY <2>2, HeldStays DEF atomicVars, Active
<1>5. Backed'
  BY <1>0 DEF Backed, Exists, Holding, Active, atomicVars
<1> QED BY <1>1, <1>2, <1>3, <1>4, <1>5 DEF CareInv

LEMMA ReservedCare ==
    ASSUME BaseInv, CareInv, NEW r \in HttpRequests, Reserved(r)
    PROVE  CareInv'
<1>0. Single /\ NoRowYet /\ ReleaseInv /\ HoldInv /\ Backed /\ HandlerTypes
  BY DEF CareInv, BaseInv
<1>1. /\ at[r] = "reserve" /\ Success(Answered(r)) /\ UNCHANGED <<atomicVars, orders, attempt>>
      /\ at'[r] = "persist" /\ \A s \in HttpRequests : s # r => at'[s] = at[s]
  BY <1>0 DEF Reserved, HandlerTypes
<1>2. Single'
  BY <1>0, <1>1 DEF Single, InFlight
<1>3. NoRowYet'
  BY <1>0, <1>1 DEF NoRowYet, Exists
<1>4. ReleaseInv'
  BY <1>0, <1>1, CallParts DEF ReleaseInv, Pending, atomicVars
<1>5. HoldInv'
  <2> SUFFICES ASSUME NEW s \in HttpRequests,
                      at'[s] = "persist" \/ (at'[s] = "reserve" /\ Success(Answered(s))')
               PROVE  HeldFor(Key[s], Items[s])'
    BY DEF HoldInv
  <2>1. HeldFor(Key[s], Items[s])
    <3>1. CASE s = r
      BY <1>0, <1>1, <3>1 DEF HoldInv
    <3>2. CASE s # r
      BY <1>0, <1>1, <3>2 DEF HoldInv, Success, Answered, atomicVars
    <3> QED BY <3>1, <3>2
  <2> QED BY <1>1, <2>1, HeldStays DEF atomicVars, Active
<1>6. Backed'
  BY <1>0, <1>1 DEF Backed, Exists, Holding, Active, atomicVars
<1> QED BY <1>2, <1>3, <1>4, <1>5, <1>6 DEF CareInv

LEMMA CommitCare ==
    ASSUME BaseInv, CareInv, NEW r \in HttpRequests, Commit(r)
    PROVE  CareInv'
<1>0. Single /\ NoRowYet /\ ReleaseInv /\ HoldInv /\ Backed /\ HandlerTypes
  BY DEF CareInv, BaseInv
<1>1. /\ at[r] = "persist" /\ orders' = [orders EXCEPT ![Key[r]] = Items[r]]
      /\ UNCHANGED <<atomicVars, attempt>>
      /\ at'[r] = "refresh" /\ \A s \in HttpRequests : s # r => at'[s] = at[s]
  BY <1>0 DEF Commit, HandlerTypes
<1>2. Single'
  BY <1>0, <1>1 DEF Single, InFlight
<1>3. NoRowYet'
  <2> SUFFICES ASSUME NEW s \in HttpRequests, at'[s] \in {"reserve", "persist", "release"}
               PROVE  ~Exists(Key[s])'
    BY DEF NoRowYet
  <2>1. s # r /\ at'[s] = at[s]
    BY <1>1
  <2>2. Key[s] # Key[r]
    BY <1>0, <1>1, <2>1 DEF Single, InFlight
  <2> QED BY <1>0, <1>1, <2>1, <2>2 DEF NoRowYet, Exists, HandlerTypes
<1>4. ReleaseInv'
  BY <1>0, <1>1, CallParts DEF ReleaseInv, Pending, atomicVars
<1>5. HoldInv'
  <2> SUFFICES ASSUME NEW s \in HttpRequests,
                      at'[s] = "persist" \/ (at'[s] = "reserve" /\ Success(Answered(s))')
               PROVE  HeldFor(Key[s], Items[s])'
    BY DEF HoldInv
  <2>1. HeldFor(Key[s], Items[s])
    BY <1>0, <1>1 DEF HoldInv, Success, Answered, atomicVars
  <2> QED BY <1>1, <2>1, HeldStays DEF atomicVars, Active
<1>6. Backed'
  <2> SUFFICES ASSUME NEW k \in Keys, orders'[k] # NoOrder
               PROVE  \E c \in Holding(k) : req[c].items = orders'[k]
    BY <1>1 DEF Backed, Exists, Holding, Active, atomicVars
  <2>1. CASE k = Key[r]
    <3>1. HeldFor(Key[r], Items[r]) /\ orders'[k] = Items[r]
      BY <1>0, <1>1, <2>1 DEF HoldInv, HandlerTypes
    <3> QED BY <2>1, <3>1 DEF HeldFor
  <2>2. CASE k # Key[r]
    BY <1>0, <1>1, <2>2 DEF Backed, Exists, HandlerTypes
  <2> QED BY <2>1, <2>2
<1> QED BY <1>2, <1>3, <1>4, <1>5, <1>6 DEF CareInv

\* Work on a call gives no booking back that a handler or an order relies on.
LEMMA WorkCare ==
    ASSUME SamePayload, BaseInv, CareInv, NEW c \in Calls, Works(c)
    PROVE  CareInv'
<1>0. /\ Single /\ NoRowYet /\ ReleaseInv /\ HoldInv /\ Backed
      /\ HandlerTypes /\ MessageInv /\ AtomicInv
  BY DEF CareInv, BaseInv
<1>1. UNCHANGED <<req, orders, at, attempt>> /\ req[c] # NoRequest /\ reply[c] = "none"
      /\ \A d \in Calls : d # c => reply'[d] = reply[d]
  BY WorkEffect DEF Works
<1>2. Single'
  BY <1>0, <1>1 DEF Single, InFlight
<1>3. NoRowYet'
  BY <1>0, <1>1 DEF NoRowYet, Exists
<1>4. ReleaseInv'
  BY <1>0, <1>1 DEF ReleaseInv, Pending
<1>5. ASSUME NEW d \in Active, d \notin Active'
      PROVE  c[1] \in HttpRequests /\ at[c[1]] = "release" /\ req[d].ref = Key[c[1]]
  BY <1>0, <1>5, WorkBookings, CallParts DEF ReleaseInv
<1>6. ASSUME NEW r \in HttpRequests, at[r] \in {"reserve", "persist"}
      PROVE  \A d \in Active : req[d].ref = Key[r] => d \in Active' /\ req'[d] = req[d]
  <2> SUFFICES ASSUME NEW d \in Active, req[d].ref = Key[r], d \notin Active'
               PROVE  FALSE
    BY <1>1
  <2> QED BY <1>0, <1>5, <1>6 DEF Single, InFlight
<1>7. HoldInv'
  <2> SUFFICES ASSUME NEW r \in HttpRequests,
                      at[r] = "persist" \/ (at[r] = "reserve" /\ Success(Answered(r))')
               PROVE  HeldFor(Key[r], Items[r])'
    BY <1>1 DEF HoldInv
  <2>1. CASE HeldFor(Key[r], Items[r])
    BY <1>6, <2>1, HeldStays
  <2>2. CASE at[r] = "reserve" /\ Success(Answered(r))' /\ ~Success(Answered(r))
    <3>1. c = <<r, "reserve", attempt[r]>> /\ Success(reply'[c])
      <4>1. attempt'[r] = attempt[r] /\ at'[r] = "reserve"
        BY <1>1, <2>2
      <4>2. reply'[<<r, "reserve", attempt[r]>>] # reply[<<r, "reserve", attempt[r]>>]
        BY <2>2, <4>1 DEF Answered, Success
      <4>3. <<r, "reserve", attempt[r]>> \in Calls
        <5>1. attempt[r] \in 1 .. MaxAttempts
          BY <1>0, <2>2, SagaAssumption DEF HandlerTypes
        <5> QED BY <5>1, CallParts
      <4> QED BY <1>1, <2>2, <4>1, <4>2, <4>3 DEF Answered, Success
    <3>2. req[c].ref = Key[r] /\ req[c].key = Key[r] /\ req[c].items = Items[r]
      BY <1>0, <1>1, <3>1, Sent
    <3>3. CASE reply'[c] = "reserved"
      BY <1>1, <3>2, <3>3, WorkBookings DEF HeldFor, Holding
    <3>4. CASE reply'[c] = "replayed"
      <4>1. PICK d \in Active : SameKey(c, d) /\ Active' = Active
        BY <3>4, WorkBookings
      <4>2. req[d].ref = Key[r] /\ req[d].items = Items[r]
        BY <3>2, <4>1, Bookings DEF SameKey, SamePayload
      <4> QED BY <1>1, <4>1, <4>2 DEF HeldFor, Holding
    <3> QED BY <3>1, <3>3, <3>4 DEF Success
  <2> QED BY <1>0, <2>1, <2>2 DEF HoldInv
<1>8. Backed'
  <2> SUFFICES ASSUME NEW k \in Keys, Exists(k)
               PROVE  HeldFor(k, orders[k])'
    BY <1>1 DEF Backed, Exists, HeldFor
  <2>1. HeldFor(k, orders[k])
    BY <1>0 DEF Backed, HeldFor
  <2>2. ASSUME NEW d \in Active, req[d].ref = k, d \notin Active'
        PROVE  FALSE
    BY <1>0, <1>5, <2>2 DEF NoRowYet
  <2>3. HeldFor(k, orders[k])' <=> \E e \in Active' : req[e].ref = k /\ req[e].items = orders[k]
    BY <1>1 DEF HeldFor, Holding
  <2> QED BY <2>1, <2>2, <2>3 DEF HeldFor, Holding
<1> QED BY <1>2, <1>3, <1>4, <1>7, <1>8 DEF CareInv

LEMMA NextCare ==
    ASSUME SamePayload, Careful, BaseInv, CareInv, [SagaNext]_sagaVars
    PROVE  CareInv'
<1>0. HandlerTypes
  BY DEF BaseInv
<1>1. ASSUME NEW r \in HttpRequests, Answers(r)
      PROVE  CareInv'
  <2>1. UNCHANGED <<atomicVars, orders, attempt>> /\ at' = [at EXCEPT ![r] = "done"]
        /\ (Waiting(r) => MayAbandon(r))
    BY <1>1, AnswerStep DEF Respond, Waiting
  <2> QED BY <1>0, <2>1, DoneCare DEF HandlerTypes
<1>2. CASE Crash
  BY <1>0, <1>2, DoneCare DEF Crash, InFlight, Waiting, HandlerTypes
<1>3. CASE UNCHANGED <<atomicVars, orders, at, attempt, result, outages>>
  BY <1>3, DoneCare
<1> QED BY <1>1, <1>2, <1>3, SagaSteps, SendCare, ReservedCare, CommitCare, WorkCare

\* Backed: in a careful deployment inventory holds an active booking for every
\* persisted order, through all retries and crashes.
THEOREM BackedCorrect == SamePayload /\ Careful /\ SagaSpec => []Backed
<1> SUFFICES ASSUME SamePayload, Careful
             PROVE  SagaSpec => []Backed
  OBVIOUS
<1>1. BaseInv /\ CareInv /\ [SagaNext]_sagaVars => (BaseInv /\ CareInv)'
  BY NextBase, NextCare
<1>2. BaseInv /\ CareInv => Backed
  BY DEF CareInv
<1> QED BY <1>1, <1>2, InitBase, InitCare, PTL DEF SagaSpec

\* Only the items of a request count.
LEMMA SameItems ==
    ASSUME NEW r, NEW s, r.items = s.items, NEW p
    PROVE  DemandUnits(r, p) = DemandUnits(s, p)
BY DEF DemandUnits, Lines

\* NeverOversold: in a careful deployment the persisted orders together ask for
\* no more than the stock there was.
THEOREM NeverOversoldCorrect == SamePayload /\ Careful /\ SagaSpec => []NeverOversold
<1> SUFFICES ASSUME SamePayload, Careful
             PROVE  SagaSpec => []NeverOversold
  OBVIOUS
<1>1. BaseInv /\ CareInv /\ [SagaNext]_sagaVars => (BaseInv /\ CareInv)'
  BY NextBase, NextCare
<1>2. BaseInv /\ CareInv => NeverOversold
  <2> SUFFICES ASSUME BaseInv, CareInv, NEW p \in Products
               PROVE  Cardinality(UNION {{k} \X DemandUnits([items |-> orders[k]], p) :
                                          k \in {j \in Keys : Exists(j)}}) <= InitialStock[p]
    BY DEF NeverOversold
  <2> DEFINE K == {j \in Keys : Exists(j)}
             S == UNION {{k} \X DemandUnits([items |-> orders[k]], p) : k \in K}
             T == BookedUnits(req, Active, p)
             b == [k \in K |-> CHOOSE c \in Holding(k) : req[c].items = orders[k]]
             f == [s \in S |-> <<b[s[1]], s[2]>>]
  <2>1. \A k \in K : /\ b[k] \in Active /\ req[b[k]].ref = k
                     /\ req[b[k]].items = orders[k]
    BY DEF CareInv, Backed, Holding
  <2>2. ASSUME NEW k \in K
        PROVE  DemandUnits(req[b[k]], p) = DemandUnits([items |-> orders[k]], p)
    <3>1. req[b[k]].items = orders[k] /\ [items |-> orders[k]].items = orders[k]
      BY <2>1
    <3> QED BY <3>1, SameItems
  <2>3. ASSUME NEW s \in S
        PROVE  /\ s[1] \in K /\ s = <<s[1], s[2]>>
               /\ s[2] \in DemandUnits([items |-> orders[s[1]]], p)
    <3>1. PICK k \in K : s \in {k} \X DemandUnits([items |-> orders[k]], p)
      BY DEF S
    <3> QED BY <3>1
  <2> HIDE DEF K, S, b
  <2>4. ASSUME NEW s \in S
        PROVE  f[s] \in T
    <3>1. s[1] \in K /\ s[2] \in DemandUnits(req[b[s[1]]], p)
      BY <2>2, <2>3
    <3>2. b[s[1]] \in Active
      BY <2>1, <3>1
    <3>3. <<b[s[1]], s[2]>> \in {b[s[1]]} \X DemandUnits(req[b[s[1]]], p)
      BY <3>1
    <3> QED BY <3>2, <3>3 DEF BookedUnits
  <2>5. ASSUME NEW s \in S, NEW t \in S, f[s] = f[t]
        PROVE  s = t
    <3>1. b[s[1]] = b[t[1]] /\ s[2] = t[2]
      BY <2>5
    <3>2. s[1] \in K /\ t[1] \in K /\ s = <<s[1], s[2]>> /\ t = <<t[1], t[2]>>
      BY <2>3
    <3>3. req[b[s[1]]].ref = s[1] /\ req[b[t[1]]].ref = t[1]
      BY <2>1, <3>2
    <3> QED BY <3>1, <3>2, <3>3
  <2>6. f \in Injection(S, T)
    <3>1. f \in [S -> T]
      BY <2>4
    <3> HIDE DEF f
    <3> QED BY <2>5, <3>1 DEF Injection, IsInjective
  <2>7. /\ IsFiniteSet(T) /\ Booked(req, Active, p) = Cardinality(T)
        /\ Booked(req, Active, p) \in Nat
    BY ActiveTyped, BookedFinite DEF BaseInv, AtomicInv, SumInv, Booked
  <2>8. /\ stock[p] + Booked(req, Active, p) = InitialStock[p]
        /\ stock[p] \in Nat
    BY DEF BaseInv, AtomicInv, AtomicTypes, SumInv
  <2> HIDE DEF T, f
  <2>9. IsFiniteSet(S) /\ Cardinality(S) <= Cardinality(T)
    BY <2>6, <2>7, FS_Injection
  <2>10. Cardinality(S) \in Nat /\ InitialStock[p] \in Nat
    BY <2>9, FS_CardinalityType, StockAssumption
  <2>11. Cardinality(S) <= InitialStock[p]
    BY <2>7, <2>8, <2>9, <2>10
  <2> QED BY <2>11 DEF S, K
<1> QED BY <1>1, <1>2, InitBase, InitCare, PTL DEF SagaSpec

-----------------------------------------------------------------------------
(* A deployment that settles.                                              *)

LEMMA InitSettle == SagaInit => SettleInv
<1> SUFFICES ASSUME SagaInit
             PROVE  SettleInv
  OBVIOUS
<1>1. /\ \A r \in HttpRequests : at[r] = "new"
      /\ \A c \in Calls : ~Pending(c) /\ ~checked[c]
      /\ Active = {}
  BY DEF SagaInit, AtomicInit, Pending, Active
<1>2. Single /\ CurrentInv /\ OutageInv /\ EmptyInv /\ RefreshInv
  BY <1>1 DEF Single, InFlight, CurrentInv, OutageInv, Waiting, EmptyInv, RefreshInv
<1>3. AloneInv /\ OwnedInv
  BY <1>1 DEF AloneInv, OwnedInv, Holding
<1> QED BY <1>2, <1>3 DEF SettleInv

\* A handler that has its answer has no call that inventory still works on.
LEMMA NotPending ==
    ASSUME CurrentInv, NEW c \in Calls, Waiting(c[1]) => Answered(c[1]) # "none"
    PROVE  ~Pending(c)
<1> SUFFICES ASSUME Pending(c)
             PROVE  FALSE
  OBVIOUS
<1>1. at[c[1]] = c[2] /\ attempt[c[1]] = c[3] /\ c = <<c[1], c[2], c[3]>>
      /\ c[2] \in {"reserve", "release"}
  BY CallParts DEF CurrentInv
<1> QED BY <1>1 DEF Waiting, Answered, Pending

LEMMA SendSettle ==
    ASSUME Settling, BaseInv, SettleInv, NEW r \in HttpRequests, Sends(r)
    PROVE  SettleInv'
<1>0. /\ HandlerTypes /\ AtomicTypes /\ MessageInv
      /\ Single /\ CurrentInv /\ OutageInv /\ AloneInv /\ EmptyInv /\ OwnedInv /\ RefreshInv
  BY DEF BaseInv, AtomicInv, SettleInv
<1>1. PICK op \in {"reserve", "release"}, n \in 1 .. MaxAttempts :
             /\ Send(r, op, n)
             /\ UNCHANGED orders \/ Persists(r)
             /\ \/ op = "reserve" /\ n = 1 /\ MayStart(r) /\ UNCHANGED outages
                \/ /\ op = "release" /\ n = 1 /\ at[r] \in {"persist", "refresh"}
                   /\ UNCHANGED outages
                \/ op = at[r] /\ n = attempt[r] + 1 /\ Unavailable(r)
  BY <1>0, SendStep
<1> DEFINE c == <<r, op, n>>
<1>2. /\ c \in Calls /\ req[c] = NoRequest /\ c[1] = r /\ c[2] = op /\ c[3] = n
      /\ req' = [req EXCEPT ![c] = Message(r, op)]
      /\ UNCHANGED <<booking, checked, due, reply>>
      /\ \A k \in Keys : Exists(k) => Exists(k)'
      /\ at' = [at EXCEPT ![r] = op] /\ attempt' = [attempt EXCEPT ![r] = n]
  <2>1. \A k \in Keys : Exists(k) => Exists(k)'
    BY <1>0, <1>1, SagaAssumption DEF Persists, Exists, HandlerTypes
  <2> QED BY <1>0, <1>1, <2>1, SendEffect
<1>3. reply[c] = "none" /\ ~Pending(c) /\ due[c] = {}
  BY <1>0, <1>2 DEF MessageInv, Carries, Busy, Pending
<1>4. Answered(r)' = "none"
  BY <1>0, <1>2, <1>3 DEF Answered, HandlerTypes
<1> HIDE DEF c
<1>5. Active' = Active /\ \A d \in Active : req'[d] = req[d]
  BY <1>1, SendBookings
<1>6. \A k : Holding(k)' = Holding(k)
  BY <1>5 DEF Holding
<1>7. /\ at'[r] = op /\ attempt'[r] = n
      /\ \A s \in HttpRequests : s # r => at'[s] = at[s] /\ attempt'[s] = attempt[s]
                                        /\ Answered(s)' = Answered(s)
  BY <1>0, <1>2 DEF HandlerTypes, Answered
<1>8. \A d \in Calls : d # c => Pending(d)' = Pending(d)
  BY <1>0, <1>2 DEF Pending, AtomicTypes
<1>9. \A d \in Calls : Pending(d) => d[1] # r
  BY <1>0, <1>1, NotPending DEF MayStart, Waiting, Unavailable, MayAbandon, Settling
<1>10. Single'
  <2>1. InFlight(r) \/ ~\E s \in HttpRequests : Key[s] = Key[r] /\ InFlight(s)
    BY <1>1 DEF MayStart, Settling, InFlight, Unavailable, Waiting
  <2> QED BY <1>0, <1>7, <2>1 DEF Single, InFlight
<1>11. CurrentInv'
  BY <1>0, <1>2, <1>7, <1>8, <1>9, CallParts DEF CurrentInv
<1>12. OutageInv'
  <2>1. outages' >= outages /\ n <= outages' + 1 /\ outages \in Nat /\ outages' \in Nat
    <3>1. outages \in Nat /\ attempt[r] \in Nat
      BY <1>0, SagaAssumption DEF HandlerTypes
    <3>2. CASE n = 1 /\ UNCHANGED outages
      BY <3>1, <3>2
    <3>3. CASE n = attempt[r] + 1 /\ Unavailable(r)
      BY <1>0, <3>1, <3>3 DEF Unavailable, OutageInv
    <3> QED BY <1>1, <3>2, <3>3
  <2>2. ASSUME NEW s \in HttpRequests, s # r, Waiting(s)'
        PROVE  /\ attempt'[s] <= outages' + 1
               /\ Answered(s)' = "failed" => attempt'[s] <= outages'
    <3>1. /\ attempt'[s] = attempt[s] /\ attempt[s] \in Nat /\ Answered(s)' = Answered(s)
          /\ Waiting(s)
      BY <1>0, <1>7, <2>2, SagaAssumption DEF HandlerTypes, Waiting
    <3>2. attempt[s] <= outages + 1 /\ (Answered(s) = "failed" => attempt[s] <= outages)
      BY <1>0, <3>1 DEF OutageInv
    <3> QED BY <2>1, <3>1, <3>2
  <2> QED BY <1>4, <1>7, <2>1, <2>2 DEF OutageInv
<1>13. AloneInv'
  BY <1>0, <1>2, <1>3, <1>6, <1>8 DEF AloneInv
<1>14. EmptyInv'
  BY <1>0, <1>4, <1>6, <1>7 DEF EmptyInv
<1>15. OwnedInv'
  BY <1>0, <1>2, <1>6, <1>7 DEF OwnedInv, InFlight
<1>16. RefreshInv'
  BY <1>0, <1>2, <1>7, SagaAssumption DEF RefreshInv
<1> QED BY <1>10, <1>11, <1>12, <1>13, <1>14, <1>15, <1>16 DEF SettleInv

\* Handlers that go on without inventory or the order table: they have their
\* answer, and leave nothing behind when they are done.
LEMMA MoveSettle ==
    ASSUME BaseInv, SettleInv, UNCHANGED <<atomicVars, orders, attempt, outages>>,
           \A r \in HttpRequests :
               \/ at'[r] = at[r]
               \/ /\ Waiting(r) => Answered(r) # "none"
                  /\ \/ at'[r] = "persist" /\ InFlight(r)
                     \/ at'[r] = "done" /\ (Exists(Key[r]) \/ Holding(Key[r]) = {})
    PROVE  SettleInv'
<1>0. /\ HandlerTypes
      /\ Single /\ CurrentInv /\ OutageInv /\ AloneInv /\ EmptyInv /\ OwnedInv /\ RefreshInv
  BY DEF BaseInv, SettleInv
<1>1. /\ \A c \in Calls : Pending(c)' = Pending(c)
      /\ \A k : Holding(k)' = Holding(k) /\ Exists(k)' = Exists(k)
  BY DEF atomicVars, Pending, Holding, Active, Exists
<1>2. \A r \in HttpRequests : at'[r] = at[r] => Answered(r)' = Answered(r)
  BY DEF atomicVars, Answered
<1>3. Single'
  BY <1>0 DEF Single, InFlight
<1>4. CurrentInv'
  <2> SUFFICES ASSUME NEW c \in Calls, Pending(c)
               PROVE  at'[c[1]] = c[2] /\ attempt'[c[1]] = c[3]
    BY <1>1 DEF CurrentInv
  <2>1. c[1] \in HttpRequests /\ at'[c[1]] = at[c[1]]
    BY <1>0, CallParts, NotPending
  <2> QED BY <1>0, <2>1 DEF CurrentInv
<1>5. OutageInv'
  BY <1>0, <1>2 DEF OutageInv, Waiting
<1>6. AloneInv'
  BY <1>0, <1>1 DEF AloneInv, atomicVars
<1>7. EmptyInv'
  BY <1>0, <1>1, <1>2 DEF EmptyInv
<1>8. OwnedInv'
  BY <1>0, <1>1 DEF OwnedInv, InFlight
<1>9. RefreshInv'
  BY <1>0, <1>1 DEF RefreshInv
<1> QED BY <1>3, <1>4, <1>5, <1>6, <1>7, <1>8, <1>9 DEF SettleInv

\* No RPC fails as a whole where outages are too few for it: an answer is given
\* for an order that exists, or when nothing is held for it.
LEMMA AnswerFreed ==
    ASSUME Settling, BaseInv, SettleInv, NEW r \in HttpRequests, Answers(r)
    PROVE  \E status :
             /\ Respond(r, status) /\ UNCHANGED outages
             /\ Waiting(r) => Answered(r) # "none"
             /\ (status = "201" /\ Exists(Key[r])) \/ Holding(Key[r]) = {}
<1>0. HandlerTypes /\ OutageInv /\ EmptyInv /\ RefreshInv
  BY DEF BaseInv, SettleInv
<1>1. ~GiveUp(r)
  <2> SUFFICES ASSUME GiveUp(r)
               PROVE  FALSE
    OBVIOUS
  <2>1. attempt[r] = MaxAttempts /\ Unavailable(r) /\ Waiting(r)
    BY DEF GiveUp, Unavailable
  <2>2. outages \in 0 .. MaxOutages /\ MaxOutages \in Nat /\ MaxAttempts \in Nat
    BY <1>0, SagaAssumption DEF HandlerTypes
  <2> QED BY <1>0, <2>1, <2>2 DEF OutageInv, Unavailable, Settling
<1>2. ~DeadlineExceeded(r) /\ ~ServerError(r)
  BY DEF Settling, DeadlineExceeded, ServerError
<1>3. CASE ReturnExisting(r)
  BY <1>3 DEF ReturnExisting, MayStart, Found, Waiting
<1>4. CASE Refused(r)
  BY <1>0, <1>4 DEF Refused, EmptyInv
<1>5. CASE Refresh(r)
  BY <1>0, <1>5 DEF Refresh, RefreshInv, Waiting
<1>6. CASE Released(r)
  BY <1>0, <1>6 DEF Released, ReleaseAnswer, EmptyInv
<1> QED BY <1>1, <1>2, <1>3, <1>4, <1>5, <1>6 DEF Answers

LEMMA AnswerSettle ==
    ASSUME Settling, BaseInv, SettleInv, NEW r \in HttpRequests, Answers(r)
    PROVE  SettleInv'
<1>1. PICK status :
             /\ Respond(r, status) /\ UNCHANGED outages
             /\ Waiting(r) => Answered(r) # "none"
             /\ (status = "201" /\ Exists(Key[r])) \/ Holding(Key[r]) = {}
  BY AnswerFreed
<1> QED BY <1>1, MoveSettle DEF Respond, BaseInv, HandlerTypes

LEMMA CommitSettle ==
    ASSUME BaseInv, SettleInv, NEW r \in HttpRequests, Commit(r)
    PROVE  SettleInv'
<1>0. /\ HandlerTypes
      /\ Single /\ CurrentInv /\ OutageInv /\ AloneInv /\ EmptyInv /\ OwnedInv /\ RefreshInv
  BY DEF BaseInv, SettleInv
<1>1. /\ at[r] = "persist" /\ orders' = [orders EXCEPT ![Key[r]] = Items[r]]
      /\ UNCHANGED <<atomicVars, attempt, outages>>
      /\ at'[r] = "refresh" /\ \A s \in HttpRequests : s # r => at'[s] = at[s]
  BY <1>0 DEF Commit, HandlerTypes
<1>2. /\ \A c \in Calls : Pending(c)' = Pending(c)
      /\ \A k : Holding(k)' = Holding(k)
  BY <1>1 DEF atomicVars, Pending, Holding, Active
<1>3. Exists(Key[r])' /\ \A k \in Keys : Exists(k) => Exists(k)'
  BY <1>0, <1>1, SagaAssumption DEF Exists, HandlerTypes
<1>4. \A s \in HttpRequests : s # r => Answered(s)' = Answered(s)
  BY <1>1 DEF atomicVars, Answered
<1>5. Single' /\ RefreshInv'
  BY <1>0, <1>1, <1>3, SagaAssumption DEF Single, InFlight, RefreshInv
<1>6. CurrentInv' /\ AloneInv'
  BY <1>0, <1>1, <1>2, CallParts DEF CurrentInv, AloneInv, atomicVars
<1>7. OutageInv'
  BY <1>0, <1>1, <1>4 DEF OutageInv, Waiting
<1>8. EmptyInv' /\ OwnedInv'
  BY <1>0, <1>1, <1>2, <1>3, <1>4 DEF EmptyInv, OwnedInv, InFlight
<1> QED BY <1>5, <1>6, <1>7, <1>8 DEF SettleInv

\* What a call has found about its order stays true while it works, and is
\* what its answer says.
LEMMA WorkAlone ==
    ASSUME BaseInv, AloneInv, NEW c \in Calls, Works(c)
    PROVE  /\ checked'[c] => Pending(c)' /\ Holding(Key[c[1]])' = {}
           /\ Pending(c)' /\ due'[c] # {} => Holding(Key[c[1]])' \subseteq due'[c]
           /\ reply'[c] \in {"rejected", "duplicate", "nothing", "released"}
                 => Holding(Key[c[1]])' = {}
<1> DEFINE H == Holding(Key[c[1]])
<1>0. /\ AtomicTypes /\ MessageInv /\ UNCHANGED req /\ req[c] # NoRequest /\ reply[c] = "none"
      /\ checked[c] => H = {}
      /\ due[c] # {} => H \subseteq due[c]
  BY WorkEffect DEF BaseInv, AtomicInv, AloneInv, Pending
<1>1. /\ req[c].ref = Key[c[1]] /\ req[c].op = c[2]
      /\ c[2] = "reserve" => req[c].key = Key[c[1]] /\ Key[c[1]] # NoKey
      /\ checked[c] => c[2] = "reserve"
      /\ due[c] # {} => c[2] = "release"
  BY <1>0, Sent, Messages, CallParts DEF MessageInv, Busy
<1>2. CASE Replay(c)
  <2>1. ~checked'[c] /\ due' = due /\ reply'[c] = "replayed"
    BY <1>0, <1>2 DEF Replay, Answer, AtomicTypes
  <2> QED BY <2>1 DEF Pending
<1>3. CASE Miss(c)
  <2>1. /\ checked'[c] /\ UNCHANGED <<req, booking, due, reply>> /\ c[2] = "reserve"
        /\ ~\E d \in Active : SameKey(c, d)
    BY <1>0, <1>1, <1>3 DEF Miss, AtomicTypes
  <2>2. H = {}
    BY <1>1, <2>1, Bookings DEF Holding, SameKey
  <2>3. H' = H
    BY <2>1 DEF Holding, Active
  <2> QED BY <1>0, <1>1, <2>1, <2>2, <2>3 DEF Pending
<1>4. CASE Reserve(c)
  <2>1. ~checked'[c] /\ due' = due /\ reply'[c] = "reserved"
    BY <1>0, <1>4 DEF Reserve, Decide, Answer, AtomicTypes
  <2> QED BY <2>1 DEF Pending
<1>5. CASE Reject(c) \/ Collide(c)
  <2>1. ~checked'[c] /\ UNCHANGED <<req, booking>> /\ checked[c]
        /\ reply'[c] \in {"rejected", "duplicate"}
    BY <1>0, <1>5 DEF Reject, Collide, Decide, Answer, AtomicTypes
  <2>2. H' = H
    BY <2>1 DEF Holding, Active
  <2> QED BY <1>0, <2>1, <2>2 DEF Pending
<1>6. CASE Find(c)
  <2>1. /\ c[2] = "release" /\ UNCHANGED <<req, booking, checked>>
        /\ due'[c] = {d \in Active : req[d].ref = req[c].ref}
        /\ due'[c] # {} => UNCHANGED reply
    BY <1>0, <1>1, <1>6 DEF Find, Answer, AtomicTypes
  <2>2. H' = H /\ H = due'[c]
    BY <1>1, <2>1 DEF Holding, Active
  <2> QED BY <1>0, <1>1, <2>1, <2>2
<1>7. CASE Return(c)
  <2>1. /\ due[c] # {} /\ UNCHANGED <<req, checked>> /\ reply'[c] # "none"
        /\ booking' = [d \in Calls |-> IF d \in due[c] \cap Active THEN "RELEASED" ELSE booking[d]]
    BY <1>0, <1>7 DEF Return, Answer, AtomicTypes
  <2>2. H' = {}
    BY <1>0, <2>1 DEF Holding, Active
  <2> QED BY <1>1, <2>1, <2>2 DEF Pending
<1>8. CASE Fail(c)
  <2>1. ~checked'[c] /\ reply'[c] = "failed"
    BY <1>0, <1>8 DEF Fail, Answer, AtomicTypes
  <2> QED BY <2>1 DEF Pending
<1> QED BY <1>2, <1>3, <1>4, <1>5, <1>6, <1>7, <1>8 DEF Works, Serve

LEMMA WorkSettle ==
    ASSUME BaseInv, SettleInv, NEW c \in Calls, Works(c), SagaServe(c) \/ Outage(c)
    PROVE  SettleInv'
<1>0. /\ HandlerTypes /\ AtomicTypes
      /\ Single /\ CurrentInv /\ OutageInv /\ AloneInv /\ EmptyInv /\ OwnedInv /\ RefreshInv
  BY DEF BaseInv, AtomicInv, SettleInv
<1>1. /\ UNCHANGED <<req, orders, at, attempt>> /\ req[c] # NoRequest /\ reply[c] = "none"
      /\ \A d \in Calls : d # c => reply'[d] = reply[d] /\ checked'[d] = checked[d]
                                   /\ due'[d] = due[d]
  BY WorkEffect DEF Works
<1>2. /\ Pending(c) /\ c[1] \in HttpRequests /\ at[c[1]] = c[2] /\ attempt[c[1]] = c[3]
      /\ InFlight(c[1])
  BY <1>0, <1>1, CallParts DEF Pending, CurrentInv, InFlight
<1>3. ASSUME NEW k, k # Key[c[1]]
      PROVE  Holding(k)' = Holding(k)
  <2>1. req[c].ref = Key[c[1]]
    BY <1>1, Sent DEF BaseInv
  <2>2. \A d \in Active : req[d].ref = k => d \in Active'
    BY <1>3, WorkBookings
  <2>3. \A d \in Active' : req[d].ref = k => d \in Active
    BY <1>3, <2>1, WorkBookings
  <2> QED BY <1>1, <2>2, <2>3 DEF Holding
<1>4. ASSUME NEW d \in Calls, Pending(d), d # c
      PROVE  d[1] \in HttpRequests /\ Key[d[1]] # Key[c[1]]
  <2>1. d[1] \in HttpRequests /\ at[d[1]] = d[2] /\ attempt[d[1]] = d[3] /\ InFlight(d[1])
    BY <1>0, <1>4, CallParts DEF CurrentInv, InFlight
  <2> QED BY <1>0, <1>2, <1>4, <2>1, CallParts DEF Single
<1>5. \A r \in HttpRequests : Waiting(r) =>
        <<r, at[r], attempt[r]>> \in Calls /\ (r # c[1] => Answered(r)' = Answered(r))
  <2> SUFFICES ASSUME NEW r \in HttpRequests, Waiting(r)
               PROVE  <<r, at[r], attempt[r]>> \in Calls
                      /\ (r # c[1] => Answered(r)' = Answered(r))
    OBVIOUS
  <2>1. attempt[r] \in 1 .. MaxAttempts /\ at[r] \in {"reserve", "release"}
    BY <1>0, SagaAssumption DEF HandlerTypes, Waiting
  <2>2. <<r, at[r], attempt[r]>> \in Calls
    BY <2>1, CallParts
  <2> QED BY <1>1, <2>2 DEF Answered
<1>6. Answered(c[1])' = reply'[c]
  BY <1>1, <1>2, CallParts DEF Answered
<1>7. Single' /\ RefreshInv'
  BY <1>0, <1>1 DEF Single, InFlight, RefreshInv, Exists
<1>8. CurrentInv'
  BY <1>0, <1>1, <1>2 DEF CurrentInv, Pending
<1>9. OutageInv'
  <2>1. /\ outages \in Nat
        /\ \/ UNCHANGED outages /\ reply'[c] # "failed"
           \/ outages' = outages + 1
    <3>1. outages \in Nat
      BY <1>0, SagaAssumption DEF HandlerTypes
    <3>2. Serve(c) => reply'[c] # "failed"
      BY <1>0, <1>1 DEF Serve, Replay, Miss, Reserve, Reject, Collide, Find, Return, Decide,
         Answer, AtomicTypes
    <3> QED BY <3>1, <3>2 DEF SagaServe, Outage
  <2> SUFFICES ASSUME NEW r \in HttpRequests, Waiting(r)
               PROVE  /\ attempt[r] <= outages' + 1
                      /\ Answered(r)' = "failed" => attempt[r] <= outages'
    BY <1>1 DEF OutageInv, Waiting
  <2>2. attempt[r] <= outages + 1 /\ (Answered(r) = "failed" => attempt[r] <= outages)
        /\ attempt[r] \in Nat
    BY <1>0, SagaAssumption DEF OutageInv, HandlerTypes
  <2>3. CASE outages' = outages + 1
    BY <2>1, <2>2, <2>3
  <2>4. CASE UNCHANGED outages /\ reply'[c] # "failed"
    BY <1>5, <1>6, <2>2, <2>4
  <2> QED BY <2>1, <2>3, <2>4
<1>10. AloneInv'
  <2> SUFFICES ASSUME NEW d \in Calls
               PROVE  /\ checked'[d] => Pending(d)' /\ Holding(Key[d[1]])' = {}
                      /\ Pending(d)' /\ due'[d] # {} => Holding(Key[d[1]])' \subseteq due'[d]
    BY DEF AloneInv
  <2>1. CASE d = c
    BY <1>0, <2>1, WorkAlone
  <2>2. CASE d # c
    <3>1. /\ checked[d] => Pending(d) /\ Holding(Key[d[1]]) = {}
          /\ Pending(d) /\ due[d] # {} => Holding(Key[d[1]]) \subseteq due[d]
          /\ Pending(d)' = Pending(d) /\ checked'[d] = checked[d] /\ due'[d] = due[d]
      BY <1>0, <1>1, <2>2 DEF AloneInv, Pending
    <3>2. Pending(d) => Holding(Key[d[1]])' = Holding(Key[d[1]])
      BY <1>3, <1>4, <2>2
    <3> QED BY <3>1, <3>2
  <2> QED BY <2>1, <2>2
<1>11. EmptyInv'
  <2> SUFFICES ASSUME NEW r \in HttpRequests,
                      \/ at[r] = "reserve" /\ Answered(r)' \in {"rejected", "duplicate"}
                      \/ at[r] = "release" /\ Answered(r)' \in {"released", "nothing"}
               PROVE  Holding(Key[r])' = {}
    BY <1>1 DEF EmptyInv
  <2>1. CASE r = c[1]
    BY <1>0, <1>6, <2>1, WorkAlone
  <2>2. CASE r # c[1]
    <3>1. Waiting(r) /\ InFlight(r)
      BY DEF Waiting, InFlight
    <3>2. Key[r] # Key[c[1]]
      BY <1>0, <1>2, <2>2, <3>1 DEF Single
    <3>3. Holding(Key[r]) = {}
      BY <1>0, <1>5, <2>2, <3>1 DEF EmptyInv
    <3> QED BY <1>3, <3>2, <3>3
  <2> QED BY <2>1, <2>2
<1>12. OwnedInv'
  <2> SUFFICES ASSUME NEW k \in Keys, Holding(k)' # {}
               PROVE  Exists(k) \/ \E r \in HttpRequests : Key[r] = k /\ InFlight(r)
    BY <1>1 DEF OwnedInv, Exists, InFlight
  <2> QED BY <1>0, <1>2, <1>3 DEF OwnedInv
<1> QED BY <1>7, <1>8, <1>9, <1>10, <1>11, <1>12 DEF SettleInv

LEMMA NextSettle ==
    ASSUME Settling, BaseInv, SettleInv, [SagaNext]_sagaVars
    PROVE  SettleInv'
<1>1. ASSUME NEW r \in HttpRequests, Reserved(r)
      PROVE  SettleInv'
  <2>1. /\ UNCHANGED <<atomicVars, orders, attempt, outages>>
        /\ at' = [at EXCEPT ![r] = "persist"]
        /\ InFlight(r) /\ Answered(r) # "none"
    BY <1>1 DEF Reserved, InFlight, Success
  <2> QED BY <2>1, MoveSettle DEF BaseInv, HandlerTypes
<1>2. CASE UNCHANGED <<atomicVars, orders, at, attempt, result, outages>>
  BY <1>2, MoveSettle
<1>3. ~Crash
  BY DEF Crash, Settling
<1> QED BY <1>1, <1>2, <1>3, SagaSteps, SendSettle, AnswerSettle, CommitSettle, WorkSettle

\* NoStranded: where every RPC has an attempt left for each outage, and neither
\* deadlines nor crashes cut a handler off, inventory holds stock for persisted
\* orders only, once everything has settled.
THEOREM NoStrandedCorrect == Settling /\ SagaSpec => []NoStranded
<1> SUFFICES ASSUME Settling
             PROVE  SagaSpec => []NoStranded
  OBVIOUS
<1>1. BaseInv /\ SettleInv /\ [SagaNext]_sagaVars => (BaseInv /\ SettleInv)'
  BY NextBase, NextSettle
<1>2. BaseInv /\ SettleInv => NoStranded
  <2> SUFFICES ASSUME BaseInv, SettleInv, Quiet, NEW d \in Active
               PROVE  Exists(req[d].ref)
    BY DEF NoStranded
  <2>1. d \in Holding(req[d].ref) /\ req[d].ref \in Keys
    BY Bookings, Messages DEF Holding
  <2> QED BY <2>1 DEF Quiet, SettleInv, OwnedInv
<1> QED BY <1>1, <1>2, InitBase, InitSettle, PTL DEF SagaSpec

\* FailureFreesStock: in the same deployments a client that is told that its
\* order failed leaves no stock held under its key, although the handler cannot
\* tell a commit that failed from one that took effect.
THEOREM FailureFreesStockCorrect == Settling /\ SagaSpec => FailureFreesStock
<1> SUFFICES ASSUME Settling
             PROVE  SagaSpec => FailureFreesStock
  OBVIOUS
<1> DEFINE Freed == \A r \in HttpRequests :
               InFlight(r) /\ result'[r] \in {"409", "5xx", "500"} => Holding(Key[r])' = {}
<1>1. BaseInv /\ SettleInv /\ [SagaNext]_sagaVars => (BaseInv /\ SettleInv)'
  BY NextBase, NextSettle
<1>2. BaseInv /\ SettleInv /\ [SagaNext]_sagaVars => [Freed]_sagaVars
  <2> SUFFICES ASSUME BaseInv, SettleInv, [SagaNext]_sagaVars, NEW r \in HttpRequests,
                      InFlight(r), result'[r] \in {"409", "5xx", "500"}
               PROVE  Holding(Key[r])' = {}
    OBVIOUS
  <2>1. HandlerTypes /\ result[r] = "none"
    BY DEF BaseInv, HandlerTypes, InFlight
  <2>2. ASSUME NEW s \in HttpRequests, Sends(s)
        PROVE  UNCHANGED result
    BY <2>1, <2>2, SendStep DEF Send
  <2>3. ASSUME NEW s \in HttpRequests, Answers(s)
        PROVE  Holding(Key[r])' = {}
    <3>1. PICK status : Respond(s, status) /\ (status = "201" \/ Holding(Key[s]) = {})
      BY <2>3, AnswerFreed
    <3>2. s = r /\ status # "201"
      BY <2>1, <3>1 DEF Respond, HandlerTypes
    <3>3. Holding(Key[r])' = Holding(Key[r])
      BY <3>1 DEF Respond, atomicVars, Holding, Active
    <3> QED BY <3>1, <3>2, <3>3
  <2>4. ~Crash
    BY DEF Crash, Settling
  <2> QED BY <2>1, <2>2, <2>3, <2>4, SagaSteps DEF Reserved, Commit, Works
<1> HIDE DEF Freed
<1>3. FailureFreesStock <=> [][Freed]_sagaVars
  BY DEF FailureFreesStock, Freed
<1> QED BY <1>1, <1>2, <1>3, InitBase, InitSettle, PTL DEF SagaSpec

=============================================================================
