----------------------------- MODULE BulkProofs -----------------------------
(***************************************************************************)
(* The bulk path, for every instance.  SavedBacked: no release ever reaches*)
(* a line of a persisted order.  Answers are final, so an order that was   *)
(* persisted stays reserved on every line and one that is released stays   *)
(* rejected on some line: no order can be both, and a booking is returned  *)
(* only by the release of its own order.  PartialReleased: a release is    *)
(* sent when every line of its order has its outcome, so that what it finds*)
(* is all there will ever be.                                              *)
(***************************************************************************)
EXTENDS BulkOrders, AtomicProofs

Releasing(o) == req[ReleaseCall(o)] # NoRequest

SomeRejected(o) == \E c \in LineCalls(o) : reply[c] = "rejected"

\* The shape of the state, as far as the argument needs it.
Domains ==
    /\ req = [c \in Calls |-> req[c]]
    /\ booking = [c \in Calls |-> booking[c]]
    /\ due = [c \in Calls |-> due[c]]
    /\ reply = [c \in Calls |-> reply[c]]
    /\ at = [b \in Batches |-> at[b]]
    /\ left = [b \in Batches |-> left[b]]

\* A call carries its own line or the release of its own order.
OwnMessage(c) ==
    \/ req[c] = NoRequest
    \/ c \in LineCalls(OrderOf(c)) /\ req[c] = LineMessage(c)
    \/ c = ReleaseCall(OrderOf(c)) /\ req[c] = ReleaseMessage(OrderOf(c))

\* A release is about to return bookings of its own order only.
OwnDue(c) ==
    \A d \in due[c] :
        /\ Releasing(OrderOf(c))
        /\ d \in Calls /\ OrderOf(d) = OrderOf(c)

\* Bookings belong to calls; a reserved line keeps its own until its order is
\* released.
Kept(c) ==
    /\ booking[c] = "RESERVED" => req[c] # NoRequest
    /\ reply[c] = "reserved" => booking[c] = "RESERVED" \/ Releasing(OrderOf(c))

\* What inventory guarantees.
ServerInv == Domains /\ \A c \in Calls : OwnMessage(c) /\ OwnDue(c) /\ Kept(c)

\* Orders that are released, or will be, had a line rejected; orders that are
\* persisted had none.
HandlerInv ==
    /\ \A b \in Batches : at[b] = "persist" => Exhausted(b)
    /\ \A b \in Batches : \A o \in left[b] : o \in OrdersOf(b) /\ SomeRejected(o)
    /\ \A o \in BulkOrderRefs : Releasing(o) => SomeRejected(o)
    /\ saved \subseteq BulkOrderRefs
    /\ \A o \in saved : ReservedLines(o) = LineCalls(o)

BulkInv == ServerInv /\ HandlerInv

\* An order that the report of b does not account for is about to be released
\* or has been.
Accounted(b) ==
    Exhausted(b) /\ \A o \in OrdersOf(b) \ saved :
                       ReservedLines(o) = {} \/ o \in left[b] \/ Releasing(o)

\* A handler reports when all its partial orders have been dealt with.
ReportInv ==
    /\ \A b \in Batches : at[b] = "release" => Accounted(b)
    /\ \A b \in Batches :
         result[b] = "200" => at[b] = "done" /\ Accounted(b) /\ left[b] = {}

\* No line of an order is reserved once its release is under way: what the
\* release finds is all that is held, and after its answer nothing is.
ReleaseInv ==
    /\ \A c \in Calls : req[c] = NoRequest => reply[c] = "none"
    /\ \A o \in BulkOrderRefs :
         /\ Releasing(o) => \A c \in LineCalls(o) : Outcome(c)
         /\ due[ReleaseCall(o)] # {} => Holding(o) \subseteq due[ReleaseCall(o)]
         /\ reply[ReleaseCall(o)] \in {"released", "nothing"} => Holding(o) = {}

\* The inductive invariant of the whole.
BatchInv == AtomicInv /\ BulkTypeOK /\ BulkInv /\ ReportInv /\ ReleaseInv

\* No call forgets its request or changes its answer.
Final ==
    /\ \A c \in Calls : req[c] # NoRequest => req'[c] = req[c]
    /\ \A c \in Calls : reply[c] # "none" => reply'[c] = reply[c]

-----------------------------------------------------------------------------
(* Names of calls.                                                         *)

\* The calls of an order carry its name, and its release is not one of its lines.
LEMMA CallsOfOrder ==
    ASSUME NEW o \in BulkOrderRefs
    PROVE  /\ ReleaseCall(o) \in Calls /\ OrderOf(ReleaseCall(o)) = o
           /\ \A c \in LineCalls(o) : c \in Calls /\ OrderOf(c) = o
           /\ ReleaseCall(o) \notin LineCalls(o)
<1>1. PICK b \in Batches : \E j \in DOMAIN Payload[b] : o = <<b, j>>
  BY DEF BulkOrderRefs, OrdersOf
<1>0. PICK j \in DOMAIN Payload[b] : o = <<b, j>>
  BY <1>1
<1>2. /\ Payload[b] \in Seq(Seq([product : Int, quantity : Int]))
      /\ Calls = UNION {LineCalls(q) \cup {ReleaseCall(q)} : q \in BulkOrderRefs}
  BY BulkAssumption
<1>3. Payload[b][j] \in Seq([product : Int, quantity : Int])
  BY <1>2
<1>4. DOMAIN Payload[b][j] \subseteq Nat \ {0}
  BY <1>3
<1>5. \A c \in LineCalls(o) : \E i \in DOMAIN Payload[b][j] : c = <<b, j, i>>
  BY <1>0 DEF LineCalls, ItemsOf
<1>6. LineCalls(o) \subseteq Calls /\ ReleaseCall(o) \in Calls
  BY <1>2
<1>7. ReleaseCall(o) = <<b, j, 0>>
  BY <1>0 DEF ReleaseCall
<1> QED BY <1>0, <1>4, <1>5, <1>6, <1>7 DEF OrderOf

\* Every call belongs to an order.
LEMMA OrderOfCall ==
    ASSUME NEW c \in Calls
    PROVE  /\ OrderOf(c) \in BulkOrderRefs
           /\ c \in LineCalls(OrderOf(c)) \/ c = ReleaseCall(OrderOf(c))
<1>1. PICK o \in BulkOrderRefs : c \in LineCalls(o) \cup {ReleaseCall(o)}
  BY BulkAssumption
<1> QED BY <1>1, CallsOfOrder

\* Whatever a call carries, its ref is its order.
LEMMA RefIsOrder ==
    ASSUME NEW c \in Calls, OwnMessage(c), req[c] # NoRequest
    PROVE  /\ req[c].ref = OrderOf(c)
           /\ req[c].key = NoKey
           /\ req[c].op = "release" => c = ReleaseCall(OrderOf(c))
BY DEF OwnMessage, LineMessage, ReleaseMessage

-----------------------------------------------------------------------------
(* The server.                                                             *)

\* A step that changes the answer of c only, before it had any, and keeps every
\* booking and every due release but perhaps c's own.
LEMMA AnswerKeeps ==
    ASSUME ServerInv, NEW c \in Calls, NEW r,
           Pending(c), Answer(c, r), UNCHANGED <<req, booking>>,
           \A d \in Calls : due'[d] = due[d] \/ due'[d] = {},
           due' = [d \in Calls |-> due'[d]],
           r # "reserved",
           UNCHANGED <<at, left>>
    PROVE  ServerInv' /\ Final
<1>1. Domains'
  BY DEF ServerInv, Domains, Answer
<1>2. \A d \in Calls : OwnMessage(d)' /\ OwnDue(d)' /\ Kept(d)'
  BY DEF ServerInv, Domains, Answer, OwnMessage, OwnDue, Kept, Releasing
<1>3. Final
  BY DEF Final, Answer, Pending, ServerInv, Domains
<1> QED BY <1>1, <1>2, <1>3 DEF ServerInv

\* The server's own steps keep its part of the invariant.
LEMMA ServeKeeps ==
    ASSUME ServerInv, NEW c \in Calls, Serve(c), UNCHANGED <<at, left>>
    PROVE  ServerInv' /\ Final
<1>0. Domains /\ OwnMessage(c) /\ OwnDue(c) /\ Kept(c)
  BY DEF ServerInv
<1>1. CASE Replay(c)
  BY <1>1, AnswerKeeps DEF Replay, ServerInv, Domains
<1>2. CASE Miss(c)
  BY <1>2 DEF Miss, ServerInv, Domains, OwnMessage, OwnDue, Kept, Releasing, Final
<1>3. CASE Reserve(c)
  <2>1. /\ Pending(c) /\ UNCHANGED <<req, due>>
        /\ booking' = [booking EXCEPT ![c] = "RESERVED"]
        /\ reply' = [reply EXCEPT ![c] = "reserved"]
    BY <1>3 DEF Reserve, Decide, Answer
  <2> QED BY <2>1 DEF Pending, ServerInv, Domains, OwnMessage, OwnDue, Kept, Releasing, Final
<1>4. CASE Reject(c)
  BY <1>4, AnswerKeeps DEF Reject, Decide, ServerInv, Domains
<1>5. CASE Collide(c)
  BY <1>5, AnswerKeeps DEF Collide, Decide, ServerInv, Domains
<1>6. CASE Find(c)
  <2>1. /\ Pending(c) /\ req[c].op = "release" /\ UNCHANGED <<req, booking>>
        /\ due' = [due EXCEPT ![c] = {d \in Active : req[d].ref = req[c].ref}]
        /\ reply' = reply \/ Answer(c, "nothing")
    BY <1>6 DEF Find
  <2>2. c = ReleaseCall(OrderOf(c)) /\ req[c].ref = OrderOf(c) /\ req[c] # NoRequest
    BY <2>1, <1>0, RefIsOrder DEF Pending
  <2>3. \A d \in Active : d \in Calls /\ req[d].ref = OrderOf(d)
    BY RefIsOrder DEF Active, ServerInv, Kept
  <2>4. OwnDue(c)'
    BY <2>1, <2>2, <2>3 DEF OwnDue, Releasing, ServerInv, Domains
  <2>5. \A d \in Calls \ {c} : OwnDue(d)'
    BY <2>1 DEF OwnDue, Releasing, ServerInv, Domains
  <2>6. \A d \in Calls : OwnMessage(d)' /\ Kept(d)'
    BY <2>1 DEF OwnMessage, Kept, Releasing, ServerInv, Domains, Answer
  <2>7. Domains' /\ Final
    BY <2>1 DEF ServerInv, Domains, Final, Answer, Pending
  <2> QED BY <2>4, <2>5, <2>6, <2>7 DEF ServerInv
<1>7. CASE Return(c)
  <2> DEFINE D == due[c] \cap Active
  <2>1. /\ Pending(c) /\ UNCHANGED req
        /\ booking' = [d \in Calls |-> IF d \in D THEN "RELEASED" ELSE booking[d]]
        /\ due' = [due EXCEPT ![c] = {}]
    BY <1>7 DEF Return
  <2>2. \E r : r # "reserved" /\ Answer(c, r)
    BY <1>7 DEF Return
  <2>3. \A d \in D : Releasing(OrderOf(d))
    BY <1>0 DEF OwnDue
  <2>4. \A d \in Calls : OwnMessage(d)' /\ OwnDue(d)'
    BY <2>1 DEF ServerInv, Domains, OwnMessage, OwnDue, Releasing
  <2>5. \A d \in Calls : Kept(d)'
    BY <2>1, <2>2, <2>3 DEF ServerInv, Domains, Kept, Releasing, Answer
  <2>6. Domains' /\ Final
    BY <2>1, <2>2 DEF ServerInv, Domains, Final, Answer, Pending
  <2> QED BY <2>4, <2>5, <2>6 DEF ServerInv
<1> QED BY <1>1, <1>2, <1>3, <1>4, <1>5, <1>6, <1>7 DEF Serve

\* A call that dies leaves no trace but its answer.
LEMMA FailKeeps ==
    ASSUME ServerInv, NEW c \in Calls, Fail(c), UNCHANGED <<at, left>>
    PROVE  ServerInv' /\ Final
BY AnswerKeeps DEF Fail, ServerInv, Domains

\* A call that arrives with its own message is pending: its ref is not empty.
LEMMA ArriveKeeps ==
    ASSUME ServerInv, NEW c \in Calls, NEW r, Arrive(c, r), Valid(r),
           UNCHANGED <<at, left>>,
           \/ c \in LineCalls(OrderOf(c)) /\ r = LineMessage(c)
           \/ c = ReleaseCall(OrderOf(c)) /\ r = ReleaseMessage(OrderOf(c))
    PROVE  /\ ServerInv' /\ Final
           /\ req' = [req EXCEPT ![c] = r]
           /\ UNCHANGED reply
<1>1. /\ req[c] = NoRequest
      /\ req' = [req EXCEPT ![c] = r]
      /\ UNCHANGED <<stock, booking, checked, due, reply>>
  BY DEF Arrive
<1>2. Domains' /\ Final
  BY <1>1 DEF ServerInv, Domains, Final
<1>3. \A d \in Calls : OwnMessage(d)'
  BY <1>1 DEF ServerInv, Domains, OwnMessage, LineMessage, ReleaseMessage
<1>4. \A o \in BulkOrderRefs : Releasing(o) => Releasing(o)'
  <2> SUFFICES ASSUME NEW o \in BulkOrderRefs, Releasing(o)
               PROVE  Releasing(o)'
    OBVIOUS
  <2>1. ReleaseCall(o) \in Calls
    BY CallsOfOrder
  <2> QED BY <2>1, <1>2 DEF Releasing, Final
<1>5. \A d \in Calls : OwnDue(d)'
  BY <1>1, <1>4, OrderOfCall DEF ServerInv, OwnDue
<1>6. \A d \in Calls : Kept(d)'
  BY <1>1, <1>2, <1>4, OrderOfCall DEF ServerInv, Kept, Final
<1> QED BY <1>1, <1>2, <1>3, <1>5, <1>6 DEF ServerInv

-----------------------------------------------------------------------------
(* The handlers.                                                           *)

\* What the lines of an order have been answered stays so.
LEMMA AnswersStand ==
    ASSUME Final
    PROVE  /\ \A o \in BulkOrderRefs : SomeRejected(o) => SomeRejected(o)'
           /\ \A o \in BulkOrderRefs :
                ReservedLines(o) = LineCalls(o) => ReservedLines(o)' = LineCalls(o)
           /\ \A b \in Batches : Exhausted(b) => Exhausted(b)'
<1>1. \A o \in BulkOrderRefs : LineCalls(o) \subseteq Calls /\ LineCalls(o)' = LineCalls(o)
  BY CallsOfOrder DEF LineCalls, ItemsOf
<1>2. \A b \in Batches : StreamOf(b) \subseteq Calls /\ StreamOf(b)' = StreamOf(b)
  BY <1>1 DEF StreamOf, BulkOrderRefs, OrdersOf
<1>3. \A c \in Calls : reply[c] \in {"reserved", "rejected"} => reply'[c] = reply[c]
  BY DEF Final
<1> QED BY <1>1, <1>2, <1>3 DEF SomeRejected, ReservedLines, Exhausted, Outcome

\* A step that sends no release but for an order with a rejected line, saves
\* nothing and enters "persist" nowhere, keeps the handlers' part.
LEMMA HandlersKeep ==
    ASSUME HandlerInv, Final, UNCHANGED saved,
           \A b \in Batches : at'[b] = "persist" => at[b] = "persist",
           \A b \in Batches : left'[b] \subseteq left[b],
           \A o \in BulkOrderRefs : Releasing(o)' => Releasing(o) \/ SomeRejected(o)
    PROVE  HandlerInv'
<1>1. \A o \in saved : o \in BulkOrderRefs
  BY DEF HandlerInv
<1>2. \A b \in Batches : \A o \in left[b] : o \in BulkOrderRefs
  BY DEF HandlerInv, BulkOrderRefs
<1> QED BY <1>1, <1>2, AnswersStand DEF HandlerInv

\* A handler's step that leaves the calls alone keeps the server's part.
LEMMA ServerKeeps ==
    ASSUME ServerInv, UNCHANGED atomicVars,
           at' = [b \in Batches |-> at'[b]], left' = [b \in Batches |-> left'[b]]
    PROVE  ServerInv' /\ Final
BY DEF ServerInv, Domains, OwnMessage, OwnDue, Kept, Releasing, Final, atomicVars

\* In an exhausted stream a partial order has a rejected line.
LEMMA PartialIsRejected ==
    ASSUME NEW b \in Batches, Exhausted(b), NEW o \in Partial(b)
    PROVE  o \in OrdersOf(b) /\ SomeRejected(o)
<1>1. o \in OrdersOf(b) /\ ReservedLines(o) # LineCalls(o)
  BY DEF Partial, Persisted
<1>2. \A c \in LineCalls(o) : reply[c] \in {"reserved", "rejected"}
  BY <1>1 DEF Exhausted, StreamOf, Outcome
<1> QED BY <1>1, <1>2 DEF SomeRejected, ReservedLines

\* Before anything happens.
LEMMA InitBulk == BulkInit => BulkInv
<1> SUFFICES ASSUME BulkInit
             PROVE  BulkInv
  OBVIOUS
<1>1. ServerInv
  BY DEF BulkInit, AtomicInit, ServerInv, Domains, OwnMessage, OwnDue, Kept
<1>2. \A o \in BulkOrderRefs : ~Releasing(o)
  BY CallsOfOrder DEF BulkInit, AtomicInit, Releasing
<1>3. HandlerInv
  BY <1>2 DEF BulkInit, HandlerInv
<1> QED BY <1>1, <1>3 DEF BulkInv

\* A handler's step on its own variables that saves nothing.
LEMMA MoveKeeps ==
    ASSUME BulkInv, NEW b \in Batches, UNCHANGED <<atomicVars, saved>>,
           \/ UNCHANGED at
           \/ \E place : place # "persist" /\ Goto(b, place),
           \/ UNCHANGED left
           \/ \E o : left' = [left EXCEPT ![b] = @ \ {o}]
    PROVE  BulkInv'
<1>1. ServerInv' /\ Final
  BY ServerKeeps DEF BulkInv, ServerInv, Domains, Goto
<1>2. /\ \A d \in Batches : at'[d] = "persist" => at[d] = "persist"
      /\ \A d \in Batches : left'[d] \subseteq left[d]
  BY DEF BulkInv, ServerInv, Domains, Goto
<1>3. \A o \in BulkOrderRefs : Releasing(o)' => Releasing(o)
  BY DEF Releasing, atomicVars
<1> QED BY <1>1, <1>2, <1>3, HandlersKeep DEF BulkInv

\* Every step keeps the invariant.
LEMMA NextBulk == BulkInv /\ [BulkNext]_bulkVars => BulkInv'
<1> SUFFICES ASSUME BulkInv, [BulkNext]_bulkVars
             PROVE  BulkInv'
  OBVIOUS
<1> USE DEF BulkInv
<1>1. ASSUME NEW b \in Batches, OpenStream(b) \/ StreamBroken(b) \/ LineRaised(b) \/ Report(b)
      PROVE  BulkInv'
  BY <1>1, MoveKeeps DEF OpenStream, StreamBroken, LineRaised, Report, Respond, Goto
<1>2. ASSUME NEW b \in Batches, ReleaseEnds(b)
      PROVE  BulkInv'
  BY <1>2, MoveKeeps DEF ReleaseEnds
<1>3. ASSUME NEW b \in Batches, Summary(b)
      PROVE  BulkInv'
  <2>1. /\ Exhausted(b) /\ UNCHANGED <<atomicVars, saved, left>>
        /\ at' = [at EXCEPT ![b] = "persist"]
    BY <1>3 DEF Summary, Goto
  <2>2. ServerInv' /\ Final
    BY <2>1, ServerKeeps DEF ServerInv, Domains
  <2>3. \A d \in Batches : at'[d] = "persist" => Exhausted(d)
    BY <2>1 DEF ServerInv, Domains, HandlerInv
  <2>4. \A o \in BulkOrderRefs : Releasing(o)' = Releasing(o)
    BY <2>1 DEF Releasing, atomicVars
  <2>5. \A o \in BulkOrderRefs : SomeRejected(o)' = SomeRejected(o)
    BY <2>1 DEF SomeRejected, atomicVars, LineCalls, ItemsOf
  <2>6. \A d \in Batches : OrdersOf(d) \subseteq BulkOrderRefs
    BY DEF BulkOrderRefs
  <2>7. HandlerInv'
    BY <2>1, <2>2, <2>3, <2>4, <2>5, <2>6, AnswersStand DEF HandlerInv
  <2> QED BY <2>2, <2>7
<1>4. ASSUME NEW b \in Batches, Commit(b)
      PROVE  BulkInv'
  <2>1. /\ at[b] = "persist" /\ UNCHANGED atomicVars
        /\ saved' = saved \cup Persisted(b)
        /\ left' = [left EXCEPT ![b] = Partial(b)]
        /\ at' = [at EXCEPT ![b] = "release"]
    BY <1>4 DEF Commit, Goto
  <2>2. ServerInv' /\ Final
    BY <2>1, ServerKeeps DEF ServerInv, Domains
  <2>3. Exhausted(b)
    BY <2>1 DEF HandlerInv
  <2>4. \A d \in Batches : \A o \in left'[d] : o \in OrdersOf(d) /\ SomeRejected(o)
    BY <2>1, <2>3, PartialIsRejected DEF HandlerInv, ServerInv, Domains
  <2>5. \A o \in saved' : o \in BulkOrderRefs /\ ReservedLines(o) = LineCalls(o)
    BY <2>1 DEF HandlerInv, Persisted, BulkOrderRefs
  <2>6. /\ \A o \in BulkOrderRefs : Releasing(o)' = Releasing(o)
        /\ \A d \in Batches : at'[d] = "persist" => at[d] = "persist"
    BY <2>1 DEF Releasing, atomicVars, ServerInv, Domains
  <2>7. \A d \in Batches : OrdersOf(d) \subseteq BulkOrderRefs
    BY DEF BulkOrderRefs
  <2>8. HandlerInv'
    BY <2>2, <2>4, <2>5, <2>6, <2>7, AnswersStand DEF HandlerInv
  <2> QED BY <2>2, <2>8
<1>5. ASSUME NEW b \in Batches, CommitRaises(b)
      PROVE  BulkInv'
  <2>1. /\ UNCHANGED <<atomicVars, left>>
        /\ saved' \subseteq saved \cup Persisted(b)
        /\ at' = [at EXCEPT ![b] = "done"]
    BY <1>5 DEF CommitRaises, Respond, Goto
  <2>2. ServerInv' /\ Final
    BY <2>1, ServerKeeps DEF ServerInv, Domains
  <2>5. \A o \in saved' : o \in BulkOrderRefs /\ ReservedLines(o) = LineCalls(o)
    BY <2>1 DEF HandlerInv, Persisted, BulkOrderRefs
  <2>6. /\ \A o \in BulkOrderRefs : Releasing(o)' = Releasing(o)
        /\ \A d \in Batches : at'[d] = "persist" => at[d] = "persist"
    BY <2>1 DEF Releasing, atomicVars, ServerInv, Domains
  <2>7. \A d \in Batches : OrdersOf(d) \subseteq BulkOrderRefs
    BY DEF BulkOrderRefs
  <2>8. HandlerInv'
    BY <2>1, <2>2, <2>5, <2>6, <2>7, AnswersStand DEF HandlerInv
  <2> QED BY <2>2, <2>8
<1>6. ASSUME NEW b \in Batches, SendRelease(b)
      PROVE  BulkInv'
  <2>1. PICK o \in left[b] : Arrive(ReleaseCall(o), ReleaseMessage(o))
    BY <1>6 DEF SendRelease
  <2>2. UNCHANGED <<saved, at, left>>
    BY <1>6 DEF SendRelease, bulkHandlers
  <2>3. o \in BulkOrderRefs /\ SomeRejected(o)
    BY DEF HandlerInv, BulkOrderRefs
  <2>4. ReleaseCall(o) \in Calls /\ OrderOf(ReleaseCall(o)) = o
    BY <2>3, CallsOfOrder
  <2>5. Valid(ReleaseMessage(o))
    BY <2>3, BulkAssumption DEF Valid, ReleaseMessage
  <2>6. ServerInv' /\ Final /\ req' = [req EXCEPT ![ReleaseCall(o)] = ReleaseMessage(o)]
    BY <2>1, <2>2, <2>4, <2>5, ArriveKeeps
  <2>7. \A q \in BulkOrderRefs : Releasing(q)' => Releasing(q) \/ SomeRejected(q)
    BY <2>3, <2>6, CallsOfOrder DEF Releasing, ServerInv, Domains
  <2> QED BY <2>2, <2>6, <2>7, HandlersKeep
<1>7. ASSUME NEW c \in Calls, ReadLine(c)
      PROVE  BulkInv'
  <2>1. c \in StreamOf(c[1]) /\ Arrive(c, LineMessage(c)) /\ UNCHANGED <<saved, at, left>>
    BY <1>7 DEF ReadLine, bulkHandlers
  <2>2. OrderOf(c) \in BulkOrderRefs
    BY OrderOfCall
  <2>3. c \in LineCalls(OrderOf(c)) /\ c # ReleaseCall(OrderOf(c))
    <3>1. PICK o \in OrdersOf(c[1]) : c \in LineCalls(o)
      BY <2>1 DEF StreamOf
    <3>2. OrderOf(c) = o
      BY <3>1 DEF LineCalls, OrderOf, OrdersOf
    <3> QED BY <2>2, <3>1, <3>2, CallsOfOrder
  <2>4. Valid(LineMessage(c))
    BY <2>2, BulkAssumption DEF Valid, LineMessage
  <2>5. ServerInv' /\ Final /\ req' = [req EXCEPT ![c] = LineMessage(c)]
    BY <2>1, <2>3, <2>4, ArriveKeeps
  <2>6. \A q \in BulkOrderRefs : Releasing(q)' => Releasing(q)
    BY <2>3, <2>5, CallsOfOrder DEF Releasing, ServerInv, Domains
  <2> QED BY <2>1, <2>5, <2>6, HandlersKeep
<1>8. ASSUME NEW c \in Calls, BulkServe(c) \/ CallFails(c)
      PROVE  BulkInv'
  <2>1. /\ Serve(c) \/ Fail(c)
        /\ UNCHANGED <<saved, at, left>>
    BY <1>8 DEF BulkServe, CallFails, bulkHandlers
  <2>2. UNCHANGED req
    BY <2>1 DEF Serve, Fail, Replay, Miss, Reserve, Reject, Collide, Decide, Find, Return
  <2>3. ServerInv' /\ Final
    BY <2>1, ServeKeeps, FailKeeps
  <2>4. \A o \in BulkOrderRefs : Releasing(o)' => Releasing(o)
    BY <2>2 DEF Releasing
  <2> QED BY <2>1, <2>3, <2>4, HandlersKeep
<1>9. CASE BulkCrash
  <2>1. /\ UNCHANGED <<atomicVars, saved, left>>
        /\ at' = [d \in Batches |-> IF InFlight(d) THEN "done" ELSE at[d]]
    BY <1>9 DEF BulkCrash
  <2>2. ServerInv' /\ Final
    BY <2>1, ServerKeeps DEF ServerInv, Domains
  <2>3. \A o \in BulkOrderRefs : Releasing(o)' => Releasing(o)
    BY <2>1 DEF Releasing, atomicVars
  <2> QED BY <2>1, <2>2, <2>3, HandlersKeep
<1>10. CASE UNCHANGED bulkVars
  <2>1. UNCHANGED <<atomicVars, saved, at, left>>
    BY <1>10 DEF bulkVars, bulkHandlers
  <2>2. ServerInv' /\ Final
    BY <2>1, ServerKeeps DEF ServerInv, Domains
  <2>3. \A o \in BulkOrderRefs : Releasing(o)' => Releasing(o)
    BY <2>1 DEF Releasing, atomicVars
  <2> QED BY <2>1, <2>2, <2>3, HandlersKeep
<1> QED
  BY <1>1, <1>2, <1>3, <1>4, <1>5, <1>6, <1>7, <1>8, <1>9, <1>10 DEF BulkNext, BulkHandle

\* A persisted order has no rejected line, so nobody releases it.
LEMMA InvBacked == BulkInv => SavedBacked
<1> SUFFICES ASSUME BulkInv, NEW o \in saved
             PROVE  Holding(o) = LineCalls(o)
  BY DEF SavedBacked
<1>1. o \in BulkOrderRefs /\ \A c \in LineCalls(o) : reply[c] = "reserved"
  BY DEF BulkInv, HandlerInv, ReservedLines
<1>2. ~Releasing(o)
  BY <1>1 DEF BulkInv, HandlerInv, SomeRejected
<1>3. \A c \in LineCalls(o) : c \in Calls /\ OrderOf(c) = o
  BY <1>1, CallsOfOrder
<1>4. \A c \in LineCalls(o) : booking[c] = "RESERVED"
  BY <1>1, <1>2, <1>3 DEF BulkInv, ServerInv, Kept
<1> QED BY <1>4 DEF Holding

\* Whatever is interrupted, abandoned or released around it, every line of every
\* persisted order of a bulk request holds its stock.
THEOREM SavedBackedCorrect == BulkSpec => []SavedBacked
<1>1. BulkInit => BulkInv
  BY InitBulk
<1>2. BulkInv /\ [BulkNext]_bulkVars => BulkInv'
  BY NextBulk
<1>3. BulkInv => SavedBacked
  BY InvBacked
<1> QED BY <1>1, <1>2, <1>3, PTL DEF BulkSpec

-----------------------------------------------------------------------------
(* Types, and the answer of a release.                                     *)

LEMMA InitBatch == BulkInit => BatchInv
<1> SUFFICES ASSUME BulkInit
             PROVE  BatchInv
  OBVIOUS
<1>1. AtomicInv
  BY InitAtomic DEF BulkInit
<1>2. BulkTypeOK
  BY <1>1, BulkAssumption DEF BulkInit, BulkTypeOK, AtomicInv, AtomicTypes
<1>3. ReportInv
  BY DEF BulkInit, ReportInv
<1>4. /\ \A c \in Calls : reply[c] = "none" /\ due[c] = {} /\ req[c] = NoRequest
      /\ \A o \in BulkOrderRefs : ReleaseCall(o) \in Calls
  BY CallsOfOrder DEF BulkInit, AtomicInit
<1>5. ReleaseInv
  BY <1>4 DEF ReleaseInv, Releasing
<1> QED BY <1>1, <1>2, <1>3, <1>5, InitBulk DEF BatchInv

\* A line arrives, or the release that a handler has come to.
Arrives(c, r) ==
    /\ Arrive(c, r) /\ r.items \in Seq(Item) /\ Valid(r)
    /\ UNCHANGED bulkHandlers
    /\ \/ c \in LineCalls(OrderOf(c))
       \/ \E b \in Batches : \E o \in left[b] : at[b] = "release" /\ c = ReleaseCall(o)

\* Seen from inventory, a step is a message that arrives, work on a call, or
\* nothing.
LEMMA ServerSteps ==
    ASSUME BatchInv, [BulkNext]_bulkVars
    PROVE  \/ \E c \in Calls : \E r : Arrives(c, r)
           \/ \E c \in Calls : Serve(c) \/ Fail(c)
           \/ UNCHANGED atomicVars
<1>1. ASSUME NEW c \in Calls, ReadLine(c)
      PROVE  Arrives(c, LineMessage(c))
  <2>0. PICK b \in Batches : OrderOf(c) \in OrdersOf(b)
    BY OrderOfCall DEF BulkOrderRefs
  <2>1. PICK j \in DOMAIN Payload[b] : OrderOf(c) = <<b, j>>
    BY <2>0 DEF OrdersOf
  <2>2. c \in StreamOf(c[1])
    BY <1>1 DEF ReadLine
  <2>3. c \in LineCalls(OrderOf(c))
    BY <2>2 DEF StreamOf, OrdersOf, LineCalls, OrderOf
  <2>4. Payload[b][j] \in Seq(Item)
    BY BulkAssumption DEF Item
  <2>5. PICK i \in DOMAIN Payload[b][j] : c = <<b, j, i>>
    BY <2>1, <2>3 DEF LineCalls, ItemsOf
  <2>6. Payload[b][j][i] \in Item
    BY <2>4, ElementOfSeq
  <2>7. LineMessage(c).items = <<Payload[b][j][i]>>
    BY <2>5 DEF LineMessage
  <2>8. LineMessage(c).items \in Seq(Item)
    BY <2>6, <2>7
  <2>9. Valid(LineMessage(c))
    BY OrderOfCall, BulkAssumption DEF Valid, LineMessage
  <2> QED BY <1>1, <2>3, <2>8, <2>9 DEF ReadLine, Arrives
<1>2. ASSUME NEW b \in Batches, NEW o \in left[b], at[b] = "release",
             Arrive(ReleaseCall(o), ReleaseMessage(o))
      PROVE  /\ ReleaseCall(o) \in Calls /\ ReleaseMessage(o).items \in Seq(Item)
             /\ Valid(ReleaseMessage(o))
  <2>1. o \in BulkOrderRefs
    BY DEF BatchInv, BulkInv, HandlerInv, BulkOrderRefs
  <2> QED BY <2>1, CallsOfOrder, EmptySeq, BulkAssumption DEF ReleaseMessage, Valid
<1>3. ASSUME NEW b \in Batches,
             \/ OpenStream(b) \/ StreamBroken(b) \/ LineRaised(b) \/ Summary(b) \/ Commit(b)
             \/ CommitRaises(b) \/ ReleaseEnds(b) \/ Report(b)
      PROVE  UNCHANGED atomicVars
  BY <1>3 DEF OpenStream, StreamBroken, LineRaised, Summary, Commit, CommitRaises, ReleaseEnds,
     Report
<1>4. CASE \E b \in Batches : SendRelease(b)
  <2>1. PICK b \in Batches : SendRelease(b)
    BY <1>4
  <2>2. PICK o \in left[b] : Arrive(ReleaseCall(o), ReleaseMessage(o))
    BY <2>1 DEF SendRelease
  <2>3. at[b] = "release" /\ UNCHANGED bulkHandlers
    BY <2>1 DEF SendRelease
  <2>4. Arrives(ReleaseCall(o), ReleaseMessage(o)) /\ ReleaseCall(o) \in Calls
    BY <1>2, <2>2, <2>3 DEF Arrives
  <2> QED BY <2>4
<1>5. CASE BulkCrash \/ UNCHANGED bulkVars
  BY <1>5 DEF BulkCrash, bulkVars
<1>6. CASE \E c \in Calls : BulkServe(c) \/ CallFails(c)
  BY <1>6 DEF BulkServe, CallFails
<1>7. CASE \E c \in Calls : ReadLine(c)
  BY <1>1, <1>7
<1> QED BY <1>3, <1>4, <1>5, <1>6, <1>7 DEF BulkNext, BulkHandle

LEMMA NextFinal ==
    ASSUME BatchInv, [BulkNext]_bulkVars
    PROVE  /\ Final
           /\ \A o \in BulkOrderRefs : Releasing(o) => Releasing(o)'
<1>0. AtomicTypes
  BY DEF BatchInv, AtomicInv
<1>1. ASSUME NEW c \in Calls, NEW r, Arrives(c, r)
      PROVE  Final
  <2>1. reply[c] = "none" /\ Arrive(c, r)
    BY <1>1 DEF Arrives, Arrive, BatchInv, ReleaseInv
  <2> QED BY <1>0, <1>1, <2>1, FinalAnswers DEF Final
<1>2. ASSUME NEW c \in Calls, Serve(c) \/ Fail(c)
      PROVE  Final
  BY <1>0, <1>2, FinalAnswers DEF Final
<1>3. ASSUME UNCHANGED atomicVars
      PROVE  Final
  BY <1>3 DEF Final, atomicVars
<1>4. Final
  BY <1>1, <1>2, <1>3, ServerSteps
<1> QED BY <1>4, CallsOfOrder DEF Releasing, Final

LEMMA NextAtomic ==
    ASSUME BatchInv, [BulkNext]_bulkVars
    PROVE  AtomicInv'
<1>1. AtomicInv
  BY DEF BatchInv
<1>2. ASSUME NEW c \in Calls, NEW r, Arrives(c, r)
      PROVE  AtomicInv'
  BY <1>1, <1>2, ArriveAtomic DEF Arrives
<1> QED BY <1>1, <1>2, ServerSteps, ServeAtomic, StutterAtomic

LEMMA NextType ==
    ASSUME BatchInv, [BulkNext]_bulkVars
    PROVE  BulkTypeOK'
<1>0. AtomicInv' /\ BulkTypeOK /\ MaxOutages \in Nat
  BY NextAtomic, BulkAssumption DEF BatchInv
<1>1. stock' \in [Products -> Nat] /\ booking' \in [Calls -> {"none", "RESERVED", "RELEASED"}]
  BY <1>0 DEF AtomicInv, AtomicTypes
<1> DEFINE Handlers ==
             /\ saved \subseteq BulkOrderRefs
             /\ at \in [Batches -> {"new", "stream", "persist", "release", "done"}]
             /\ \A b \in Batches : left[b] \subseteq OrdersOf(b)
             /\ result \in [Batches -> {"none", "200", "500", "5xx", "lost"}]
           More ==
             /\ left = [b \in Batches |-> left[b]]
             /\ \A b \in Batches : OrdersOf(b) \subseteq BulkOrderRefs
<1>2. Handlers /\ outages \in 0 .. MaxOutages /\ More
  BY <1>0 DEF BulkTypeOK, BatchInv, BulkInv, ServerInv, Domains, BulkOrderRefs
<1>3. ASSUME NEW b \in Batches,
             OpenStream(b) \/ StreamBroken(b) \/ LineRaised(b) \/ Summary(b) \/ Report(b)
      PROVE  Handlers' /\ UNCHANGED outages
  BY <1>2, <1>3 DEF OpenStream, StreamBroken, LineRaised, Summary, Report, Respond, Goto
<1>4. ASSUME NEW b \in Batches, Commit(b) \/ CommitRaises(b) \/ ReleaseEnds(b)
      PROVE  Handlers' /\ UNCHANGED outages
  <2>1. Persisted(b) \subseteq OrdersOf(b) /\ Partial(b) \subseteq OrdersOf(b)
    BY DEF Persisted, Partial
  <2>2. CASE Commit(b)
    BY <1>2, <2>1, <2>2 DEF Commit, Goto
  <2>3. CASE CommitRaises(b)
    BY <1>2, <2>1, <2>3 DEF CommitRaises, Respond, Goto
  <2>4. CASE ReleaseEnds(b)
    BY <1>2, <2>4 DEF ReleaseEnds
  <2> QED BY <1>4, <2>2, <2>3, <2>4
<1>5. ASSUME NEW b \in Batches, SendRelease(b)
      PROVE  Handlers' /\ UNCHANGED outages
  BY <1>2, <1>5 DEF SendRelease, bulkHandlers
<1>6. ASSUME NEW c \in Calls, ReadLine(c) \/ BulkServe(c)
      PROVE  Handlers' /\ UNCHANGED outages
  BY <1>2, <1>6 DEF ReadLine, BulkServe, bulkHandlers
<1>7. ASSUME NEW c \in Calls, CallFails(c)
      PROVE  Handlers' /\ outages' \in 0 .. MaxOutages
  <2>1. outages' \in 0 .. MaxOutages
    BY <1>0, <1>2, <1>7 DEF CallFails
  <2>2. UNCHANGED <<saved, at, left, result>>
    BY <1>7 DEF CallFails, bulkHandlers
  <2> QED BY <1>2, <2>1, <2>2
<1>8. ASSUME BulkCrash
      PROVE  Handlers' /\ UNCHANGED outages
  BY <1>2, <1>8 DEF BulkCrash
<1>9. ASSUME UNCHANGED bulkVars
      PROVE  Handlers' /\ UNCHANGED outages
  BY <1>2, <1>9 DEF bulkVars, bulkHandlers
<1>10. Handlers' /\ outages' \in 0 .. MaxOutages
  <2> HIDE DEF Handlers
  <2> QED BY <1>2, <1>3, <1>4, <1>5, <1>6, <1>7, <1>8, <1>9 DEF BulkNext, BulkHandle
<1> QED BY <1>1, <1>10 DEF BulkTypeOK

\* What is held for an order grows only by a reserve of one of its lines, and
\* what work on another call does to it leaves the answer of its release.
LEMMA HoldingSteps ==
    ASSUME BatchInv, NEW c \in Calls, Serve(c) \/ Fail(c), NEW o \in BulkOrderRefs
    PROVE  Holding(o)' \subseteq Holding(o) \/ (Reserve(c) /\ c \in LineCalls(o))
<1>1. LineCalls(o)' = LineCalls(o) /\ LineCalls(o) \subseteq Calls
  BY CallsOfOrder DEF LineCalls, ItemsOf
<1>2. booking = [d \in Calls |-> booking[d]]
  BY DEF BatchInv, BulkInv, ServerInv, Domains
<1>3. CASE UNCHANGED booking
  BY <1>1, <1>3 DEF Holding
<1>4. CASE Reserve(c)
  <2>1. booking' = [booking EXCEPT ![c] = "RESERVED"]
    BY <1>4 DEF Reserve
  <2>2. \A d \in LineCalls(o) : d # c => booking'[d] = booking[d]
    BY <1>1, <1>2, <2>1
  <2>3. CASE c \in LineCalls(o)
    BY <1>4, <2>3
  <2>4. CASE c \notin LineCalls(o)
    BY <1>1, <2>2, <2>4 DEF Holding
  <2> QED BY <2>3, <2>4
<1>5. CASE Return(c)
  <2>1. booking' = [d \in Calls |-> IF d \in due[c] \cap Active THEN "RELEASED" ELSE booking[d]]
    BY <1>5 DEF Return
  <2> QED BY <1>1, <2>1 DEF Holding
<1> QED BY <1>3, <1>4, <1>5 DEF Serve, Fail, Replay, Miss, Reject, Collide, Decide, Find

\* Work on the release of o.
LEMMA ReleaseWork ==
    ASSUME BatchInv, NEW o \in BulkOrderRefs, Serve(ReleaseCall(o)) \/ Fail(ReleaseCall(o))
    PROVE  /\ due'[ReleaseCall(o)] # {} => Holding(o)' \subseteq due'[ReleaseCall(o)]
           /\ reply'[ReleaseCall(o)] \in {"released", "nothing"} => Holding(o)' = {}
<1> DEFINE c == ReleaseCall(o)
<1>0. /\ AtomicTypes /\ ServerInv /\ c \in Calls /\ OrderOf(c) = o
      /\ \A d \in LineCalls(o) : d \in Calls /\ OrderOf(d) = o /\ d # c
      /\ LineCalls(o)' = LineCalls(o)
      /\ due[c] # {} => Holding(o) \subseteq due[c]
  BY CallsOfOrder DEF BatchInv, BulkInv, AtomicInv, ReleaseInv, LineCalls, ItemsOf
<1>1. req[c] # NoRequest /\ reply[c] = "none"
  BY DEF Serve, Fail, Replay, Miss, Reserve, Reject, Collide, Decide, Find, Return, Pending
<1>2. Holding(o)' \subseteq Holding(o)
  BY <1>0, HoldingSteps
<1> HIDE DEF c
<1>3. CASE Replay(c) \/ Miss(c) \/ Reserve(c) \/ Reject(c) \/ Collide(c)
  <2>1. UNCHANGED due /\ reply'[c] \in {"none", "replayed", "reserved", "rejected", "duplicate"}
    BY <1>0, <1>1, <1>3 DEF Replay, Miss, Reserve, Reject, Collide, Decide, Answer, AtomicTypes
  <2> QED BY <1>0, <1>2, <2>1 DEF c
<1>4. CASE Find(c)
  <2>1. /\ due'[c] = {d \in Active : req[d].ref = req[c].ref}
        /\ due'[c] = {} \/ reply'[c] = "none"
    BY <1>0, <1>1, <1>4 DEF Find, AtomicTypes
  <2>2. req[c].ref = o
    BY <1>0, <1>1, RefIsOrder DEF ServerInv
  <2>3. ASSUME NEW d \in Holding(o)
        PROVE  d \in due'[c]
    <3>1. d \in Calls /\ OrderOf(d) = o /\ booking[d] = "RESERVED"
      BY <1>0 DEF Holding
    <3>2. req[d].ref = o
      BY <1>0, <3>1, RefIsOrder DEF ServerInv, Kept
    <3> QED BY <2>1, <2>2, <3>1, <3>2 DEF Active
  <2> QED BY <1>2, <2>1, <2>3 DEF c
<1>5. CASE Return(c)
  <2>1. /\ due[c] # {} /\ due'[c] = {}
        /\ booking' = [d \in Calls |-> IF d \in due[c] \cap Active THEN "RELEASED" ELSE booking[d]]
    BY <1>0, <1>5 DEF Return, AtomicTypes
  <2>2. Holding(o)' = {}
    BY <1>0, <2>1 DEF Holding, Active
  <2> QED BY <2>1, <2>2 DEF c
<1>6. CASE Fail(c)
  <2>1. due'[c] = {} /\ reply'[c] = "failed"
    BY <1>0, <1>6 DEF Fail, Answer, AtomicTypes
  <2> QED BY <2>1 DEF c
<1> QED BY <1>3, <1>4, <1>5, <1>6 DEF Serve, c

LEMMA NextRelease ==
    ASSUME BatchInv, [BulkNext]_bulkVars
    PROVE  ReleaseInv'
<1>0. /\ AtomicTypes /\ ReleaseInv /\ ServerInv /\ Final
      /\ \A o \in BulkOrderRefs : /\ ReleaseCall(o) \in Calls /\ LineCalls(o) \subseteq Calls
                                  /\ LineCalls(o)' = LineCalls(o)
                                  /\ ReleaseCall(o)' = ReleaseCall(o)
                                  /\ ReleaseCall(o) \notin LineCalls(o)
  BY CallsOfOrder, NextFinal DEF BatchInv, BulkInv, AtomicInv, LineCalls, ItemsOf, ReleaseCall
<1>1. \A c \in Calls : Outcome(c) => Outcome(c)'
  BY <1>0 DEF Final, Outcome
<1>2. ASSUME NEW c \in Calls, NEW r, Arrives(c, r)
      PROVE  ReleaseInv'
  <2>1. /\ req' = [req EXCEPT ![c] = r] /\ req[c] = NoRequest
        /\ UNCHANGED <<booking, due, reply>>
    BY <1>2 DEF Arrives, Arrive
  <2>2. \A d \in Calls : req'[d] = NoRequest => reply'[d] = "none"
    BY <1>0, <2>1 DEF AtomicTypes, ReleaseInv
  <2>3. \A o \in BulkOrderRefs : Holding(o)' = Holding(o)
    BY <1>0, <2>1 DEF Holding
  <2>4. ASSUME NEW o \in BulkOrderRefs, Releasing(o)', NEW d \in LineCalls(o)
        PROVE  Outcome(d)'
    <3>1. CASE Releasing(o)
      BY <1>0, <1>1, <3>1 DEF ReleaseInv
    <3>2. CASE ~Releasing(o)
      <4>1. c = ReleaseCall(o)
        BY <1>0, <2>1, <2>4, <3>2 DEF Releasing, AtomicTypes
      <4>2. OrderOf(c) = o /\ c \notin LineCalls(o)
        BY <4>1, CallsOfOrder
      <4>3. PICK b \in Batches : \E q \in left[b] : at[b] = "release" /\ c = ReleaseCall(q)
        BY <1>2, <4>2 DEF Arrives
      <4>4. PICK q \in left[b] : at[b] = "release" /\ c = ReleaseCall(q)
        BY <4>3
      <4>5. q \in OrdersOf(b) /\ q \in BulkOrderRefs
        BY DEF BatchInv, BulkInv, HandlerInv, BulkOrderRefs
      <4>6. q = o
        BY <4>2, <4>4, <4>5, CallsOfOrder
      <4>7. Exhausted(b)
        BY <4>4 DEF BatchInv, ReportInv, Accounted
      <4>8. d \in StreamOf(b)
        BY <4>5, <4>6 DEF StreamOf
      <4> QED BY <1>0, <1>1, <4>7, <4>8 DEF Exhausted
    <3> QED BY <3>1, <3>2
  <2> QED BY <1>0, <2>1, <2>2, <2>3, <2>4 DEF ReleaseInv
<1>3. ASSUME NEW c \in Calls, Serve(c) \/ Fail(c)
      PROVE  ReleaseInv'
  <2>1. /\ UNCHANGED req /\ req[c] # NoRequest /\ reply[c] = "none"
        /\ \A d \in Calls : d # c => reply'[d] = reply[d] /\ due'[d] = due[d]
    BY <1>0, <1>3 DEF Serve, Fail, Replay, Miss, Reserve, Reject, Collide, Decide, Find, Return,
       Pending, Answer, AtomicTypes
  <2>2. \A d \in Calls : req'[d] = NoRequest => reply'[d] = "none"
    BY <1>0, <2>1 DEF ReleaseInv
  <2>3. \A o \in BulkOrderRefs : Releasing(o)' => \A d \in LineCalls(o) : Outcome(d)'
    BY <1>0, <1>1, <2>1 DEF ReleaseInv, Releasing
  <2>4. ASSUME NEW o \in BulkOrderRefs
        PROVE  /\ due'[ReleaseCall(o)] # {} => Holding(o)' \subseteq due'[ReleaseCall(o)]
               /\ reply'[ReleaseCall(o)] \in {"released", "nothing"} => Holding(o)' = {}
    <3>1. CASE c = ReleaseCall(o)
      BY <1>3, <3>1, ReleaseWork
    <3>2. CASE c # ReleaseCall(o) /\ Holding(o)' \subseteq Holding(o)
      BY <1>0, <2>1, <3>2 DEF ReleaseInv
    <3>3. CASE c \in LineCalls(o)
      <4>1. ~Releasing(o)
        BY <1>0, <2>1, <3>3 DEF ReleaseInv, Outcome
      <4>2. reply[ReleaseCall(o)] = "none" /\ due[ReleaseCall(o)] = {}
        BY <1>0, <4>1, CallsOfOrder DEF ReleaseInv, Releasing, ServerInv, OwnDue
      <4> QED BY <1>0, <2>1, <3>3, <4>2
    <3> QED BY <1>3, <3>1, <3>2, <3>3, HoldingSteps
  <2> QED BY <1>0, <2>2, <2>3, <2>4 DEF ReleaseInv
<1>4. CASE UNCHANGED atomicVars
  <2>1. \A o \in BulkOrderRefs : Holding(o)' = Holding(o)
    BY <1>0, <1>4 DEF Holding, atomicVars
  <2> QED BY <1>0, <1>4, <2>1 DEF ReleaseInv, Releasing, Outcome, atomicVars
<1> QED BY <1>2, <1>3, <1>4, ServerSteps

-----------------------------------------------------------------------------
(* The report.                                                             *)

\* What a batch has been accounted for stays so.
LEMMA AccountStands ==
    ASSUME BatchInv, [BulkNext]_bulkVars, NEW b \in Batches, Accounted(b), saved \subseteq saved',
           \A o \in left[b] : o \in left'[b] \/ Releasing(o)
    PROVE  Accounted(b)'
<1>1. Final /\ \A o \in BulkOrderRefs : Releasing(o) => Releasing(o)'
  BY NextFinal
<1>2. \A o \in OrdersOf(b) : o \in BulkOrderRefs
  BY DEF BulkOrderRefs
<1>3. Exhausted(b)'
  BY <1>1, AnswersStand DEF Accounted
<1>4. ASSUME NEW o \in OrdersOf(b)
      PROVE  ReservedLines(o)' = ReservedLines(o)
  <2>1. \A c \in LineCalls(o) : Outcome(c) /\ c \in Calls
    BY <1>2, CallsOfOrder DEF Accounted, Exhausted, StreamOf
  <2>2. \A c \in LineCalls(o) : reply'[c] = reply[c]
    BY <1>1, <2>1 DEF Final, Outcome
  <2>3. LineCalls(o)' = LineCalls(o)
    BY DEF LineCalls, ItemsOf
  <2> QED BY <2>2, <2>3 DEF ReservedLines
<1>5. OrdersOf(b)' = OrdersOf(b)
  BY DEF OrdersOf
<1> QED BY <1>1, <1>2, <1>3, <1>4, <1>5 DEF Accounted

LEMMA NextReport ==
    ASSUME BatchInv, [BulkNext]_bulkVars
    PROVE  ReportInv'
<1>0. /\ ReportInv /\ BulkTypeOK /\ Domains
      /\ \A b \in Batches : at[b] = "persist" => Exhausted(b)
  BY DEF BatchInv, BulkInv, ServerInv, HandlerInv
<1>1. ASSUME saved \subseteq saved',
             \A b \in Batches : at'[b] = "release" => at[b] = "release",
             \A b \in Batches : result'[b] = "200" =>
                 at'[b] = "done" /\ Accounted(b) /\ left'[b] = {},
             \A b \in Batches : \A o \in left[b] : o \in left'[b] \/ Releasing(o)
      PROVE  ReportInv'
  BY <1>0, <1>1, AccountStands DEF ReportInv
<1>2. ASSUME UNCHANGED bulkHandlers
      PROVE  ReportInv'
  BY <1>0, <1>1, <1>2 DEF bulkHandlers, ReportInv
<1>3. ASSUME NEW b \in Batches, OpenStream(b) \/ Summary(b)
      PROVE  ReportInv'
  <2>1. /\ UNCHANGED <<saved, left, result>> /\ at[b] # "done"
        /\ at' = [at EXCEPT ![b] = "stream"] \/ at' = [at EXCEPT ![b] = "persist"]
    BY <1>3 DEF OpenStream, Summary, Goto
  <2> QED BY <1>0, <1>1, <2>1 DEF Domains, ReportInv
<1>4. ASSUME NEW b \in Batches, StreamBroken(b) \/ LineRaised(b) \/ CommitRaises(b) \/ Report(b)
      PROVE  ReportInv'
  <2>1. /\ UNCHANGED left /\ saved \subseteq saved' /\ at' = [at EXCEPT ![b] = "done"]
        /\ \E status : /\ result' = [result EXCEPT ![b] = status]
                       /\ status = "200" => at[b] = "release" /\ left[b] = {}
    BY <1>4 DEF StreamBroken, LineRaised, CommitRaises, Report, Respond, Goto
  <2>2. \A d \in Batches : result'[d] = "200" =>
            at'[d] = "done" /\ Accounted(d) /\ left'[d] = {}
    BY <1>0, <2>1 DEF BulkTypeOK, ReportInv
  <2>3. \A d \in Batches : at'[d] = "release" => at[d] = "release"
    BY <1>0, <2>1 DEF Domains
  <2> QED BY <1>1, <2>1, <2>2, <2>3
<1>5. ASSUME NEW b \in Batches, ReleaseEnds(b)
      PROVE  ReportInv'
  <2>1. PICK o \in left[b] : /\ UNCHANGED <<saved, at, result>> /\ at[b] = "release"
                            /\ left' = [left EXCEPT ![b] = @ \ {o}]
                            /\ Releasing(o)
    BY <1>5 DEF ReleaseEnds, Releasing
  <2>2. \A d \in Batches : d # b => left'[d] = left[d]
    BY <1>0, <2>1 DEF Domains
  <2>3. left'[b] = left[b] \ {o}
    BY <1>0, <2>1 DEF Domains
  <2>4. result[b] # "200"
    BY <1>0, <2>1 DEF ReportInv
  <2>5. \A d \in Batches : \A q \in left[d] : q \in left'[d] \/ Releasing(q)
    BY <2>1, <2>2, <2>3
  <2>6. \A d \in Batches : result'[d] = "200" =>
            at'[d] = "done" /\ Accounted(d) /\ left'[d] = {}
    BY <1>0, <2>1, <2>2, <2>4 DEF ReportInv
  <2> QED BY <1>1, <2>1, <2>5, <2>6
<1>6. ASSUME NEW b \in Batches, Commit(b)
      PROVE  ReportInv'
  <2>1. /\ UNCHANGED <<atomicVars, result>> /\ at[b] = "persist"
        /\ saved' = saved \cup Persisted(b)
        /\ left' = [left EXCEPT ![b] = Partial(b)]
        /\ at' = [at EXCEPT ![b] = "release"]
    BY <1>6 DEF Commit, Goto
  <2>2. \A d \in Batches : d # b => left'[d] = left[d] /\ at'[d] = at[d]
    BY <1>0, <2>1 DEF Domains
  <2>3. left'[b] = Partial(b) /\ result[b] # "200"
    BY <1>0, <2>1 DEF Domains, ReportInv
  <2>4. Accounted(b)'
    <3>1. Exhausted(b)'
      BY <1>0, <2>1, NextFinal, AnswersStand
    <3>2. ASSUME NEW o \in OrdersOf(b), o \notin saved'
          PROVE  ReservedLines(o)' = {} \/ o \in left'[b]
      <4>1. o \notin Persisted(b)
        BY <2>1, <3>2
      <4>2. ReservedLines(o)' = ReservedLines(o)
        BY <2>1 DEF ReservedLines, LineCalls, ItemsOf, atomicVars
      <4> QED BY <2>3, <4>1, <4>2 DEF Partial
    <3>3. OrdersOf(b)' = OrdersOf(b)
      BY DEF OrdersOf
    <3> QED BY <3>1, <3>2, <3>3 DEF Accounted
  <2>5. ASSUME NEW d \in Batches, d # b, Accounted(d)
        PROVE  Accounted(d)'
    BY <2>1, <2>2, <2>5, AccountStands
  <2> QED BY <1>0, <2>1, <2>2, <2>3, <2>4, <2>5 DEF ReportInv
<1>7. ASSUME BulkCrash
      PROVE  ReportInv'
  <2>1. /\ UNCHANGED <<saved, left>>
        /\ at' = [d \in Batches |-> IF InFlight(d) THEN "done" ELSE at[d]]
        /\ result' = [d \in Batches |-> IF InFlight(d) THEN "lost" ELSE result[d]]
    BY <1>7 DEF BulkCrash
  <2> QED BY <1>0, <1>1, <2>1 DEF ReportInv, InFlight
<1>8. ASSUME NEW b \in Batches, SendRelease(b)
      PROVE  ReportInv'
  BY <1>2, <1>8 DEF SendRelease
<1>9. ASSUME NEW c \in Calls, ReadLine(c) \/ BulkServe(c) \/ CallFails(c)
      PROVE  ReportInv'
  BY <1>2, <1>9 DEF ReadLine, BulkServe, CallFails
<1>10. ASSUME UNCHANGED bulkVars
       PROVE  ReportInv'
  BY <1>2, <1>10 DEF bulkVars
<1> QED BY <1>3, <1>4, <1>5, <1>6, <1>7, <1>8, <1>9, <1>10 DEF BulkNext, BulkHandle

LEMMA NextBatch == BatchInv /\ [BulkNext]_bulkVars => BatchInv'
<1> SUFFICES ASSUME BatchInv, [BulkNext]_bulkVars
             PROVE  BatchInv'
  OBVIOUS
<1>1. BulkInv'
  BY NextBulk DEF BatchInv
<1> QED BY <1>1, NextAtomic, NextType, NextReport, NextRelease DEF BatchInv

\* BulkTypeOK, for any number of batches, orders and lines.
THEOREM BulkTypeCorrect == BulkSpec => []BulkTypeOK
<1>1. BatchInv => BulkTypeOK
  BY DEF BatchInv
<1> QED BY <1>1, InitBatch, NextBatch, PTL DEF BulkSpec

\* PartialReleased: a batch that was answered with its report holds nothing for
\* an order it did not persist, unless the release of that order failed or is
\* still running.
THEOREM PartialReleasedCorrect == BulkSpec => []PartialReleased
<1>1. BatchInv => PartialReleased
  <2> SUFFICES ASSUME BatchInv, NEW o \in BulkOrderRefs, result[o[1]] = "200", o \notin saved,
                      Releasing(o) => reply[ReleaseCall(o)] \in {"released", "nothing"}
               PROVE  Holding(o) = {}
    BY DEF PartialReleased, Releasing
  <2>1. CASE Releasing(o)
    BY <2>1 DEF BatchInv, ReleaseInv
  <2>2. CASE ~Releasing(o)
    <3>1. PICK b \in Batches : o \in OrdersOf(b)
      BY DEF BulkOrderRefs
    <3>2. o[1] = b
      BY <3>1 DEF OrdersOf
    <3>3. ReservedLines(o) = {}
      BY <2>2, <3>1, <3>2 DEF BatchInv, ReportInv, Accounted
    <3>4. \A c \in LineCalls(o) : c \in Calls /\ reply[c] # "reserved"
      BY <3>3, CallsOfOrder DEF ReservedLines
    <3> QED BY <3>4 DEF Holding, BatchInv, AtomicInv, CallsInv
  <2> QED BY <2>1, <2>2
<1> QED BY <1>1, InitBatch, NextBatch, PTL DEF BulkSpec
=============================================================================
