---------------------------- MODULE WatchBridge ----------------------------
(***************************************************************************)
(* InventoryService.stock_watch: one WebSocket session, bridged to one     *)
(* WatchStock call.  Two tasks pump the two directions; the handler waits  *)
(* for the first of them to end, cancels the other, waits for both and     *)
(* closes the socket.  A third task, grpc's, takes the commands off the    *)
(* queue between.                                                          *)
(*                                                                         *)
(* An action is what a task does from one await to the next: a put on the  *)
(* unbounded queue does not suspend.  Both pumps have begun before anything *)
(* else can happen, so that is where a session starts.                     *)
(***************************************************************************)
EXTENDS Naturals, Sequences, FiniteSets

CONSTANTS
    Scripts,    \* what the browser may send: sequences of Kinds
    MaxUpdates  \* bound: updates the server sends

\* A command; a valid one with an id that no int64 holds; JSON that is no valid
\* command; and a frame that is not JSON.
Kinds == {"command", "huge", "invalid", "text"}

\* The frames that raise where no try of the loop catches it.
Fatal == {"huge", "text"}

ASSUME BridgeAssumption ==
    /\ Scripts \subseteq Seq(Kinds)
    /\ MaxUpdates \in Nat

VARIABLES
    script,     \* the frames the browser sends
    arrived,    \* how many of them have arrived at the socket
    read,       \* how many of them receive_json has returned or failed on
    socket,     \* "open", "left" by the browser, "closed" by the handler
    replies,    \* error replies sent
    inbound,    \* _pump_inbound: "receiving", "replying", "done"
    outbound,   \* _pump_outbound: "awaiting" an update, "sending" it, "done"
    cancelled,  \* the pumps with a cancellation to be delivered
    queue,      \* commands: the frames put, Sentinel for None
    poller,     \* grpc's task over _command_stream: "waiting", "done"
    delivered,  \* the commands written on the call
    call,       \* WatchStock: "active", "ok", "stopped", "error", "cancelled"
    halfClosed, \* its request stream has been closed
    emitted,    \* updates the server has sent
    waiting,    \* updates received and not yet read
    main        \* the handler: "waiting", "gathering", "ended"

bridgeVars == <<script, arrived, read, socket, replies, inbound, outbound, cancelled,
                queue, poller, delivered, call, halfClosed, emitted, waiting, main>>

browserVars == <<script, arrived, socket>>
callVars    == <<poller, delivered, call, halfClosed, emitted, waiting>>
pumpVars    == <<read, replies, inbound, outbound, cancelled, queue>>

Sentinel == 0

NextFrame == script[read + 1]

-----------------------------------------------------------------------------

BridgeInit ==
    /\ script \in Scripts
    /\ arrived = 0 /\ read = 0 /\ replies = 0 /\ emitted = 0 /\ waiting = 0
    /\ socket = "open"
    /\ inbound = "receiving" /\ outbound = "awaiting" /\ main = "waiting"
    /\ cancelled = {}
    /\ queue = <<>> /\ delivered = <<>>
    /\ poller = "waiting" /\ call = "active" /\ halfClosed = FALSE

-----------------------------------------------------------------------------
\* The browser.

SendFrame ==
    /\ socket = "open" /\ arrived < Len(script)
    /\ arrived' = arrived + 1
    /\ UNCHANGED <<script, socket, pumpVars, callVars, main>>

BrowserLeaves ==
    /\ socket = "open"
    /\ socket' = "left"
    /\ UNCHANGED <<script, arrived, pumpVars, callVars, main>>

-----------------------------------------------------------------------------
\* _pump_inbound.

BugEndInbound ==
    /\ inbound' = "done"
    /\ queue' = IF "inbound" \in cancelled THEN queue ELSE Append(queue, Sentinel)
    /\ UNCHANGED <<browserVars, outbound, cancelled, callVars, main>>

\* However the loop ends, the finally clause puts the sentinel.
EndInbound ==
    /\ inbound' = "done"
    /\ queue' = Append(queue, Sentinel)
    /\ UNCHANGED <<browserVars, outbound, cancelled, callVars, main>>

Receiving(kind) ==
    /\ inbound = "receiving" /\ "inbound" \notin cancelled
    /\ read < arrived /\ NextFrame = kind

ReceiveCommand ==
    /\ Receiving("command")
    /\ read' = read + 1
    /\ queue' = Append(queue, read + 1)
    /\ UNCHANGED <<browserVars, replies, inbound, outbound, cancelled, callVars, main>>

BugReceiveInvalid ==
    /\ Receiving("invalid")
    /\ read' = read + 1
    /\ UNCHANGED <<browserVars, replies, inbound, outbound, cancelled, queue, callVars, main>>

ReceiveInvalid ==
    /\ Receiving("invalid")
    /\ read' = read + 1
    /\ inbound' = "replying"
    /\ UNCHANGED <<browserVars, replies, outbound, cancelled, queue, callVars, main>>

BugReply ==
    /\ inbound = "replying" /\ "inbound" \notin cancelled
    /\ replies' = replies + 1
    /\ EndInbound
    /\ UNCHANGED read

\* send_json returns, also when it writes to a socket that is no longer there.
Reply ==
    /\ inbound = "replying" /\ "inbound" \notin cancelled
    /\ replies' = replies + 1
    /\ inbound' = "receiving"
    /\ UNCHANGED <<browserVars, read, outbound, cancelled, queue, callVars, main>>

ReplyFails ==
    /\ inbound = "replying" /\ "inbound" \notin cancelled /\ socket # "open"
    /\ EndInbound
    /\ UNCHANGED <<read, replies>>

\* json.loads raises inside receive_json, or pb2.WatchCommand raises for an id it
\* cannot hold, which WatchCommandIn lets pass; neither is a ValidationError, and
\* the frame is lost.
ReceiveFatal ==
    /\ \E kind \in Fatal : Receiving(kind)
    /\ read' = read + 1
    /\ EndInbound
    /\ UNCHANGED replies

\* WebSocketDisconnect, once the frames before it are read.
Disconnected ==
    /\ inbound = "receiving" /\ "inbound" \notin cancelled
    /\ read = arrived /\ socket # "open"
    /\ EndInbound
    /\ UNCHANGED <<read, replies>>

InboundCancelled ==
    /\ inbound # "done" /\ "inbound" \in cancelled
    /\ EndInbound
    /\ UNCHANGED <<read, replies>>

-----------------------------------------------------------------------------
\* _command_stream, driven by grpc's task, which writes what it yields.

TakeCommand ==
    /\ poller = "waiting" /\ call = "active"
    /\ queue # <<>> /\ Head(queue) # Sentinel
    /\ delivered' = Append(delivered, Head(queue))
    /\ queue' = Tail(queue)
    /\ UNCHANGED <<browserVars, read, replies, inbound, outbound, cancelled,
                   poller, call, halfClosed, emitted, waiting, main>>

\* Writing on a call that is over fails, and the task gives up.
DropCommand ==
    /\ poller = "waiting" /\ call # "active"
    /\ queue # <<>> /\ Head(queue) # Sentinel
    /\ queue' = Tail(queue)
    /\ poller' = "done"
    /\ UNCHANGED <<browserVars, read, replies, inbound, outbound, cancelled,
                   delivered, call, halfClosed, emitted, waiting, main>>

EndRequests ==
    /\ poller = "waiting" /\ queue # <<>> /\ Head(queue) = Sentinel
    /\ queue' = Tail(queue)
    /\ poller' = "done"
    /\ halfClosed' = TRUE
    /\ UNCHANGED <<browserVars, read, replies, inbound, outbound, cancelled,
                   delivered, call, emitted, waiting, main>>

-----------------------------------------------------------------------------
\* _pump_outbound over watch_stock.

TakeUpdate ==
    /\ outbound = "awaiting" /\ "outbound" \notin cancelled /\ waiting > 0
    /\ waiting' = waiting - 1
    /\ outbound' = "sending"
    /\ UNCHANGED <<browserVars, read, replies, inbound, cancelled, queue,
                   poller, delivered, call, halfClosed, emitted, main>>

SendUpdate ==
    /\ outbound = "sending" /\ "outbound" \notin cancelled
    /\ outbound' = "awaiting"
    /\ UNCHANGED <<browserVars, read, replies, inbound, cancelled, queue, callVars, main>>

\* The socket has gone: the pump ends and leaves the call, which is not being
\* read at this moment, as it is.
SendFails ==
    /\ outbound = "sending" /\ "outbound" \notin cancelled /\ socket # "open"
    /\ outbound' = "done"
    /\ UNCHANGED <<browserVars, read, replies, inbound, cancelled, queue, callVars, main>>

EndedWell == call \in {"ok", "stopped"}

\* The stream ends after its last update; an error may overtake updates.
StreamEnds ==
    /\ outbound = "awaiting" /\ "outbound" \notin cancelled
    /\ (EndedWell /\ waiting = 0) \/ call = "error"
    /\ outbound' = "done"
    /\ UNCHANGED <<browserVars, read, replies, inbound, cancelled, queue, callVars, main>>

\* Cancelled while it reads, the pump cancels the call, and with it grpc's task;
\* cancelled while it sends, it leaves the call as it is.
OutboundCancelled ==
    /\ outbound # "done" /\ "outbound" \in cancelled
    /\ outbound' = "done"
    /\ IF outbound = "awaiting" /\ call = "active"
       THEN call' = "cancelled" /\ poller' = "done"
       ELSE UNCHANGED <<call, poller>>
    /\ UNCHANGED <<browserVars, read, replies, inbound, cancelled, queue,
                   delivered, halfClosed, emitted, waiting, main>>

-----------------------------------------------------------------------------
\* The inventory service.

Emit ==
    /\ call = "active" /\ emitted < MaxUpdates
    /\ emitted' = emitted + 1
    /\ waiting' = waiting + 1
    /\ UNCHANGED <<browserVars, pumpVars, poller, delivered, call, halfClosed, main>>

\* WatchStock returns when its requests have ended.
Complete ==
    /\ call = "active" /\ halfClosed
    /\ call' = "ok"
    /\ UNCHANGED <<browserVars, pumpVars, poller, delivered, halfClosed, emitted, waiting, main>>

\* Its listener or its reader raises: stop is set, and WatchStock returns just as
\* well, though its requests go on.
QuitWatch ==
    /\ call = "active"
    /\ call' = "stopped"
    /\ UNCHANGED <<browserVars, pumpVars, poller, delivered, halfClosed, emitted, waiting, main>>

\* WatchStock raises, or the connection breaks.
Break ==
    /\ call = "active"
    /\ call' = "error"
    /\ UNCHANGED <<browserVars, pumpVars, poller, delivered, halfClosed, emitted, waiting, main>>

-----------------------------------------------------------------------------
\* The handler.

Unfinished ==
    {pump \in {"inbound", "outbound"} :
        (IF pump = "inbound" THEN inbound ELSE outbound) # "done"}

BugWake ==
    /\ main = "waiting" /\ Unfinished # {"inbound", "outbound"}
    /\ main' = "gathering"
    /\ UNCHANGED <<browserVars, pumpVars, callVars>>

Wake ==
    /\ main = "waiting" /\ Unfinished # {"inbound", "outbound"}
    /\ cancelled' = Unfinished
    /\ main' = "gathering"
    /\ UNCHANGED <<browserVars, read, replies, inbound, outbound, queue, callVars>>

\* The handler's own task is cancelled: its finally clause does the same.
Interrupted ==
    /\ main = "waiting"
    /\ cancelled' = Unfinished
    /\ main' = "gathering"
    /\ UNCHANGED <<browserVars, read, replies, inbound, outbound, queue, callVars>>

BugClose ==
    /\ main = "gathering" /\ Unfinished # {"inbound", "outbound"}
    /\ socket' = "closed"
    /\ main' = "ended"
    /\ UNCHANGED <<script, arrived, pumpVars, callVars>>

\* gather returns, and the socket is closed.
Close ==
    /\ main = "gathering" /\ Unfinished = {}
    /\ socket' = "closed"
    /\ main' = "ended"
    /\ UNCHANGED <<script, arrived, pumpVars, callVars>>

-----------------------------------------------------------------------------

InboundStep ==
    \/ ReceiveCommand \/ ReceiveInvalid \/ ReceiveFatal \/ Disconnected
    \/ Reply \/ ReplyFails \/ InboundCancelled

OutboundStep == TakeUpdate \/ SendUpdate \/ SendFails \/ StreamEnds \/ OutboundCancelled

PollerStep == TakeCommand \/ DropCommand \/ EndRequests

BridgeNext ==
    \/ SendFrame \/ BrowserLeaves
    \/ InboundStep \/ OutboundStep \/ PollerStep
    \/ Emit \/ Complete \/ QuitWatch \/ Break
    \/ Wake \/ Interrupted \/ Close

\* The event loop runs every task that can run, a write to the socket ends or
\* fails, and the server ends a call whose requests have ended (ThreadsEnd of
\* StockWatch).  Nobody is obliged to send, leave, fail or cancel.
BridgeFairness ==
    /\ WF_bridgeVars(InboundStep) /\ WF_bridgeVars(OutboundStep)
    /\ WF_bridgeVars(PollerStep) /\ WF_bridgeVars(Complete)
    /\ WF_bridgeVars(Wake) /\ WF_bridgeVars(Close)

BridgeSpec == BridgeInit /\ [][BridgeNext]_bridgeVars /\ BridgeFairness

-----------------------------------------------------------------------------
\* Properties.

BridgeTypeOK ==
    /\ script \in Scripts
    /\ arrived \in 0 .. Len(script) /\ read \in 0 .. arrived /\ replies \in 0 .. read
    /\ socket \in {"open", "left", "closed"}
    /\ inbound \in {"receiving", "replying", "done"}
    /\ outbound \in {"awaiting", "sending", "done"}
    /\ cancelled \subseteq {"inbound", "outbound"}
    /\ queue \in Seq(0 .. Len(script)) /\ delivered \in Seq(1 .. Len(script))
    /\ poller \in {"waiting", "done"} /\ halfClosed \in BOOLEAN
    /\ call \in {"active", "ok", "stopped", "error", "cancelled"}
    /\ emitted \in 0 .. MaxUpdates /\ waiting \in 0 .. emitted
    /\ main \in {"waiting", "gathering", "ended"}
    /\ socket = "closed" <=> main = "ended"
    /\ main = "ended" => Unfinished = {}

\* The frames of one kind that have been read.
Frames(kind) == {i \in 1 .. read : script[i] = kind}

\* What the bridge does with what it reads (service.py 132-152): the commands that
\* can be written on a call are on it or on the queue, in order, none twice and
\* none missing while the call lives; the sentinel is put once, after all of them,
\* also when the frame that ends the pump is itself a command; and while the
\* browser is there every invalid frame has its reply.
EveryFrameTreated ==
    LET put == delivered \o queue
        ending == inbound = "done" /\ ~halfClosed
        last == IF ending THEN Len(put) - 1 ELSE Len(put)
    IN /\ call = "active" =>
             /\ {put[i] : i \in 1 .. last} = Frames("command")
             /\ \A i, j \in 1 .. last : i < j => put[i] < put[j]
             /\ ending => last >= 0 /\ put[last + 1] = Sentinel
             /\ halfClosed => inbound = "done"
       /\ socket = "open" /\ inbound # "done" =>
             replies + (IF inbound = "replying" THEN 1 ELSE 0) = Cardinality(Frames("invalid"))

\* Why a pump ends of itself: the browser left, WatchStock failed or gave up, or a
\* frame could not be parsed or converted.  service.py 128-130 admits only the
\* first and counts such frames as malformed, "not fatal"; what is left of it is
\* that no invalid frame, no command that can be converted, no update and no
\* sentinel on its way ends a session.
EndsForCause ==
    main = "waiting" /\ Unfinished # {"inbound", "outbound"} =>
        \/ socket = "left"
        \/ call \in {"stopped", "error"}
        \/ \E kind \in Fatal : Frames(kind) # {}

\* Whichever side goes first, the session comes to its end (service.py 111-112).
SessionEnds ==
    socket = "left" \/ call # "active" \/ Unfinished # {"inbound", "outbound"}
        ~> main = "ended"

\* A session that has ended leaves neither the call nor grpc's task behind, also
\* when the pump that should cancel the call ended in the middle of a send: then
\* it is the sentinel that ends the call (service.py 151-152, 174-188).
NothingLeft == main = "ended" ~> call # "active" /\ poller = "done"
=============================================================================
