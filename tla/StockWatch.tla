----------------------------- MODULE StockWatch -----------------------------
(***************************************************************************)
(* One WatchStock call of the inventory server: the reader thread that     *)
(* applies subscribe and unsubscribe commands to the watch set, the        *)
(* listener thread that turns PostgreSQL notifications into markers, and   *)
(* the generator that takes markers off the events queue, reads the rows   *)
(* and yields updates.  Stock is changed by everybody else: each committed *)
(* change fires NOTIFY, which reaches the listener while its connection is *)
(* up and is lost otherwise.                                               *)
(*                                                                         *)
(* The client's commands are a script that is already under way: the       *)
(* reader may take the next one at any time.                               *)
(***************************************************************************)
EXTENDS Naturals, Sequences

CONSTANTS
    Ids,            \* the product ids a client may name
    Products,       \* those that exist
    Level,          \* Level[p][v]: available_quantity of p after v changes
    MaxChanges,     \* bound: how often each product changes
    MaxLosses,      \* bound: how often the LISTEN connection fails
    Scripts,        \* the command sequences a client may send
    Unsent          \* no value yet: for a product, for the viewer, for a marker

Command == [action : {"SUBSCRIBE", "UNSUBSCRIBE"}, ids : SUBSET Ids]

Versions(p) == 0 .. MaxChanges[p]

ASSUME WatchAssumption ==
    /\ Products \subseteq Ids
    /\ MaxChanges \in [Products -> Nat] /\ MaxLosses \in Nat
    /\ \A p \in Products : Level[p] \in [Versions(p) -> Nat]
    /\ \A p \in Products : \A v \in Versions(p) : v > 0 => Level[p][v] # Level[p][v - 1]
    /\ Scripts \subseteq Seq(Command)
    /\ Unsent \notin Nat \cup Ids

VARIABLES
    version,    \* how many changes of each product have committed
    conn,       \* is the LISTEN connection up?
    inbox,      \* notifications it has delivered and nobody has looked at
    losses,     \* how often the connection has failed
    commands,   \* what the client has sent and the reader has not read
    rpc,        \* "active", "cancelled", or "over" when the handler has returned
    watchSet, newlyAdded, lastSeen, stop, events,   \* as in the code
    reader,     \* the reader thread: "reading" or "ended"
    listener,   \* the listener thread: where it is, and the id it has tested
    generator,  \* the handler: where it is, its ids, rows and snapshot flag
    shown,      \* history: the version each product was last sent at
    owed        \* history: products subscribed and not sent a SNAPSHOT since

database == <<version, conn, inbox, losses>>
shared == <<watchSet, newlyAdded, stop, events>>
history == <<shown, owed>>
watchVars == <<database, commands, rpc, shared, lastSeen, reader, listener, generator, history>>

Running == rpc = "active" /\ ~stop

SnapshotMarker == <<"snapshot", Unsent>>
ResyncMarker == <<"resync", Unsent>>
ChangedMarker(p) == <<"changed", p>>
Markers == {SnapshotMarker, ResyncMarker} \cup {ChangedMarker(p) : p \in Products}

Rows == UNION {{p} \X Versions(p) : p \in Products}
Looping == [at |-> "loop", ids |-> {}, rows |-> {}, snapshot |-> FALSE]

-----------------------------------------------------------------------------

WatchInit ==
    /\ version = [p \in Products |-> 0]
    /\ conn = FALSE
    /\ inbox = <<>>
    /\ losses = 0
    /\ commands \in Scripts
    /\ rpc = "active"
    /\ watchSet = {} /\ newlyAdded = {}
    /\ lastSeen = [p \in Products |-> Unsent]
    /\ stop = FALSE
    /\ events = <<>>
    /\ reader = "reading"
    /\ listener = [at |-> "loop", product |-> Unsent]
    /\ generator = Looping
    /\ shown = [p \in Products |-> Unsent]
    /\ owed = {}

-----------------------------------------------------------------------------
\* The world around the call.

\* A transaction that changes p's available_quantity commits: the row is
\* visible and, while LISTEN stands, its notification is on the way.
Change(p) ==
    /\ version[p] < MaxChanges[p]
    /\ version' = [version EXCEPT ![p] = @ + 1]
    /\ inbox' = IF conn THEN Append(inbox, p) ELSE inbox
    /\ UNCHANGED <<conn, losses, commands, rpc, shared, lastSeen, reader, listener,
                   generator, history>>

\* The client cancels, its connection breaks or the server is stopped.
Cancel ==
    /\ rpc = "active"
    /\ rpc' = "cancelled"
    /\ UNCHANGED <<database, commands, shared, lastSeen, reader, listener, generator,
                   history>>

\* The connection breaks: later notifications are lost, and perhaps those
\* under way.
LoseConnection ==
    /\ conn /\ losses < MaxLosses
    /\ conn' = FALSE
    /\ losses' = losses + 1
    /\ inbox' \in {inbox, <<>>}
    /\ UNCHANGED <<version, commands, rpc, shared, lastSeen, reader, listener, generator,
                   history>>

-----------------------------------------------------------------------------
\* The reader thread, _drain_commands; each command is applied under the lock.

Subscribe ==
    /\ reader = "reading" /\ rpc = "active"
    /\ commands # <<>> /\ Head(commands).action = "SUBSCRIBE"
    /\ LET ids == Head(commands).ids
       IN /\ watchSet' = watchSet \cup ids
          /\ newlyAdded' = newlyAdded \cup ids
          /\ owed' = owed \cup (ids \cap Products)
    /\ events' = Append(events, SnapshotMarker)
    /\ commands' = Tail(commands)
    /\ UNCHANGED <<database, rpc, stop, lastSeen, reader, listener, generator, shown>>

BugUnsubscribe ==
    /\ reader = "reading" /\ rpc = "active"
    /\ commands # <<>> /\ Head(commands).action = "UNSUBSCRIBE"
    /\ watchSet' = watchSet \ Head(commands).ids
    /\ owed' = owed \ Head(commands).ids
    /\ commands' = Tail(commands)
    /\ UNCHANGED <<database, rpc, newlyAdded, stop, events, lastSeen, reader, listener,
                   generator, shown>>

Unsubscribe ==
    /\ reader = "reading" /\ rpc = "active"
    /\ commands # <<>> /\ Head(commands).action = "UNSUBSCRIBE"
    /\ LET ids == Head(commands).ids
       IN /\ watchSet' = watchSet \ ids
          /\ newlyAdded' = newlyAdded \ ids
          /\ owed' = owed \ ids
    /\ commands' = Tail(commands)
    /\ UNCHANGED <<database, rpc, stop, events, lastSeen, reader, listener, generator, shown>>

BugReaderEnds ==
    /\ reader = "reading"
    /\ reader' = "ended"
    /\ UNCHANGED <<database, commands, rpc, shared, lastSeen, listener, generator, history>>

\* finally: stop.set()
ReaderEnds ==
    /\ reader = "reading"
    /\ reader' = "ended"
    /\ stop' = TRUE
    /\ UNCHANGED <<database, commands, rpc, watchSet, newlyAdded, events, lastSeen,
                   listener, generator, history>>

\* request_iterator is exhausted: the client has closed its side.
RequestsEnd == commands = <<>> /\ rpc = "active" /\ ReaderEnds

\* request_iterator raises or ends, because the call is no longer active.
CallEnds == rpc # "active" /\ ReaderEnds

-----------------------------------------------------------------------------
\* The listener thread, _drain_notifications over listen_stock_changes.

At(place) == [at |-> place, product |-> Unsent]

TryConnect ==
    /\ listener.at = "loop" /\ ~stop
    /\ listener' = At("connect")
    /\ UNCHANGED <<database, commands, rpc, shared, lastSeen, reader, generator, history>>

\* Connected, and LISTEN has taken effect.
Connect ==
    /\ listener.at = "connect"
    /\ conn' = TRUE
    /\ inbox' = <<>>
    /\ listener' = At("resync")
    /\ UNCHANGED <<version, losses, commands, rpc, shared, lastSeen, reader, generator,
                   history>>

ConnectFails ==
    /\ listener.at = "connect" /\ losses < MaxLosses
    /\ losses' = losses + 1
    /\ listener' = At("loop")
    /\ UNCHANGED <<version, conn, inbox, commands, rpc, shared, lastSeen, reader, generator,
                   history>>

BugPutResync ==
    /\ listener.at = "resync"
    /\ events' = IF losses = 0 THEN Append(events, ResyncMarker) ELSE events
    /\ listener' = At("notifies")
    /\ UNCHANGED <<database, commands, rpc, watchSet, newlyAdded, stop, lastSeen, reader,
                   generator, history>>

PutResync ==
    /\ listener.at = "resync"
    /\ events' = Append(events, ResyncMarker)
    /\ listener' = At("notifies")
    /\ UNCHANGED <<database, commands, rpc, watchSet, newlyAdded, stop, lastSeen, reader,
                   generator, history>>

\* The next notification; whether its product is watched is tested under the
\* lock, the marker is put after the lock is released.
Notified ==
    /\ listener.at = "notifies" /\ ~stop
    /\ inbox # <<>>
    /\ inbox' = Tail(inbox)
    /\ listener' = IF Head(inbox) \in watchSet
                   THEN [at |-> "put", product |-> Head(inbox)]
                   ELSE listener
    /\ UNCHANGED <<version, conn, losses, commands, rpc, shared, lastSeen, reader, generator,
                   history>>

PutChanged ==
    /\ listener.at = "put"
    /\ events' = Append(events, ChangedMarker(listener.product))
    /\ listener' = At("notifies")
    /\ UNCHANGED <<database, commands, rpc, watchSet, newlyAdded, stop, lastSeen, reader,
                   generator, history>>

\* psycopg.Error: the dead connection is noticed when nothing is left to read.
ConnectionLost ==
    /\ listener.at = "notifies" /\ ~conn
    /\ inbox = <<>>
    /\ listener' = At("loop")
    /\ UNCHANGED <<database, commands, rpc, shared, lastSeen, reader, generator, history>>

\* The loops see stop, at the next notification or tick.
ListenerStops ==
    /\ listener.at \in {"loop", "notifies"} /\ stop
    /\ conn' = FALSE
    /\ inbox' = <<>>
    /\ listener' = At("ended")
    /\ UNCHANGED <<version, losses, commands, rpc, shared, lastSeen, reader, generator,
                   history>>

\* Any other exception ends the watch.
ListenerFails ==
    /\ listener.at = "connect"
    /\ listener' = At("ended")
    /\ stop' = TRUE
    /\ UNCHANGED <<database, commands, rpc, watchSet, newlyAdded, events, lastSeen, reader,
                   generator, history>>

-----------------------------------------------------------------------------
\* The generator.

\* while context.is_active() and not stop.is_set()
LoopAgain ==
    /\ generator.at = "loop" /\ Running
    /\ generator' = [generator EXCEPT !.at = "get"]
    /\ UNCHANGED <<database, commands, rpc, shared, lastSeen, reader, listener, history>>

Take(marker, ids, snapshot) ==
    /\ generator.at = "get"
    /\ events # <<>> /\ Head(events) = marker
    /\ events' = Tail(events)
    /\ generator' = [Looping EXCEPT !.at = "filter", !.ids = ids, !.snapshot = snapshot]
    /\ UNCHANGED <<database, commands, rpc, watchSet, stop, lastSeen, reader, listener,
                   history>>

TakeSnapshot ==
    /\ Take(SnapshotMarker, newlyAdded, TRUE)
    /\ newlyAdded' = {}

TakeChanged ==
    /\ \E p \in Products : Take(ChangedMarker(p), {p}, FALSE)
    /\ UNCHANGED newlyAdded

TakeResync ==
    /\ Take(ResyncMarker, watchSet, FALSE)
    /\ UNCHANGED newlyAdded

\* queue.Empty after a tick.
Timeout ==
    /\ generator.at = "get" /\ events = <<>>
    /\ generator' = Looping
    /\ UNCHANGED <<database, commands, rpc, shared, lastSeen, reader, listener, history>>

\* _rows: the ids still watched, under the lock; none of them, no query.
Filter ==
    /\ generator.at = "filter"
    /\ LET ids == generator.ids \cap watchSet
       IN generator' = IF ids = {} THEN Looping
                       ELSE [generator EXCEPT !.at = "select", !.ids = ids]
    /\ UNCHANGED <<database, commands, rpc, shared, lastSeen, reader, listener, history>>

\* fetch_stock: one query; ids without a product have no row.
Select ==
    /\ generator.at = "select"
    /\ generator' =
         [generator EXCEPT !.at = "yield", !.ids = {},
             !.rows = {<<p, version[p]>> : p \in generator.ids \cap Products}]
    /\ UNCHANGED <<database, commands, rpc, shared, lastSeen, reader, listener, history>>

BugUnchanged(p, v) == FALSE

Unchanged(p, v) == lastSeen[p] = Level[p][v]

SkipRow ==
    /\ generator.at = "yield"
    /\ \E r \in generator.rows :
          /\ ~generator.snapshot /\ Unchanged(r[1], r[2])
          /\ generator' = [generator EXCEPT !.rows = @ \ {r}]
    /\ UNCHANGED <<database, commands, rpc, shared, lastSeen, reader, listener, history>>

\* An update goes out.  The generator is suspended in the yield until grpc asks
\* for the next message, which it does only while the call is active.
YieldRow ==
    /\ generator.at = "yield" /\ rpc = "active"
    /\ \E r \in generator.rows :
          /\ generator.snapshot \/ ~Unchanged(r[1], r[2])
          /\ generator' = [generator EXCEPT !.rows = @ \ {r}]
          /\ lastSeen' = [lastSeen EXCEPT ![r[1]] = Level[r[1]][r[2]]]
          /\ shown' = [shown EXCEPT ![r[1]] = r[2]]
          /\ owed' = IF generator.snapshot THEN owed \ {r[1]} ELSE owed
    /\ UNCHANGED <<database, commands, rpc, shared, reader, listener>>

Exhausted ==
    /\ generator.at = "yield" /\ generator.rows = {}
    /\ generator' = Looping
    /\ UNCHANGED <<database, commands, rpc, shared, lastSeen, reader, listener, history>>

\* The loop condition fails, the query raises, or the call ends during a yield.
Leave ==
    /\ \/ generator.at = "loop" /\ ~Running
       \/ generator.at = "select"
       \/ generator.at = "yield" /\ rpc # "active"
    /\ stop' = TRUE
    /\ generator' = [Looping EXCEPT !.at = "join"]
    /\ UNCHANGED <<database, commands, rpc, watchSet, newlyAdded, events, lastSeen, reader,
                   listener, history>>

\* The join has succeeded or timed out; the handler returns and the call is over.
Return ==
    /\ generator.at = "join"
    /\ generator' = [Looping EXCEPT !.at = "ended"]
    /\ rpc' = "over"
    /\ UNCHANGED <<database, commands, shared, lastSeen, reader, listener, history>>

-----------------------------------------------------------------------------

Environment ==
    \/ \E p \in Products : Change(p)
    \/ Cancel
    \/ LoseConnection

ReaderStep == Subscribe \/ Unsubscribe \/ CallEnds

ListenerStep ==
    \/ TryConnect \/ Connect \/ PutResync \/ Notified \/ PutChanged
    \/ ConnectionLost \/ ListenerStops

GeneratorStep ==
    \/ LoopAgain \/ TakeSnapshot \/ TakeChanged \/ TakeResync \/ Timeout
    \/ Filter \/ Select \/ SkipRow \/ YieldRow \/ Exhausted \/ Leave \/ Return

WatchNext ==
    \/ Environment
    \/ ReaderStep \/ RequestsEnd
    \/ ListenerStep \/ ConnectFails \/ ListenerFails
    \/ GeneratorStep

\* A thread that can go on does.  A query that never answers or a connection
\* that is never made again is not considered; nobody has to change stock, to
\* cancel, to close the request stream or to break a connection.
WatchFairness ==
    WF_watchVars(ReaderStep) /\ WF_watchVars(ListenerStep) /\ WF_watchVars(GeneratorStep)

WatchSpec == WatchInit /\ [][WatchNext]_watchVars /\ WatchFairness

-----------------------------------------------------------------------------
\* Properties.

WatchTypeOK ==
    /\ version \in [Products -> Nat] /\ \A p \in Products : version[p] \in Versions(p)
    /\ conn \in BOOLEAN /\ stop \in BOOLEAN
    /\ inbox \in Seq(Products)
    /\ losses \in 0 .. MaxLosses
    /\ commands \in Seq(Command)
    /\ rpc \in {"active", "cancelled", "over"}
    /\ watchSet \subseteq Ids /\ newlyAdded \subseteq watchSet
    /\ lastSeen \in [Products -> Nat \cup {Unsent}]
    /\ events \in Seq(Markers)
    /\ reader \in {"reading", "ended"}
    /\ \/ listener \in [at : {"loop", "connect", "resync", "notifies", "ended"},
                       product : {Unsent}]
       \/ listener \in [at : {"put"}, product : Products]
    /\ generator \in [at : {"loop", "get", "filter", "select", "yield", "join", "ended"},
                      ids : SUBSET Ids, rows : SUBSET Rows, snapshot : BOOLEAN]
    /\ shown \in [Products -> Nat \cup {Unsent}]
    /\ \A p \in Products : shown[p] \in Versions(p) \cup {Unsent}
    /\ owed \subseteq Products

Queued(marker) == \E i \in 1 .. Len(events) : events[i] = marker

\* Somebody is going to read p's row again, or holds it as it is now.
Covered(p) ==
    \/ ~conn \/ listener.at = "resync"
    \/ \E i \in 1 .. Len(inbox) : inbox[i] = p
    \/ listener.product = p
    \/ Queued(ChangedMarker(p)) \/ Queued(ResyncMarker)
    \/ p \in newlyAdded /\ Queued(SnapshotMarker)
    \/ generator.at \in {"filter", "select"} /\ p \in generator.ids
    \/ <<p, version[p]>> \in generator.rows

Knows(p) == shown[p] # Unsent /\ Level[p][shown[p]] = Level[p][version[p]]

\* No change is missed, however notifications, commands, reconnects and reads
\* interleave (servicer.py 213-301, notifications.py 70-93): while the watch
\* runs, a watched product whose current quantity the viewer does not know is
\* covered by a notification, a marker, a row just read, or the next resync.
NoMissedChange ==
    Running => \A p \in watchSet \cap Products : Knows(p) \/ Covered(p)

\* The call is what StockFeed promises (servicer.py 266-301): updates per product
\* in commit order, CHANGED only with a new quantity, a SNAPSHOT for each
\* subscription, and convergence once stock comes to rest.
Polling ==
    \/ generator.at = "select" /\ generator.ids \cap Products # {}
    \/ generator.rows # {}

Feed ==
    INSTANCE StockFeed WITH
        watched <- watchSet \cap Products,
        open <- Running,
        poll <- IF Polling
                THEN [ids |-> generator.ids \cap Products, rows |-> generator.rows,
                      snapshot |-> generator.snapshot]
                ELSE [ids |-> {}, rows |-> {}, snapshot |-> FALSE]

ImplementsFeed == Feed!FeedSpec

\* Whichever of the three ends first, the client, the database or the handler,
\* all of them end (servicer.py 198-200, 237-238, 251-253, 302-304): no thread,
\* no LISTEN connection and no worker is left behind.
ThreadsEnd ==
    (~Running \/ reader = "ended" \/ listener.at = "ended") ~>
        (reader = "ended" /\ listener.at = "ended" /\ generator.at = "ended" /\ ~conn)

\* What proto/order_inventory.proto 161 says of SNAPSHOT: it is the first value
\* sent after a product is subscribed, so no CHANGED overtakes it.
SnapshotFirst ==
    [][\A p \in Products :
          p \in owed /\ shown'[p] # shown[p] => generator.snapshot]_watchVars
=============================================================================
