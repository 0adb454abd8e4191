----------------------------- MODULE StockFeed -----------------------------
(***************************************************************************)
(* What WatchStock promises a viewer, as if the server simply polled: it   *)
(* asks for products of the current watch set, reads their rows, and sends *)
(* those the viewer has to see.  Per product the values sent follow the    *)
(* order of the commits; a CHANGED differs from what was sent before; and  *)
(* once stock comes to rest, the viewer of a watched product has seen      *)
(* where.  StockWatch.tla, the three threads over an event queue that      *)
(* NOTIFY wakes, is checked to implement this specification.               *)
(***************************************************************************)
EXTENDS Naturals

CONSTANTS
    Products,       \* the products of the catalog
    Level,          \* Level[p][v]: available_quantity of p after v changes
    MaxChanges,     \* bound: how often each product changes
    Unsent          \* shown[p] before anything was sent for p

Versions(p) == 0 .. MaxChanges[p]

VARIABLES
    version,    \* how many changes of each product have committed
    watched,    \* the products of the watch set
    owed,       \* subscribed, and no SNAPSHOT sent since
    poll,       \* products asked for, or the rows read and not yet dealt with
    shown,      \* the version each product was last sent at
    open        \* FALSE once the watch has begun to end

feedVars == <<version, watched, owed, poll, shown, open>>

Idle == [ids |-> {}, rows |-> {}, snapshot |-> FALSE]

Rows == UNION {{p} \X Versions(p) : p \in Products}

\* The viewer knows the quantity p has after v changes.
Knows(p, v) == shown[p] # Unsent /\ Level[p][shown[p]] = Level[p][v]

-----------------------------------------------------------------------------

FeedInit ==
    /\ version = [p \in Products |-> 0]
    /\ watched = {}
    /\ owed = {}
    /\ poll = Idle
    /\ shown = [p \in Products |-> Unsent]
    /\ open = TRUE

Changes(p) ==
    /\ version[p] < MaxChanges[p]
    /\ version' = [version EXCEPT ![p] = @ + 1]
    /\ UNCHANGED <<watched, owed, poll, shown, open>>

Watch(S) ==
    /\ watched' = watched \cup S
    /\ owed' = owed \cup S
    /\ UNCHANGED <<version, poll, shown, open>>

Unwatch(S) ==
    /\ watched' = watched \ S
    /\ owed' = owed \ S
    /\ UNCHANGED <<version, poll, shown, open>>

Ask(S, snapshot) ==
    /\ poll = Idle
    /\ poll' = [ids |-> S, rows |-> {}, snapshot |-> snapshot]
    /\ UNCHANGED <<version, watched, owed, shown, open>>

Read ==
    /\ poll.ids # {}
    /\ poll' = [ids |-> {}, rows |-> {<<p, version[p]>> : p \in poll.ids},
                snapshot |-> poll.snapshot]
    /\ UNCHANGED <<version, watched, owed, shown, open>>

Rest(r) ==
    IF poll.rows = {r} THEN Idle ELSE [poll EXCEPT !.rows = @ \ {r}]

\* A snapshot is always sent, a change only if it is news to the viewer.
Show(r) ==
    /\ r \in poll.rows
    /\ poll.snapshot \/ ~Knows(r[1], r[2])
    /\ poll' = Rest(r)
    /\ shown' = [shown EXCEPT ![r[1]] = r[2]]
    /\ owed' = IF poll.snapshot THEN owed \ {r[1]} ELSE owed
    /\ UNCHANGED <<version, watched, open>>

Skip(r) ==
    /\ r \in poll.rows
    /\ ~poll.snapshot /\ Knows(r[1], r[2])
    /\ poll' = Rest(r)
    /\ UNCHANGED <<version, watched, owed, shown, open>>

\* The stream ends: for the client, the server or both; a poll may be dropped.
End ==
    /\ open' = FALSE
    /\ poll' \in {poll, Idle}
    /\ UNCHANGED <<version, watched, owed, shown>>

FeedNext ==
    \/ \E p \in Products : Changes(p)
    \/ \E S \in SUBSET Products : Watch(S) \/ Unwatch(S)
    \/ \E S \in SUBSET watched, snapshot \in BOOLEAN : Ask(S, snapshot)
    \/ Read
    \/ \E r \in Rows : Show(r) \/ Skip(r)
    \/ End

-----------------------------------------------------------------------------

\* A product that stays watched on a stream that stays open is in the end
\* shown with the quantity it has.
Converges ==
    \A p \in Products :
        <>[](open /\ p \in watched) => <>[]Knows(p, version[p])

\* Each subscription is answered with a SNAPSHOT, unless it is taken back.
SnapshotsCome == \A p \in Products : p \in owed ~> (p \notin owed \/ ~open)

FeedSpec ==
    FeedInit /\ [][FeedNext]_feedVars /\ Converges /\ SnapshotsCome
=============================================================================
