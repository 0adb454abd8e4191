-------------------------- MODULE StockWatchProofs --------------------------
(***************************************************************************)
(* NoMissedChange, for every catalog, script and history of stock, and     *)
(* that each step of a watch is a step of the polling server of StockFeed. *)
(* What is missing from NoMissedChange to be inductive is a row that was   *)
(* read and is out of date when it is sent: the change that made it so     *)
(* must still be announced (StaleAnnounced), or sending the row would      *)
(* replace what the viewer knows by an older value for good.               *)
(***************************************************************************)
EXTENDS StockWatch, TLAPS, SequenceTheorems

\* Rows are in hand only while they are being yielded, ids only before that.
HandInv ==
    /\ generator.at # "yield" => generator.rows = {}
    /\ generator.at \notin {"filter", "select"} => generator.ids = {}

\* last_seen is the quantity the viewer was last sent.
SeenInv ==
    \A p \in Products :
        lastSeen[p] = IF shown[p] = Unsent THEN Unsent ELSE Level[p][shown[p]]

\* A change of p is on its way to the generator.
Announced(p) ==
    \/ ~conn \/ listener.at = "resync"
    \/ \E i \in 1 .. Len(inbox) : inbox[i] = p
    \/ listener.product = p
    \/ Queued(ChangedMarker(p)) \/ Queued(ResyncMarker)
    \/ p \in newlyAdded /\ Queued(SnapshotMarker)

\* The change that made a row in hand stale is on its way.
StaleAnnounced ==
    Running => \A r \in generator.rows :
                 r[1] \in watchSet /\ r[2] # version[r[1]] => Announced(r[1])

\* The inductive invariant.
WatchInv == WatchTypeOK /\ HandInv /\ SeenInv /\ StaleAnnounced /\ NoMissedChange

-----------------------------------------------------------------------------
(* Types.                                                                   *)

\* A row is a product and one of its versions.
LEMMA RowTypes ==
    ASSUME NEW r \in Rows
    PROVE  /\ r[1] \in Products /\ r[2] \in Versions(r[1])
           /\ Level[r[1]][r[2]] \in Nat
<1>1. PICK p \in Products : r \in {p} \X Versions(p)
  BY DEF Rows
<1>2. Level[p] \in [Versions(p) -> Nat]
  BY WatchAssumption
<1> QED BY <1>1, <1>2

\* Every product at any of its versions is a row.
LEMMA RowsHave ==
    ASSUME NEW p \in Products, NEW v \in Versions(p)
    PROVE  <<p, v>> \in Rows
BY DEF Rows

LEMMA InitType == WatchInit => WatchTypeOK
<1> SUFFICES ASSUME WatchInit
             PROVE  WatchTypeOK
  OBVIOUS
<1>1. commands \in Seq(Command) /\ losses \in 0 .. MaxLosses
  BY WatchAssumption DEF WatchInit
<1>2. \A p \in Products : version[p] \in Versions(p)
  BY WatchAssumption DEF WatchInit, Versions
<1>3. inbox \in Seq(Products) /\ events \in Seq(Markers)
  BY DEF WatchInit
<1>4. /\ listener \in [at : {"loop", "connect", "resync", "notifies", "ended"},
                       product : {Unsent}]
      /\ generator \in [at : {"loop", "get", "filter", "select", "yield", "join", "ended"},
                        ids : SUBSET Ids, rows : SUBSET Rows, snapshot : BOOLEAN]
  BY DEF WatchInit, Looping
<1>5. /\ version \in [Products -> Nat]
      /\ lastSeen \in [Products -> Nat \cup {Unsent}]
      /\ shown \in [Products -> Nat \cup {Unsent}]
      /\ \A p \in Products : shown[p] \in Versions(p) \cup {Unsent}
  BY DEF WatchInit
<1> QED BY <1>1, <1>2, <1>3, <1>4, <1>5 DEF WatchInit, WatchTypeOK

LEMMA NextType == WatchTypeOK /\ [WatchNext]_watchVars => WatchTypeOK'
<1> SUFFICES ASSUME WatchTypeOK, [WatchNext]_watchVars
             PROVE  WatchTypeOK'
  OBVIOUS
<1> USE DEF database, shared, history
<1>1. ASSUME NEW p \in Products, Change(p)
      PROVE  WatchTypeOK'
  <2>0. /\ version \in [Products -> Nat] /\ \A q \in Products : version[q] \in Versions(q)
        /\ version[p] < MaxChanges[p] /\ MaxChanges[p] \in Nat
        /\ version' = [version EXCEPT ![p] = @ + 1]
    BY <1>1, WatchAssumption DEF Change, WatchTypeOK
  <2>1. version' \in [Products -> Nat] /\ \A q \in Products : version'[q] \in Versions(q)
    BY <2>0 DEF Versions
  <2>2. inbox' \in Seq(Products)
    BY <1>1 DEF Change, WatchTypeOK
  <2> QED BY <1>1, <2>1, <2>2 DEF Change, WatchTypeOK
<1>2. CASE Cancel
  BY <1>2 DEF Cancel, WatchTypeOK
<1>3. CASE LoseConnection
  <2>1. losses' \in 0 .. MaxLosses
    BY <1>3, WatchAssumption DEF LoseConnection, WatchTypeOK
  <2>2. inbox' \in Seq(Products)
    <3>1. inbox' = inbox \/ inbox' = <<>>
      BY <1>3 DEF LoseConnection
    <3>2. inbox \in Seq(Products)
      BY DEF WatchTypeOK
    <3> QED BY <3>1, <3>2, EmptySeq
  <2> QED BY <1>3, <2>1, <2>2 DEF LoseConnection, WatchTypeOK
<1>4. CASE Subscribe
  <2>1. Head(commands) \in Command /\ Tail(commands) \in Seq(Command)
    BY <1>4, HeadTailProperties DEF Subscribe, WatchTypeOK
  <2>2. events' \in Seq(Markers)
    BY <1>4 DEF Subscribe, WatchTypeOK, Markers
  <2> QED BY <1>4, <2>1, <2>2 DEF Subscribe, WatchTypeOK, Command
<1>5. CASE Unsubscribe
  <2>1. Head(commands) \in Command /\ Tail(commands) \in Seq(Command)
    BY <1>5, HeadTailProperties DEF Unsubscribe, WatchTypeOK
  <2> QED BY <1>5, <2>1 DEF Unsubscribe, WatchTypeOK, Command
<1>6. CASE ReaderEnds
  BY <1>6 DEF ReaderEnds, WatchTypeOK
<1>7. CASE TryConnect \/ Connect \/ ConnectFails \/ ConnectionLost \/ ListenerStops \/ ListenerFails
  <2>1. losses' \in 0 .. MaxLosses
    BY <1>7, WatchAssumption
    DEF TryConnect, Connect, ConnectFails, ConnectionLost, ListenerStops, ListenerFails, WatchTypeOK
  <2>2. inbox' \in Seq(Products)
    <3>1. inbox' = inbox \/ inbox' = <<>>
      BY <1>7 DEF TryConnect, Connect, ConnectFails, ConnectionLost, ListenerStops, ListenerFails
    <3>2. inbox \in Seq(Products)
      BY DEF WatchTypeOK
    <3> QED BY <3>1, <3>2, EmptySeq
  <2>3. /\ UNCHANGED <<version, commands, rpc, watchSet, newlyAdded, events, lastSeen, reader,
                       generator, history>>
        /\ conn' \in BOOLEAN /\ stop' \in BOOLEAN
        /\ \E place \in {"loop", "connect", "resync", "notifies", "ended"} : listener' = At(place)
    BY <1>7
    DEF TryConnect, Connect, ConnectFails, ConnectionLost, ListenerStops, ListenerFails,
        WatchTypeOK
  <2>4. listener' \in [at : {"loop", "connect", "resync", "notifies", "ended"},
                       product : {Unsent}]
    BY <2>3 DEF At
  <2> QED BY <2>1, <2>2, <2>3, <2>4 DEF WatchTypeOK
<1>8. CASE PutResync
  <2>1. events' \in Seq(Markers)
    BY <1>8 DEF PutResync, WatchTypeOK, Markers
  <2> QED BY <1>8, <2>1 DEF PutResync, At, WatchTypeOK
<1>9. CASE Notified
  <2>1. Head(inbox) \in Products /\ Tail(inbox) \in Seq(Products)
    BY <1>9, HeadTailProperties DEF Notified, WatchTypeOK
  <2> QED BY <1>9, <2>1 DEF Notified, WatchTypeOK
<1>10. CASE PutChanged
  <2>1. events' \in Seq(Markers)
    BY <1>10 DEF PutChanged, WatchTypeOK, Markers
  <2> QED BY <1>10, <2>1 DEF PutChanged, At, WatchTypeOK
<1>11. ASSUME NEW m, NEW ids \in SUBSET Ids, NEW b \in BOOLEAN, Take(m, ids, b),
              newlyAdded' \in {newlyAdded, {}}
       PROVE  WatchTypeOK'
  <2>1. events' \in Seq(Markers)
    BY <1>11, HeadTailProperties DEF Take, WatchTypeOK
  <2> QED BY <1>11, <2>1 DEF Take, Looping, WatchTypeOK
<1>12. CASE TakeSnapshot \/ TakeChanged \/ TakeResync
  BY <1>11, <1>12, WatchAssumption DEF TakeSnapshot, TakeChanged, TakeResync, WatchTypeOK
<1>13. CASE LoopAgain \/ Timeout \/ Filter \/ SkipRow \/ Exhausted \/ Leave \/ Return
  <2>1. generator' \in [at : {"loop", "get", "filter", "select", "yield", "join", "ended"},
                        ids : SUBSET Ids, rows : SUBSET Rows, snapshot : BOOLEAN]
    <3>1. generator \in [at : {"loop", "get", "filter", "select", "yield", "join", "ended"},
                         ids : SUBSET Ids, rows : SUBSET Rows, snapshot : BOOLEAN]
      BY DEF WatchTypeOK
    <3>2. CASE LoopAgain
      BY <3>1, <3>2 DEF LoopAgain
    <3>5. CASE Timeout \/ Exhausted
      <4>1. generator' = Looping
        BY <3>5 DEF Timeout, Exhausted
      <4> QED BY <4>1 DEF Looping
    <3>6. CASE Leave \/ Return
      BY <3>6 DEF Leave, Return, Looping
    <3>3. CASE Filter
      BY <3>1, <3>3 DEF Filter, Looping
    <3>4. CASE SkipRow
      BY <3>1, <3>4 DEF SkipRow
    <3> QED BY <1>13, <3>2, <3>3, <3>4, <3>5, <3>6
  <2> QED
    BY <1>13, <2>1
    DEF LoopAgain, Timeout, Filter, SkipRow, Exhausted, Leave, Return, WatchTypeOK
<1>14. CASE Select
  <2>1. {<<p, version[p]>> : p \in generator.ids \cap Products} \in SUBSET Rows
    BY RowsHave DEF WatchTypeOK
  <2> QED BY <1>14, <2>1 DEF Select, WatchTypeOK
<1>15. CASE YieldRow
  <2>1. PICK r \in generator.rows :
          /\ generator' = [generator EXCEPT !.rows = @ \ {r}]
          /\ lastSeen' = [lastSeen EXCEPT ![r[1]] = Level[r[1]][r[2]]]
          /\ shown' = [shown EXCEPT ![r[1]] = r[2]]
          /\ owed' \subseteq owed
    BY <1>15 DEF YieldRow
  <2>2. r \in Rows
    BY DEF WatchTypeOK
  <2>3. r[1] \in Products /\ r[2] \in Versions(r[1]) /\ r[2] \in Nat /\ Level[r[1]][r[2]] \in Nat
    BY <2>2, RowTypes DEF Versions
  <2>4. /\ shown' \in [Products -> Nat \cup {Unsent}]
        /\ \A p \in Products : shown'[p] \in Versions(p) \cup {Unsent}
        /\ lastSeen' \in [Products -> Nat \cup {Unsent}]
    BY <2>1, <2>3 DEF WatchTypeOK
  <2>5. generator' \in [at : {"loop", "get", "filter", "select", "yield", "join", "ended"},
                        ids : SUBSET Ids, rows : SUBSET Rows, snapshot : BOOLEAN]
    BY <2>1 DEF WatchTypeOK
  <2> QED BY <1>15, <2>1, <2>4, <2>5 DEF YieldRow, WatchTypeOK
<1>16. CASE UNCHANGED watchVars
  BY <1>16 DEF watchVars, WatchTypeOK, Running
<1> QED
  BY <1>1, <1>2, <1>3, <1>4, <1>5, <1>6, <1>7, <1>8, <1>9, <1>10, <1>12, <1>13, <1>14, <1>15, <1>16
  DEF WatchNext, Environment, ReaderStep, RequestsEnd, CallEnds, ListenerStep, GeneratorStep

-----------------------------------------------------------------------------
(* Queues.                                                                  *)

Has(s, x) == \E i \in 1 .. Len(s) : s[i] = x

\* Appending keeps what is queued and adds one more.
LEMMA AppendHas ==
    ASSUME NEW S, NEW s \in Seq(S), NEW e \in S
    PROVE  /\ Has(Append(s, e), e)
           /\ \A x : Has(s, x) => Has(Append(s, e), x)
<1>1. /\ Len(Append(s, e)) = Len(s) + 1 /\ Len(s) \in Nat
      /\ \A i \in 1 .. Len(s) : Append(s, e)[i] = s[i]
      /\ Append(s, e)[Len(s) + 1] = e
  BY AppendProperties, LenProperties
<1>2. Len(s) + 1 \in 1 .. Len(Append(s, e)) /\ 1 .. Len(s) \subseteq 1 .. Len(Append(s, e))
  BY <1>1
<1> QED BY <1>1, <1>2 DEF Has

\* Taking the head leaves the others queued.
LEMMA TailHas ==
    ASSUME NEW S, NEW s \in Seq(S), s # <<>>
    PROVE  \A x : Has(s, x) => x = Head(s) \/ Has(Tail(s), x)
<1>1. SUFFICES ASSUME NEW i \in 1 .. Len(s), s[i] # Head(s)
               PROVE  Has(Tail(s), s[i])
  BY DEF Has
<1>2. /\ Len(Tail(s)) = Len(s) - 1 /\ Len(s) \in Nat
      /\ \A j \in 1 .. Len(Tail(s)) : Tail(s)[j] = s[j + 1]
  BY HeadTailProperties, LenProperties
<1>3. Head(s) = s[1]
  OBVIOUS
<1>4. i # 1 /\ i \in Int
  BY <1>1, <1>3
<1>5. i - 1 \in 1 .. Len(Tail(s)) /\ (i - 1) + 1 = i
  BY <1>2, <1>4
<1> QED BY <1>2, <1>5 DEF Has

\* The markers and notifications in terms of Has.
LEMMA AnnouncedHas ==
    \A p : Announced(p) <=>
        \/ ~conn \/ listener.at = "resync"
        \/ Has(inbox, p)
        \/ listener.product = p
        \/ Has(events, ChangedMarker(p)) \/ Has(events, ResyncMarker)
        \/ p \in newlyAdded /\ Has(events, SnapshotMarker)
BY DEF Announced, Queued, Has

\* In the generator's hands, to be read or just read.
Held(p) ==
    \/ generator.at \in {"filter", "select"} /\ p \in generator.ids
    \/ <<p, version[p]>> \in generator.rows

LEMMA CoveredMeans == \A p : Covered(p) <=> Announced(p) \/ Held(p)
BY DEF Covered, Announced, Held

-----------------------------------------------------------------------------
(* What the generator holds.                                                *)

LEMMA InitHand == WatchInit => HandInv /\ SeenInv
BY DEF WatchInit, Looping, HandInv, SeenInv

LEMMA NextHand ==
    ASSUME WatchTypeOK, HandInv, SeenInv, [WatchNext]_watchVars
    PROVE  HandInv' /\ SeenInv'
<1> USE DEF database, shared, history
<1>1. ASSUME UNCHANGED <<generator, lastSeen, shown>>
      PROVE  HandInv' /\ SeenInv'
  BY <1>1 DEF HandInv, SeenInv
<1>2. CASE Environment
  BY <1>1, <1>2 DEF Environment, Change, Cancel, LoseConnection
<1>3. CASE ReaderStep \/ RequestsEnd
  BY <1>1, <1>3 DEF ReaderStep, RequestsEnd, CallEnds, ReaderEnds, Subscribe, Unsubscribe
<1>4. CASE ListenerStep \/ ConnectFails \/ ListenerFails
  BY <1>1, <1>4 DEF ListenerStep, TryConnect, Connect, PutResync, Notified, PutChanged,
     ConnectionLost, ListenerStops, ConnectFails, ListenerFails
<1>5. ASSUME UNCHANGED <<lastSeen, shown>>, HandInv'
      PROVE  HandInv' /\ SeenInv'
  BY <1>5 DEF SeenInv
<1>6. CASE LoopAgain
  BY <1>5, <1>6 DEF LoopAgain, HandInv, WatchTypeOK
<1>7. ASSUME NEW m, NEW ids, NEW b, Take(m, ids, b)
      PROVE  HandInv' /\ SeenInv'
  BY <1>5, <1>7 DEF Take, HandInv, Looping
<1>8. CASE TakeSnapshot \/ TakeChanged \/ TakeResync
  BY <1>7, <1>8 DEF TakeSnapshot, TakeChanged, TakeResync
<1>9. CASE Timeout \/ Exhausted
  BY <1>5, <1>9 DEF Timeout, Exhausted, HandInv, Looping
<1>10. CASE Leave \/ Return
  BY <1>5, <1>10 DEF Leave, Return, HandInv, Looping
<1>11. CASE Filter
  BY <1>5, <1>11 DEF Filter, HandInv, Looping, WatchTypeOK
<1>12. CASE Select
  BY <1>5, <1>12 DEF Select, HandInv, WatchTypeOK
<1>13. CASE SkipRow
  BY <1>5, <1>13 DEF SkipRow, HandInv, WatchTypeOK
<1>14. CASE YieldRow
  <2>1. PICK r \in generator.rows :
          /\ generator' = [generator EXCEPT !.rows = @ \ {r}]
          /\ lastSeen' = [lastSeen EXCEPT ![r[1]] = Level[r[1]][r[2]]]
          /\ shown' = [shown EXCEPT ![r[1]] = r[2]]
    BY <1>14 DEF YieldRow
  <2>2. r[1] \in Products /\ r[2] \in Versions(r[1])
    BY RowTypes DEF WatchTypeOK
  <2>3. r[2] # Unsent
    BY <2>2, WatchAssumption DEF Versions
  <2>4. SeenInv'
    BY <2>1, <2>2, <2>3 DEF SeenInv, WatchTypeOK
  <2>5. HandInv'
    BY <1>14, <2>1 DEF YieldRow, HandInv, WatchTypeOK
  <2> QED BY <2>4, <2>5
<1>15. CASE UNCHANGED watchVars
  BY <1>1, <1>15 DEF watchVars
<1> QED
  BY <1>2, <1>3, <1>4, <1>6, <1>8, <1>9, <1>10, <1>11, <1>12, <1>13, <1>14, <1>15
  DEF WatchNext, GeneratorStep

-----------------------------------------------------------------------------
(* No change is missed.                                                     *)

\* Steps of the other threads: what they take from the announcements of a
\* watched product they put back in another place.
LEMMA AnnouncementsKeep ==
    ASSUME StaleAnnounced, NoMissedChange,
           UNCHANGED <<version, generator, shown>>,
           Running' => Running,
           \A p \in watchSet' \cap Products :
              Announced(p)' \/ (p \in watchSet /\ ~Announced(p))
    PROVE  (\A r \in generator.rows : r[1] \in Products) => StaleAnnounced' /\ NoMissedChange'
<1> SUFFICES ASSUME Running', \A r \in generator.rows : r[1] \in Products
             PROVE  StaleAnnounced' /\ NoMissedChange'
  BY DEF StaleAnnounced, NoMissedChange
<1>1. \A p : Held(p)' = Held(p) /\ Knows(p)' = Knows(p)
  BY DEF Held, Knows
<1>2. NoMissedChange'
  <2>1. \A p : Covered(p)' <=> Announced(p)' \/ Held(p)'
    BY DEF Covered, Announced, Held
  <2> QED BY <1>1, <2>1, CoveredMeans DEF NoMissedChange
<1>3. StaleAnnounced'
  BY DEF StaleAnnounced
<1> QED BY <1>2, <1>3

\* A generator step that takes nothing from the announcements, sends nothing,
\* and drops no id or row of a watched product but one the viewer knows.
LEMMA HandsKeep ==
    ASSUME StaleAnnounced, NoMissedChange,
           UNCHANGED <<version, shown, watchSet>>,
           Running' => Running,
           \A p : Announced(p)' = Announced(p),
           \A p \in watchSet \cap Products : Held(p) => Held(p)' \/ Knows(p),
           \A r \in generator'.rows : r \in generator.rows \/ r[2] = version[r[1]]
    PROVE  StaleAnnounced' /\ NoMissedChange'
<1> SUFFICES ASSUME Running'
             PROVE  StaleAnnounced' /\ NoMissedChange'
  BY DEF StaleAnnounced, NoMissedChange
<1>1. \A p : Knows(p)' = Knows(p)
  BY DEF Knows
<1>2. \A p : Covered(p)' <=> Announced(p)' \/ Held(p)'
  BY DEF Covered, Announced, Held
<1>3. NoMissedChange'
  BY <1>1, <1>2, CoveredMeans DEF NoMissedChange
<1>4. StaleAnnounced'
  BY DEF StaleAnnounced
<1> QED BY <1>3, <1>4

\* Taking a marker: what it announced of a watched product is in hand now.
LEMMA TakeKeeps ==
    ASSUME WatchInv, NEW m \in Markers, NEW ids, NEW b, Take(m, ids, b),
           newlyAdded' = newlyAdded \/ m = SnapshotMarker,
           \A p : m = ChangedMarker(p) => p \in ids,
           m = ResyncMarker => watchSet \subseteq ids,
           m = SnapshotMarker => newlyAdded \subseteq ids
    PROVE  StaleAnnounced' /\ NoMissedChange'
<1>1. /\ generator.at = "get" /\ generator.rows = {}
      /\ generator'.rows = {} /\ generator'.at = "filter" /\ generator'.ids = ids
      /\ UNCHANGED <<version, conn, inbox, listener, watchSet, shown, rpc, stop>>
      /\ events # <<>> /\ Head(events) = m /\ events' = Tail(events)
  BY DEF Take, Looping, WatchInv, HandInv, database, history
<1>2. \A x : Has(events, x) => x = m \/ Has(events', x)
  BY <1>1, TailHas DEF WatchInv, WatchTypeOK
<1>3. /\ \A p : ChangedMarker(p) # ResyncMarker /\ ChangedMarker(p) # SnapshotMarker
      /\ ResyncMarker # SnapshotMarker
      /\ \A p, q : ChangedMarker(p) = ChangedMarker(q) => p = q
  BY DEF ChangedMarker, ResyncMarker, SnapshotMarker
<1>4. \A p : Announced(p)' <=>
        \/ ~conn' \/ listener'.at = "resync"
        \/ Has(inbox', p)
        \/ listener'.product = p
        \/ Has(events', ChangedMarker(p)) \/ Has(events', ResyncMarker)
        \/ p \in newlyAdded' /\ Has(events', SnapshotMarker)
  BY DEF Announced, Queued, Has
<1>5. ASSUME NEW p \in watchSet, Announced(p)
      PROVE  Announced(p)' \/ p \in ids
  <2>1. CASE m = SnapshotMarker
    BY <1>1, <1>2, <1>3, <1>4, <1>5, <2>1, AnnouncedHas
  <2>2. CASE m # SnapshotMarker
    <3>1. newlyAdded' = newlyAdded
      BY <2>2
    <3> QED BY <1>1, <1>2, <1>3, <1>4, <1>5, <2>2, <3>1, AnnouncedHas
  <2> QED BY <2>1, <2>2
<1>6. StaleAnnounced'
  BY <1>1 DEF StaleAnnounced
<1>7. ASSUME NEW p \in watchSet \cap Products, Running
      PROVE  Knows(p)' \/ Covered(p)'
  <2>1. Knows(p) \/ Announced(p)
    BY <1>1, <1>7, CoveredMeans DEF WatchInv, NoMissedChange, Held
  <2>2. Knows(p)' = Knows(p)
    BY <1>1 DEF Knows
  <2>3. Covered(p)' <=> Announced(p)' \/ Held(p)'
    BY DEF Covered, Announced, Held
  <2>4. p \in ids => Held(p)'
    BY <1>1 DEF Held
  <2> QED BY <1>5, <2>1, <2>2, <2>3, <2>4
<1>8. NoMissedChange'
  BY <1>1, <1>7 DEF NoMissedChange, Running
<1> QED BY <1>6, <1>8

\* Whether p is announced, in terms of Has and after a step.
LEMMA AnnouncedNext ==
    \A p : Announced(p)' <=>
        \/ ~conn' \/ listener'.at = "resync"
        \/ Has(inbox', p)
        \/ listener'.product = p
        \/ Has(events', ChangedMarker(p)) \/ Has(events', ResyncMarker)
        \/ p \in newlyAdded' /\ Has(events', SnapshotMarker)
BY DEF Announced, Queued, Has

LEMMA InitCover == WatchInit => StaleAnnounced /\ NoMissedChange
BY DEF WatchInit, StaleAnnounced, NoMissedChange, Looping

\* The environment and the two threads that feed the generator.
LEMMA FeedersCover ==
    ASSUME WatchInv, Environment \/ ReaderStep \/ RequestsEnd
                       \/ ListenerStep \/ ConnectFails \/ ListenerFails
    PROVE  StaleAnnounced' /\ NoMissedChange'
<1> USE DEF database, shared, history
<1>0. /\ StaleAnnounced /\ NoMissedChange
      /\ \A r \in generator.rows : r[1] \in Products
      /\ inbox \in Seq(Products) /\ events \in Seq(Markers)
  BY RowTypes DEF WatchInv, WatchTypeOK
<1>1. ASSUME NEW p \in Products, Change(p)
      PROVE  StaleAnnounced' /\ NoMissedChange'
  <2>1. /\ version' = [version EXCEPT ![p] = @ + 1] /\ version \in [Products -> Nat]
        /\ inbox' = (IF conn THEN Append(inbox, p) ELSE inbox)
        /\ UNCHANGED <<conn, losses, rpc, watchSet, newlyAdded, stop, events, listener,
                       generator, shown>>
    BY <1>1 DEF Change, WatchInv, WatchTypeOK
  <2>2. Announced(p)'
    <3>1. CASE conn
      BY <1>0, <2>1, <3>1, AppendHas, AnnouncedNext
    <3>2. CASE ~conn
      BY <2>1, <3>2, AnnouncedNext
    <3> QED BY <3>1, <3>2
  <2>3. \A q : Announced(q) => Announced(q)'
    BY <1>0, <2>1, AppendHas, AnnouncedHas, AnnouncedNext
  <2>4. \A q \in Products \ {p} : (Held(q) => Held(q)') /\ (Knows(q) => Knows(q)')
    BY <2>1 DEF Held, Knows
  <2>5. Running' = Running
    BY <2>1 DEF Running
  <2>6. \A q : Covered(q)' <=> Announced(q)' \/ Held(q)'
    BY DEF Covered, Announced, Held
  <2>7. NoMissedChange'
    BY <1>0, <2>1, <2>2, <2>3, <2>4, <2>5, <2>6, CoveredMeans DEF NoMissedChange
  <2>8. StaleAnnounced'
    BY <1>0, <2>1, <2>2, <2>3, <2>5 DEF StaleAnnounced
  <2> QED BY <2>7, <2>8
<1>2. CASE Cancel \/ ReaderEnds \/ ListenerFails
  <2>1. ~Running'
    BY <1>2 DEF Cancel, ReaderEnds, ListenerFails, Running
  <2> QED BY <2>1 DEF StaleAnnounced, NoMissedChange
<1>3. CASE Subscribe
  <2> DEFINE ids == Head(commands).ids
  <2>1. /\ watchSet' = watchSet \cup ids /\ newlyAdded' = newlyAdded \cup ids
        /\ events' = Append(events, SnapshotMarker)
        /\ UNCHANGED <<version, conn, inbox, rpc, stop, listener, generator, shown>>
    BY <1>3 DEF Subscribe
  <2>2. SnapshotMarker \in Markers
    BY DEF Markers
  <2>3. \A p : p \in ids \/ Announced(p) => Announced(p)'
    BY <1>0, <2>1, <2>2, AppendHas, AnnouncedHas, AnnouncedNext
  <2> QED BY <1>0, <2>1, <2>3, AnnouncementsKeep DEF Running
<1>4. CASE Unsubscribe
  <2> DEFINE ids == Head(commands).ids
  <2>1. /\ watchSet' = watchSet \ ids /\ newlyAdded' = newlyAdded \ ids
        /\ UNCHANGED <<version, conn, inbox, rpc, stop, events, listener, generator, shown>>
    BY <1>4 DEF Unsubscribe
  <2>2. \A p \in watchSet' : Announced(p) => Announced(p)'
    BY <2>1, AnnouncedHas, AnnouncedNext
  <2> QED BY <1>0, <2>1, <2>2, AnnouncementsKeep DEF Running
<1>5. ASSUME UNCHANGED <<version, watchSet, newlyAdded, rpc, stop, generator, shown>>,
             \A p \in watchSet \cap Products : Announced(p) => Announced(p)'
      PROVE  StaleAnnounced' /\ NoMissedChange'
  BY <1>0, <1>5, AnnouncementsKeep DEF Running
<1>6. CASE LoseConnection \/ Connect \/ ListenerStops
  <2>1. ~conn' \/ listener'.at = "resync"
    BY <1>6 DEF LoseConnection, Connect, ListenerStops, At
  <2>2. \A p : Announced(p)'
    BY <2>1, AnnouncedNext
  <2> QED BY <1>5, <1>6, <2>2 DEF LoseConnection, Connect, ListenerStops
<1>7. CASE TryConnect \/ ConnectFails \/ ConnectionLost
  <2>1. /\ listener.at # "resync" /\ listener.product = Unsent
        /\ UNCHANGED <<conn, inbox, events>>
    BY <1>7 DEF TryConnect, ConnectFails, ConnectionLost, WatchInv, WatchTypeOK
  <2>2. \A p \in Products : p # Unsent
    BY WatchAssumption
  <2>3. \A p \in Products : Announced(p) => Announced(p)'
    <3>1. newlyAdded' = newlyAdded
      BY <1>7 DEF TryConnect, ConnectFails, ConnectionLost
    <3> QED BY <2>1, <2>2, <3>1, AnnouncedHas, AnnouncedNext
  <2> QED BY <1>5, <1>7, <2>3 DEF TryConnect, ConnectFails, ConnectionLost
<1>8. CASE PutResync
  <2>1. ResyncMarker \in Markers
    BY DEF Markers
  <2>2. \A p : Announced(p)'
    BY <1>0, <1>8, <2>1, AppendHas, AnnouncedNext DEF PutResync
  <2> QED BY <1>5, <1>8, <2>2 DEF PutResync
<1>9. CASE Notified
  <2>1. /\ inbox # <<>> /\ inbox' = Tail(inbox)
        /\ listener.at = "notifies" /\ listener.product = Unsent
        /\ Head(inbox) \in watchSet => listener'.product = Head(inbox)
        /\ UNCHANGED <<version, conn, events, watchSet, newlyAdded, rpc, stop, generator, shown>>
    BY <1>9 DEF Notified, WatchInv, WatchTypeOK
  <2>2. \A p : Has(inbox, p) => p = Head(inbox) \/ Has(inbox', p)
    BY <1>0, <2>1, TailHas
  <2>3. \A p \in Products : p # Unsent
    BY WatchAssumption
  <2>4. \A p \in watchSet \cap Products : Announced(p) => Announced(p)'
    BY <2>1, <2>2, <2>3, AnnouncedHas, AnnouncedNext
  <2> QED BY <1>5, <2>1, <2>4
<1>10. CASE PutChanged
  <2>1. /\ listener.at = "put" /\ listener.product \in Products
        /\ events' = Append(events, ChangedMarker(listener.product))
        /\ UNCHANGED <<version, conn, inbox, watchSet, newlyAdded, rpc, stop, generator, shown>>
    BY <1>10 DEF PutChanged, WatchInv, WatchTypeOK
  <2>2. ChangedMarker(listener.product) \in Markers
    BY <2>1 DEF Markers
  <2>3. \A p : Announced(p) => Announced(p)'
    BY <1>0, <2>1, <2>2, AppendHas, AnnouncedHas, AnnouncedNext
  <2> QED BY <1>5, <2>1, <2>3
<1> QED
  BY <1>1, <1>2, <1>3, <1>4, <1>6, <1>7, <1>8, <1>9, <1>10
  DEF Environment, ReaderStep, RequestsEnd, CallEnds, ListenerStep

\* The generator.
LEMMA GeneratorCovers ==
    ASSUME WatchInv, GeneratorStep
    PROVE  StaleAnnounced' /\ NoMissedChange'
<1> USE DEF database, shared, history
<1>0. /\ StaleAnnounced /\ NoMissedChange
      /\ generator.at # "yield" => generator.rows = {}
      /\ generator \in [at : {"loop", "get", "filter", "select", "yield", "join", "ended"},
                        ids : SUBSET Ids, rows : SUBSET Rows, snapshot : BOOLEAN]
  BY DEF WatchInv, WatchTypeOK, HandInv
<1>1. ASSUME UNCHANGED <<version, conn, inbox, watchSet, newlyAdded, events, listener, rpc, stop, shown>>,
             \A p \in watchSet \cap Products : Held(p) => Held(p)' \/ Knows(p),
             \A r \in generator'.rows : r \in generator.rows \/ r[2] = version[r[1]]
      PROVE  StaleAnnounced' /\ NoMissedChange'
  <2>1. \A p : Announced(p)' = Announced(p)
    BY <1>1 DEF Announced, Queued
  <2> QED BY <1>0, <1>1, <2>1, HandsKeep DEF Running
<1>2. CASE LoopAgain
  BY <1>0, <1>1, <1>2 DEF LoopAgain, Held
<1>3. CASE TakeSnapshot
  BY <1>3, TakeKeeps DEF TakeSnapshot, Markers, SnapshotMarker, ChangedMarker, ResyncMarker
<1>4. CASE TakeChanged
  <2>1. PICK p \in Products : Take(ChangedMarker(p), {p}, FALSE)
    BY <1>4 DEF TakeChanged
  <2>2. /\ ChangedMarker(p) \in Markers
        /\ ChangedMarker(p) # ResyncMarker /\ ChangedMarker(p) # SnapshotMarker
        /\ \A q : ChangedMarker(p) = ChangedMarker(q) => p = q
    BY DEF Markers, SnapshotMarker, ChangedMarker, ResyncMarker
  <2> QED BY <1>4, <2>1, <2>2, TakeKeeps DEF TakeChanged
<1>5. CASE TakeResync
  <2>1. /\ ResyncMarker \in Markers /\ ResyncMarker # SnapshotMarker
        /\ \A q : ChangedMarker(q) # ResyncMarker
    BY DEF Markers, SnapshotMarker, ChangedMarker, ResyncMarker
  <2> QED BY <1>5, <2>1, TakeKeeps DEF TakeResync
<1>6. CASE Timeout \/ Exhausted
  <2>1. generator.rows = {} /\ generator.at \notin {"filter", "select"} /\ generator' = Looping
    BY <1>0, <1>6 DEF Timeout, Exhausted
  <2>2. \A p : ~Held(p)
    BY <2>1 DEF Held
  <2>3. generator'.rows = {}
    BY <2>1 DEF Looping
  <2> QED BY <1>1, <1>6, <2>2, <2>3 DEF Timeout, Exhausted
<1>7. CASE Filter
  <2>1. /\ generator.at = "filter" /\ generator.rows = {} /\ generator'.rows = {}
        /\ \A p \in watchSet : p \in generator.ids =>
             generator'.at = "select" /\ p \in generator'.ids
    BY <1>0, <1>7 DEF Filter, Looping
  <2>2. \A p \in watchSet : Held(p) => Held(p)'
    BY <2>1 DEF Held
  <2> QED BY <1>1, <1>7, <2>1, <2>2 DEF Filter
<1>8. CASE Select
  <2>1. /\ generator.at = "select" /\ generator.rows = {} /\ version' = version
        /\ generator'.rows = {<<p, version[p]>> : p \in generator.ids \cap Products}
    BY <1>0, <1>8 DEF Select
  <2>2. \A p \in Products : Held(p) => Held(p)'
    BY <2>1 DEF Held
  <2>3. \A r \in generator'.rows : r[2] = version[r[1]]
    BY <2>1
  <2> QED BY <1>1, <1>8, <2>2, <2>3 DEF Select
<1>9. CASE SkipRow
  <2>1. PICK r \in generator.rows :
          /\ Unchanged(r[1], r[2])
          /\ generator' = [generator EXCEPT !.rows = @ \ {r}]
    BY <1>9 DEF SkipRow
  <2>2. r \in Rows /\ r[1] \in Products /\ Level[r[1]][r[2]] # Unsent
    BY <1>0, RowTypes, WatchAssumption
  <2>3. \A p \in Products : r = <<p, version[p]>> => Knows(p)
    BY <2>1, <2>2 DEF Unchanged, Knows, WatchInv, SeenInv
  <2>4. \A p \in Products : Held(p) => Held(p)' \/ Knows(p)
    BY <1>0, <1>9, <2>1, <2>3 DEF SkipRow, Held
  <2>5. generator'.rows \subseteq generator.rows
    BY <1>0, <2>1
  <2> QED BY <1>1, <1>9, <2>4, <2>5 DEF SkipRow
<1>10. CASE YieldRow
  <2>1. PICK r \in generator.rows :
          /\ generator' = [generator EXCEPT !.rows = @ \ {r}]
          /\ shown' = [shown EXCEPT ![r[1]] = r[2]]
    BY <1>10 DEF YieldRow
  <2>2. r[1] \in Products /\ r[2] # Unsent /\ r = <<r[1], r[2]>>
    <3>1. r \in Rows
      BY <1>0
    <3>2. r[1] \in Products /\ r[2] \in Versions(r[1])
      BY <3>1, RowTypes
    <3> QED BY <3>1, <3>2, WatchAssumption DEF Versions, Rows
  <2>3. /\ UNCHANGED <<version, conn, inbox, watchSet, newlyAdded, events, listener, rpc, stop>>
        /\ generator.at = "yield" /\ generator'.at = "yield"
        /\ generator'.rows = generator.rows \ {r}
        /\ shown \in [Products -> Nat \cup {Unsent}]
    BY <1>0, <1>10, <2>1 DEF YieldRow, WatchInv, WatchTypeOK
  <2>4. /\ \A p : Announced(p)' = Announced(p)
        /\ Running' = Running
    BY <2>3 DEF Announced, Queued, Running
  <2>5. StaleAnnounced'
    BY <1>0, <2>3, <2>4 DEF StaleAnnounced
  <2>6. \A p \in Products \ {r[1]} : (Held(p) => Held(p)') /\ Knows(p)' = Knows(p)
    BY <2>1, <2>2, <2>3 DEF Held, Knows
  <2>7. r[2] = version[r[1]] => Knows(r[1])'
    BY <2>1, <2>2, <2>3 DEF Knows
  <2>8. Running /\ r[1] \in watchSet /\ r[2] # version[r[1]] => Announced(r[1])
    BY <1>0 DEF StaleAnnounced
  <2>9. \A p : Covered(p)' <=> Announced(p)' \/ Held(p)'
    BY DEF Covered, Announced, Held
  <2>10. NoMissedChange'
    BY <1>0, <2>3, <2>4, <2>6, <2>7, <2>8, <2>9, CoveredMeans DEF NoMissedChange
  <2> QED BY <2>5, <2>10
<1>11. CASE Leave \/ Return
  <2>1. ~Running'
    BY <1>11 DEF Leave, Return, Running
  <2> QED BY <2>1 DEF StaleAnnounced, NoMissedChange
<1> QED
  BY <1>2, <1>3, <1>4, <1>5, <1>6, <1>7, <1>8, <1>9, <1>10, <1>11 DEF GeneratorStep

LEMMA InitWatch == WatchInit => WatchInv
BY InitType, InitHand, InitCover DEF WatchInv

LEMMA NextWatch == WatchInv /\ [WatchNext]_watchVars => WatchInv'
<1> SUFFICES ASSUME WatchInv, [WatchNext]_watchVars
             PROVE  WatchInv'
  OBVIOUS
<1>1. WatchTypeOK' /\ HandInv' /\ SeenInv'
  BY NextType, NextHand DEF WatchInv
<1>2. CASE WatchNext
  BY <1>1, <1>2, FeedersCover, GeneratorCovers DEF WatchNext, WatchInv
<1>3. CASE UNCHANGED watchVars
  <2>1. StaleAnnounced' /\ NoMissedChange'
    BY <1>3 DEF watchVars, database, shared, history, WatchInv, StaleAnnounced, NoMissedChange,
       Running, Announced, Covered, Knows, Queued
  <2> QED BY <1>1, <2>1 DEF WatchInv
<1> QED BY <1>2, <1>3

\* For every catalog, script, history of stock and pattern of lost connections,
\* the threads of a watch keep their state well typed.
THEOREM WatchTypeCorrect == WatchSpec => []WatchTypeOK
<1>1. WatchInv => WatchTypeOK
  BY DEF WatchInv
<1> QED BY <1>1, InitWatch, NextWatch, PTL DEF WatchSpec

\* For every instance: a watched product whose current quantity the viewer does
\* not know is covered by a notification, a marker, a row or the next resync.
THEOREM NoMissedChangeCorrect == WatchSpec => []NoMissedChange
<1>1. WatchInv => NoMissedChange
  BY DEF WatchInv
<1> QED BY <1>1, InitWatch, NextWatch, PTL DEF WatchSpec

-----------------------------------------------------------------------------
(* A watch polls: each of its steps is a step of StockFeed or changes       *)
(* nothing that StockFeed sees.                                             *)

Poll == IF Polling
        THEN [ids |-> generator.ids \cap Products, rows |-> generator.rows,
              snapshot |-> generator.snapshot]
        ELSE [ids |-> {}, rows |-> {}, snapshot |-> FALSE]

LEMMA InitFeed == WatchInit => Feed!FeedInit
BY DEF WatchInit, Feed!FeedInit, Feed!Idle, Polling, Looping, Running

\* What the environment and the feeding threads do.
LEMMA FeedersPoll ==
    ASSUME WatchInv, Environment \/ ReaderStep \/ RequestsEnd
                       \/ ListenerStep \/ ConnectFails \/ ListenerFails
    PROVE  Feed!FeedNext \/ UNCHANGED Feed!feedVars
<1> USE DEF database, shared, history
<1>0. /\ owed \subseteq Products
  BY DEF WatchInv, WatchTypeOK
<1>1. ASSUME NEW p \in Products, Change(p)
      PROVE  Feed!FeedNext
  <2>1. Feed!Changes(p)
    BY <1>1 DEF Change, Feed!Changes, Running, Polling
  <2> QED BY <2>1 DEF Feed!FeedNext
<1>2. CASE Cancel \/ ReaderEnds \/ ListenerFails
  <2>1. Feed!End
    BY <1>2 DEF Cancel, ReaderEnds, ListenerFails, Feed!End, Running, Polling
  <2> QED BY <2>1 DEF Feed!FeedNext
<1>3. CASE Subscribe
  <2> DEFINE S == Head(commands).ids \cap Products
  <2>1. Feed!Watch(S)
    BY <1>3 DEF Subscribe, Feed!Watch, Running, Polling
  <2> QED BY <2>1 DEF Feed!FeedNext
<1>4. CASE Unsubscribe
  <2> DEFINE S == Head(commands).ids \cap Products
  <2>1. Feed!Unwatch(S)
    BY <1>0, <1>4 DEF Unsubscribe, Feed!Unwatch, Running, Polling
  <2> QED BY <2>1 DEF Feed!FeedNext
<1>5. CASE \/ LoseConnection \/ TryConnect \/ Connect \/ PutResync \/ Notified \/ PutChanged
           \/ ConnectionLost \/ ListenerStops \/ ConnectFails
  <2>1. UNCHANGED <<version, watchSet, owed, generator, shown, rpc, stop>>
    BY <1>5 DEF LoseConnection, TryConnect, Connect, PutResync, Notified, PutChanged,
       ConnectionLost, ListenerStops, ConnectFails
  <2> QED BY <2>1 DEF Feed!feedVars, Running, Polling
<1> QED
  BY <1>1, <1>2, <1>3, <1>4, <1>5
  DEF Environment, ReaderStep, RequestsEnd, CallEnds, ListenerStep

\* What the generator does.
LEMMA GeneratorPolls ==
    ASSUME WatchInv, GeneratorStep
    PROVE  Feed!FeedNext \/ UNCHANGED Feed!feedVars
<1> USE DEF database, shared, history
<1>0. /\ generator.at # "yield" => generator.rows = {}
      /\ generator.at \notin {"filter", "select"} => generator.ids = {}
      /\ generator \in [at : {"loop", "get", "filter", "select", "yield", "join", "ended"},
                        ids : SUBSET Ids, rows : SUBSET Rows, snapshot : BOOLEAN]
      /\ SeenInv
  BY DEF WatchInv, WatchTypeOK, HandInv
<1>1. ASSUME UNCHANGED <<version, watchSet, owed, shown, rpc, stop>>, ~Polling, ~Polling'
      PROVE  UNCHANGED Feed!feedVars
  BY <1>1 DEF Feed!feedVars, Running
<1>2. CASE LoopAgain \/ Timeout \/ Exhausted
  BY <1>0, <1>1, <1>2 DEF LoopAgain, Timeout, Exhausted, Looping, Polling
<1>3. ASSUME NEW m, NEW ids, NEW b, Take(m, ids, b)
      PROVE  UNCHANGED Feed!feedVars
  BY <1>0, <1>1, <1>3 DEF Take, Looping, Polling
<1>4. CASE TakeSnapshot \/ TakeChanged \/ TakeResync
  BY <1>3, <1>4 DEF TakeSnapshot, TakeChanged, TakeResync
<1>5. CASE Filter
  <2> DEFINE ids == generator.ids \cap watchSet
  <2>1. /\ UNCHANGED <<version, watchSet, owed, shown, rpc, stop>>
        /\ generator.at = "filter" /\ generator.rows = {} /\ generator'.rows = {}
        /\ generator' = IF ids = {} THEN Looping
                        ELSE [generator EXCEPT !.at = "select", !.ids = ids]
    BY <1>0, <1>5 DEF Filter, Looping
  <2>2. CASE ids \cap Products = {}
    BY <1>0, <1>1, <2>1, <2>2 DEF Polling, Looping
  <2>3. CASE ids \cap Products # {}
    <3> DEFINE S == ids \cap Products
    <3>1. /\ ~Polling /\ Polling'
          /\ generator'.ids = ids /\ generator'.snapshot = generator.snapshot
          /\ S \subseteq watchSet \cap Products
      BY <1>0, <2>1, <2>3 DEF Polling
    <3>2. Poll = Feed!Idle
      BY <3>1 DEF Poll, Feed!Idle
    <3>3. Poll' = [ids |-> S, rows |-> {}, snapshot |-> generator.snapshot]
      BY <2>1, <3>1 DEF Poll
    <3>4. Feed!Ask(S, generator.snapshot)
      BY <2>1, <3>2, <3>3 DEF Feed!Ask, Poll, Running
    <3> QED BY <1>0, <3>1, <3>4 DEF Feed!FeedNext
  <2> QED BY <2>2, <2>3
<1>6. CASE Select
  <2>1. /\ UNCHANGED <<version, watchSet, owed, shown, rpc, stop>>
        /\ generator.at = "select" /\ generator.rows = {}
        /\ generator'.at = "yield" /\ generator'.ids = {}
        /\ generator'.snapshot = generator.snapshot
        /\ generator'.rows = {<<p, version[p]>> : p \in generator.ids \cap Products}
    BY <1>0, <1>6 DEF Select
  <2>2. CASE generator.ids \cap Products = {}
    BY <1>1, <2>1, <2>2 DEF Polling
  <2>3. CASE generator.ids \cap Products # {}
    <3>1. Polling /\ Polling'
      BY <2>1, <2>3 DEF Polling
    <3>2. Poll = [ids |-> generator.ids \cap Products, rows |-> {},
                  snapshot |-> generator.snapshot]
      BY <2>1, <3>1 DEF Poll
    <3>3. Poll' = [ids |-> {}, rows |-> {<<p, version[p]>> : p \in Poll.ids},
                   snapshot |-> Poll.snapshot]
      BY <2>1, <3>1, <3>2 DEF Poll
    <3>4. Feed!Read
      BY <2>1, <2>3, <3>2, <3>3 DEF Feed!Read, Poll, Running
    <3> QED BY <3>4 DEF Feed!FeedNext
  <2> QED BY <2>2, <2>3
<1>7. ASSUME NEW r \in generator.rows, generator.at = "yield",
             generator' = [generator EXCEPT !.rows = @ \ {r}]
      PROVE  /\ r \in Feed!Rows /\ r[1] \in Products
             /\ Poll.snapshot = generator.snapshot /\ r \in Poll.rows
             /\ Poll' = IF Poll.rows = {r} THEN Feed!Idle
                        ELSE [Poll EXCEPT !.rows = @ \ {r}]
             /\ Unchanged(r[1], r[2]) <=> Feed!Knows(r[1], r[2])
  <2>1. r \in Rows /\ r[1] \in Products /\ Level[r[1]][r[2]] # Unsent
    BY <1>0, <1>7, RowTypes, WatchAssumption
  <2>2. r \in Feed!Rows
    BY <2>1 DEF Rows, Versions, Feed!Rows, Feed!Versions
  <2>3. Unchanged(r[1], r[2]) <=> Feed!Knows(r[1], r[2])
    BY <1>0, <2>1 DEF Unchanged, Feed!Knows, SeenInv
  <2>4. Poll = [ids |-> {}, rows |-> generator.rows, snapshot |-> generator.snapshot]
    BY <1>0, <1>7 DEF Poll, Polling
  <2>5. /\ generator'.at = "yield" /\ generator'.ids = {}
        /\ generator'.snapshot = generator.snapshot
        /\ generator'.rows = generator.rows \ {r}
    BY <1>0, <1>7
  <2>6. Poll' = IF generator.rows = {r} THEN Feed!Idle
                ELSE [ids |-> {}, rows |-> generator.rows \ {r},
                      snapshot |-> generator.snapshot]
    BY <1>7, <2>5 DEF Poll, Polling, Feed!Idle
  <2> QED BY <1>7, <2>1, <2>2, <2>3, <2>4, <2>6
<1>8. CASE SkipRow
  <2>1. PICK r \in generator.rows :
          /\ generator.at = "yield"
          /\ ~generator.snapshot /\ Unchanged(r[1], r[2])
          /\ generator' = [generator EXCEPT !.rows = @ \ {r}]
          /\ UNCHANGED <<version, watchSet, owed, shown, rpc, stop>>
    BY <1>8 DEF SkipRow
  <2>2. Feed!Skip(r)
    BY <1>7, <2>1 DEF Feed!Skip, Feed!Rest, Running, Poll
  <2> QED BY <1>7, <2>1, <2>2 DEF Feed!FeedNext
<1>9. CASE YieldRow
  <2>1. PICK r \in generator.rows :
          /\ generator.at = "yield"
          /\ generator.snapshot \/ ~Unchanged(r[1], r[2])
          /\ generator' = [generator EXCEPT !.rows = @ \ {r}]
          /\ shown' = [shown EXCEPT ![r[1]] = r[2]]
          /\ owed' = IF generator.snapshot THEN owed \ {r[1]} ELSE owed
          /\ UNCHANGED <<version, watchSet, rpc, stop>>
    BY <1>9 DEF YieldRow
  <2>2. Feed!Show(r)
    BY <1>7, <2>1 DEF Feed!Show, Feed!Rest, Running, Poll
  <2> QED BY <1>7, <2>1, <2>2 DEF Feed!FeedNext
<1>10. CASE Leave \/ Return
  <2>1. generator'.rows = {} /\ generator'.at # "select"
    BY <1>10 DEF Leave, Return, Looping
  <2>2. ~Polling' /\ ~Running'
    BY <1>10, <2>1 DEF Polling, Leave, Return, Running
  <2>3. Feed!End
    BY <1>10, <2>2 DEF Leave, Return, Feed!End, Feed!Idle
  <2> QED BY <2>3 DEF Feed!FeedNext
<1> QED BY <1>2, <1>4, <1>5, <1>6, <1>8, <1>9, <1>10 DEF GeneratorStep

\* For every instance: an update goes out only as the polling server of
\* StockFeed would send it, in commit order per product, CHANGED only for a new
\* quantity, and only for rows asked for while the product was watched.
THEOREM WatchPolls == WatchSpec => Feed!FeedInit /\ [][Feed!FeedNext]_(Feed!feedVars)
<1>1. WatchInv /\ [WatchNext]_watchVars => [Feed!FeedNext]_(Feed!feedVars)
  <2>1. ASSUME UNCHANGED watchVars
        PROVE  UNCHANGED Feed!feedVars
    BY <2>1 DEF watchVars, database, shared, history, Feed!feedVars, Polling, Running
  <2> QED BY <2>1, FeedersPoll, GeneratorPolls DEF WatchNext
<1> QED BY <1>1, InitFeed, InitWatch, NextWatch, PTL DEF WatchSpec
=============================================================================
