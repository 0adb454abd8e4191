------------------------- MODULE WatchBridgeProofs -------------------------
(***************************************************************************)
(* EveryFrameTreated and EndsForCause, for every script of the browser and *)
(* any number of updates.  What is on the call and on the queue together   *)
(* (Put) is only ever appended to, and moved from one to the other; the    *)
(* sentinel can be taken only as its last element, since every other is a  *)
(* frame.  That a pump ends for a cause rests on this: a call that ends    *)
(* because its requests ended has been given the sentinel, so the inbound  *)
(* pump had ended before, and for a cause.                                 *)
(***************************************************************************)
EXTENDS WatchBridge, TLAPS, SequenceTheorems, FiniteSetTheorems

Put == delivered \o queue

\* The sentinel is on the queue.
Ending == inbound = "done" /\ ~halfClosed

Last == IF Ending THEN Len(Put) - 1 ELSE Len(Put)

\* While the call lives, the commands read are put, in order, and the sentinel
\* after them.
PutInv ==
    call = "active" =>
        /\ {Put[i] : i \in 1 .. Last} = Frames("command")
        /\ \A i, j \in 1 .. Last : i < j => Put[i] < Put[j]
        /\ Ending => Last >= 0 /\ Put[Last + 1] = Sentinel
        /\ halfClosed => inbound = "done"

\* Each invalid frame has its reply, or is about to have it.
ReplyInv ==
    inbound # "done" =>
        replies + (IF inbound = "replying" THEN 1 ELSE 0) = Cardinality(Frames("invalid"))

\* Nobody is cancelled before the handler wakes, and a call that WatchStock does
\* not give up ends well only when its requests have ended.
CauseInv ==
    /\ main = "waiting" => cancelled = {}
    /\ call = "ok" => inbound = "done"

\* The inductive invariant.
BridgeInv == BridgeTypeOK /\ PutInv /\ ReplyInv /\ CauseInv /\ EndsForCause

-----------------------------------------------------------------------------
(* Frames.                                                                  *)

\* What is known of the counters.
LEMMA Counters ==
    ASSUME BridgeTypeOK
    PROVE  /\ script \in Seq(Kinds) /\ Len(script) \in Nat
           /\ arrived \in Nat /\ read \in Nat /\ replies \in Nat
           /\ emitted \in Nat /\ waiting \in Nat
           /\ read <= arrived /\ arrived <= Len(script) /\ replies <= read
<1>1. script \in Seq(Kinds)
  BY BridgeAssumption DEF BridgeTypeOK
<1>2. Len(script) \in Nat
  BY <1>1, LenProperties
<1> QED BY <1>1, <1>2, BridgeAssumption DEF BridgeTypeOK

\* Only finitely many frames have been read.
LEMMA FramesFinite ==
    ASSUME read \in Nat, NEW kind
    PROVE  /\ IsFiniteSet(Frames(kind))
           /\ Cardinality(Frames(kind)) \in Nat
           /\ Cardinality(Frames(kind)) <= read
<1>1. IsFiniteSet(1 .. read) /\ Cardinality(1 .. read) = read
  BY FS_Interval
<1>2. Frames(kind) \subseteq 1 .. read
  BY DEF Frames
<1> QED BY <1>1, <1>2, FS_Subset, FS_CardinalityType

\* A frame that is read joins those of its kind.
LEMMA FramesRead ==
    ASSUME read \in Nat, NEW kind, NextFrame = kind, read' = read + 1, script' = script
    PROVE  /\ Frames(kind)' = Frames(kind) \cup {read + 1} /\ read + 1 \notin Frames(kind)
           /\ \A other : other # kind => Frames(other)' = Frames(other)
BY DEF Frames, NextFrame

LEMMA FramesKept ==
    ASSUME UNCHANGED <<read, script>>
    PROVE  \A kind : Frames(kind)' = Frames(kind)
BY DEF Frames

-----------------------------------------------------------------------------
(* Types.                                                                   *)

LEMMA InitBridge == BridgeInit => BridgeInv
<1> SUFFICES ASSUME BridgeInit
             PROVE  BridgeInv
  OBVIOUS
<1>1. /\ script \in Seq(Kinds) /\ Len(script) \in Nat /\ MaxUpdates \in Nat
  BY BridgeAssumption, LenProperties DEF BridgeInit
<1>2. queue \in Seq(0 .. Len(script)) /\ delivered \in Seq(1 .. Len(script))
  BY EmptySeq DEF BridgeInit
<1>3. BridgeTypeOK
  <2>1. /\ 0 \in 0 .. Len(script) /\ 0 \in 0 .. MaxUpdates /\ 0 \in 0 .. 0
    BY <1>1
  <2> QED BY <1>2, <2>1 DEF BridgeInit, BridgeTypeOK
<1>4. \A kind : Frames(kind) = {}
  BY DEF Frames, BridgeInit
<1>5. Put = <<>> /\ Len(Put) = 0 /\ ~Ending
  BY DEF Put, BridgeInit, Ending
<1>6. PutInv
  BY <1>4, <1>5 DEF PutInv, Last, BridgeInit
<1>7. ReplyInv
  <2>1. Cardinality(Frames("invalid")) = 0
    BY <1>4, FS_EmptySet
  <2> QED BY <2>1 DEF ReplyInv, BridgeInit
<1>8. CauseInv /\ EndsForCause
  BY DEF CauseInv, EndsForCause, Unfinished, BridgeInit
<1> QED BY <1>3, <1>6, <1>7, <1>8 DEF BridgeInv

LEMMA NextType ==
    ASSUME BridgeInv, [BridgeNext]_bridgeVars
    PROVE  BridgeTypeOK'
<1> USE DEF browserVars, callVars, pumpVars
<1>0. BridgeTypeOK /\ ReplyInv /\ CauseInv
  BY DEF BridgeInv
<1>1. /\ script \in Seq(Kinds) /\ Len(script) \in Nat
      /\ arrived \in Nat /\ read \in Nat /\ replies \in Nat
      /\ emitted \in Nat /\ waiting \in Nat
      /\ read <= arrived /\ arrived <= Len(script) /\ replies <= read
  BY <1>0, Counters
<1>2. CASE SendFrame
  BY <1>0, <1>1, <1>2 DEF SendFrame, BridgeTypeOK, Unfinished
<1>3. CASE BrowserLeaves
  BY <1>0, <1>3 DEF BrowserLeaves, BridgeTypeOK, Unfinished
<1>4. ASSUME UNCHANGED <<script, socket, arrived, delivered, poller, halfClosed, call,
                         emitted, waiting, cancelled, outbound, main>>,
             read' \in 0 .. arrived, replies' \in 0 .. read',
             queue' \in Seq(0 .. Len(script)),
             inbound # "done",
             inbound' \in {"receiving", "replying", "done"}
      PROVE  BridgeTypeOK'
  BY <1>0, <1>4 DEF BridgeTypeOK, Unfinished
<1>5. queue \in Seq(0 .. Len(script)) /\ Append(queue, Sentinel) \in Seq(0 .. Len(script))
  BY <1>0, <1>1, AppendProperties DEF BridgeTypeOK, Sentinel
<1>6. CASE ReceiveCommand
  <2>1. read < arrived /\ inbound = "receiving" /\ queue' = Append(queue, read + 1)
    BY <1>6 DEF ReceiveCommand, Receiving
  <2>2. queue' \in Seq(0 .. Len(script))
    BY <1>1, <1>5, <2>1, AppendProperties
  <2> QED BY <1>0, <1>1, <1>4, <1>6, <2>1, <2>2 DEF ReceiveCommand
<1>7. CASE ReceiveInvalid \/ ReceiveFatal
  <2>1. read < arrived /\ inbound = "receiving" /\ read' = read + 1 /\ replies' = replies
    BY <1>7 DEF ReceiveInvalid, ReceiveFatal, Receiving
  <2>2. read' \in 0 .. arrived /\ replies' \in 0 .. read'
    BY <1>1, <2>1
  <2> QED BY <1>4, <1>5, <1>7, <2>1, <2>2 DEF ReceiveInvalid, ReceiveFatal, EndInbound
<1>8. CASE Reply
  <2>1. replies + 1 <= read
    BY <1>0, <1>1, <1>8, FramesFinite DEF ReplyInv, Reply
  <2> QED BY <1>1, <1>4, <1>5, <1>8, <2>1 DEF Reply
<1>9. CASE ReplyFails \/ Disconnected \/ InboundCancelled
  <2>1. inbound # "done" /\ UNCHANGED <<read, replies>> /\ EndInbound
    BY <1>9 DEF ReplyFails, Disconnected, InboundCancelled
  <2>2. read' \in 0 .. arrived /\ replies' \in 0 .. read'
    BY <1>1, <2>1
  <2> QED BY <1>4, <1>5, <2>1, <2>2 DEF EndInbound
<1>10. CASE TakeCommand
  <2>1. /\ queue # <<>> /\ Head(queue) # Sentinel /\ queue' = Tail(queue)
        /\ delivered' = Append(delivered, Head(queue)) /\ delivered \in Seq(1 .. Len(script))
    BY <1>0, <1>10 DEF TakeCommand, BridgeTypeOK
  <2>2. Head(queue) \in 0 .. Len(script) /\ Tail(queue) \in Seq(0 .. Len(script))
    BY <1>5, <2>1, HeadTailProperties
  <2>3. Head(queue) \in 1 .. Len(script)
    BY <1>1, <2>1, <2>2 DEF Sentinel
  <2>4. delivered' \in Seq(1 .. Len(script))
    BY <2>1, <2>3, AppendProperties
  <2> QED BY <1>0, <1>10, <2>1, <2>2, <2>4 DEF TakeCommand, BridgeTypeOK, Unfinished
<1>11. CASE DropCommand \/ EndRequests
  <2>1. Tail(queue) \in Seq(0 .. Len(script)) /\ queue' = Tail(queue)
    BY <1>5, <1>11, HeadTailProperties DEF DropCommand, EndRequests
  <2> QED BY <1>0, <1>11, <2>1 DEF DropCommand, EndRequests, BridgeTypeOK, Unfinished
<1>12. CASE TakeUpdate
  <2>1. waiting > 0 /\ waiting' = waiting - 1 /\ waiting \in 0 .. emitted
    BY <1>0, <1>12 DEF TakeUpdate, BridgeTypeOK
  <2>2. waiting' \in 0 .. emitted
    BY <1>1, <2>1
  <2> QED BY <1>0, <1>12, <2>2 DEF TakeUpdate, BridgeTypeOK, Unfinished
<1>13. CASE SendUpdate \/ SendFails \/ StreamEnds \/ OutboundCancelled
  BY <1>0, <1>13 DEF SendUpdate, SendFails, StreamEnds, EndedWell, OutboundCancelled, BridgeTypeOK, Unfinished
<1>14. CASE Emit
  <2>1. /\ emitted < MaxUpdates /\ emitted' = emitted + 1 /\ waiting' = waiting + 1
        /\ emitted \in 0 .. MaxUpdates /\ waiting \in 0 .. emitted /\ MaxUpdates \in Nat
    BY <1>0, <1>14, BridgeAssumption DEF Emit, BridgeTypeOK
  <2>2. emitted' \in 0 .. MaxUpdates /\ waiting' \in 0 .. emitted'
    BY <1>1, <2>1
  <2> QED BY <1>0, <1>14, <2>2 DEF Emit, BridgeTypeOK, Unfinished
<1>15. CASE Complete \/ QuitWatch \/ Break
  BY <1>0, <1>15 DEF Complete, QuitWatch, Break, BridgeTypeOK, Unfinished
<1>16. CASE Wake \/ Interrupted \/ Close
  BY <1>0, <1>16 DEF Wake, Interrupted, Close, BridgeTypeOK, Unfinished
<1>17. CASE UNCHANGED bridgeVars
  BY <1>0, <1>17 DEF bridgeVars, BridgeTypeOK, Unfinished
<1> QED
  BY <1>2, <1>3, <1>6, <1>7, <1>8, <1>9, <1>10, <1>11, <1>12, <1>13, <1>14, <1>15, <1>16, <1>17
  DEF BridgeNext, InboundStep, OutboundStep, PollerStep

-----------------------------------------------------------------------------
(* What is put.                                                             *)

\* Put is a sequence of frames and sentinels.
LEMMA PutSeq ==
    ASSUME BridgeTypeOK
    PROVE  /\ Len(script) \in Nat
           /\ delivered \in Seq(0 .. Len(script)) /\ queue \in Seq(0 .. Len(script))
           /\ Put \in Seq(0 .. Len(script)) /\ Len(Put) \in Nat
           /\ Len(Put) = Len(delivered) + Len(queue)
           /\ Len(delivered) \in Nat /\ Len(queue) \in Nat
           /\ \A i \in 1 .. Len(Put) :
                Put[i] = IF i <= Len(delivered) THEN delivered[i] ELSE queue[i - Len(delivered)]
<1>1. Len(script) \in Nat
  BY Counters
<1>2. delivered \in Seq(1 .. Len(script)) /\ queue \in Seq(0 .. Len(script))
  BY DEF BridgeTypeOK
<1>3. 1 .. Len(script) \subseteq 0 .. Len(script)
  BY <1>1
<1>4. delivered \in Seq(0 .. Len(script))
  BY <1>2, <1>3, SeqMonotonic
<1>5. Len(delivered) \in Nat /\ Len(queue) \in Nat
  BY <1>2, LenProperties
<1> QED BY <1>1, <1>2, <1>4, <1>5, ConcatProperties DEF Put

\* A step that appends x to the queue appends it to what is put.
LEMMA PutAppend ==
    ASSUME BridgeTypeOK, NEW x \in 0 .. Len(script),
           queue' = Append(queue, x), delivered' = delivered
    PROVE  /\ Len(Put') = Len(Put) + 1
           /\ \A i \in 1 .. Len(Put) : Put'[i] = Put[i]
           /\ Put'[Len(Put) + 1] = x
<1> DEFINE S == 0 .. Len(script)
<1>1. delivered \in Seq(S) /\ queue \in Seq(S) /\ Put \in Seq(S)
  BY PutSeq
<1>2. <<x>> \in Seq(S) /\ queue' = queue \o <<x>>
  BY <1>1, AppendIsConcat
<1>3. Put' = Put \o <<x>>
  BY <1>1, <1>2, ConcatAssociative DEF Put
<1>4. Put' = Append(Put, x)
  BY <1>1, <1>3, AppendIsConcat
<1> QED BY <1>1, <1>4, AppendProperties

\* A command that is taken off the queue and delivered remains put.
LEMMA PutMoved ==
    ASSUME BridgeTypeOK, queue # <<>>, queue' = Tail(queue),
           delivered' = Append(delivered, Head(queue))
    PROVE  Put' = Put
<1> DEFINE S == 0 .. Len(script)
<1>1. delivered \in Seq(S) /\ queue \in Seq(S)
  BY PutSeq
<1>2. /\ Head(queue) \in S /\ Tail(queue) \in Seq(S)
      /\ <<Head(queue)>> \in Seq(S)
  BY <1>1, HeadTailProperties
<1>3. queue = <<Head(queue)>> \o Tail(queue)
  BY <1>1
<1>4. delivered' = delivered \o <<Head(queue)>>
  BY <1>1, <1>2, AppendIsConcat
<1>5. Put' = delivered \o (<<Head(queue)>> \o Tail(queue))
  BY <1>1, <1>2, <1>4, ConcatAssociative DEF Put
<1> QED BY <1>3, <1>5 DEF Put

\* Steps that leave alone what is read, put and ended.
LEMMA PutKept ==
    ASSUME PutInv, UNCHANGED <<script, read, inbound, halfClosed>>, Put' = Put,
           call' = "active" => call = "active"
    PROVE  PutInv'
BY FramesKept DEF PutInv, Last, Ending

\* The inbound pump ends; a frame read at this moment is no command.
LEMMA PutEnds ==
    ASSUME BridgeTypeOK, PutInv, inbound # "done", EndInbound,
           Frames("command")' = Frames("command")
    PROVE  PutInv'
<1> SUFFICES ASSUME call = "active"
             PROVE  PutInv'
  BY DEF EndInbound, PutInv, callVars
<1>1. /\ Len(Put') = Len(Put) + 1
      /\ \A i \in 1 .. Len(Put) : Put'[i] = Put[i]
      /\ Put'[Len(Put) + 1] = Sentinel
  <2>1. Sentinel \in 0 .. Len(script)
    BY Counters DEF Sentinel
  <2> QED BY <2>1, PutAppend DEF EndInbound, callVars
<1>2. ~halfClosed /\ ~Ending /\ Last = Len(Put) /\ Len(Put) \in Nat
  BY PutSeq DEF PutInv, Ending, Last
<1>3. Ending' /\ ~halfClosed' /\ inbound' = "done"
  BY <1>2 DEF EndInbound, Ending, callVars
<1>4. Last' = Last
  BY <1>1, <1>2, <1>3 DEF Last
<1>5. {Put'[i] : i \in 1 .. Last} = {Put[i] : i \in 1 .. Last}
  BY <1>1, <1>2
<1>6. /\ {Put'[i] : i \in 1 .. Last'} = Frames("command")'
      /\ \A i, j \in 1 .. Last' : i < j => Put'[i] < Put'[j]
      /\ Last' >= 0 /\ Put'[Last' + 1] = Sentinel
  BY <1>1, <1>2, <1>4, <1>5 DEF PutInv
<1> QED BY <1>3, <1>6 DEF PutInv

\* A command is put after all commands before it.
LEMMA PutCommand ==
    ASSUME BridgeTypeOK, PutInv, ReceiveCommand
    PROVE  PutInv'
<1> SUFFICES ASSUME call = "active"
             PROVE  PutInv'
  BY DEF ReceiveCommand, PutInv, callVars
<1> USE DEF browserVars, callVars
<1>1. /\ inbound = "receiving" /\ read < arrived /\ NextFrame = "command"
      /\ read' = read + 1 /\ queue' = Append(queue, read + 1)
      /\ UNCHANGED <<script, inbound, delivered, halfClosed>>
  BY DEF ReceiveCommand, Receiving
<1>2. read \in Nat /\ read + 1 \in 0 .. Len(script)
  BY <1>1, Counters
<1>3. /\ Len(Put') = Len(Put) + 1
      /\ \A i \in 1 .. Len(Put) : Put'[i] = Put[i]
      /\ Put'[Len(Put) + 1] = read + 1
  BY <1>1, <1>2, PutAppend
<1>4. ~halfClosed /\ Last = Len(Put) /\ Len(Put) \in Nat
  BY <1>1, PutSeq DEF PutInv, Ending, Last
<1>5. ~Ending' /\ Last' = Last + 1
  BY <1>1, <1>3, <1>4 DEF Ending, Last
<1>6. Frames("command")' = Frames("command") \cup {read + 1}
  BY <1>1, <1>2, FramesRead
<1>7. /\ {Put[i] : i \in 1 .. Last} = Frames("command")
      /\ \A i, j \in 1 .. Last : i < j => Put[i] < Put[j]
  BY DEF PutInv
<1>8. \A i \in 1 .. Last : Put'[i] = Put[i] /\ Put[i] \in Nat /\ Put[i] < read + 1
  BY <1>2, <1>3, <1>4, <1>7 DEF Frames
<1>9. 1 .. Last + 1 = (1 .. Last) \cup {Last + 1}
  BY <1>4
<1>10. {Put'[i] : i \in 1 .. Last'} = Frames("command")'
  BY <1>3, <1>4, <1>5, <1>6, <1>7, <1>8, <1>9
<1>11. \A i, j \in 1 .. Last' : i < j => Put'[i] < Put'[j]
  <2> SUFFICES ASSUME NEW i \in 1 .. Last', NEW j \in 1 .. Last', i < j
               PROVE  Put'[i] < Put'[j]
    OBVIOUS
  <2>1. i \in 1 .. Last
    BY <1>4, <1>5
  <2>2. CASE j \in 1 .. Last
    BY <1>7, <1>8, <2>1, <2>2
  <2>3. CASE j = Last + 1
    BY <1>3, <1>4, <1>8, <2>1, <2>3
  <2> QED BY <1>4, <1>5, <2>2, <2>3
<1> QED BY <1>1, <1>4, <1>5, <1>10, <1>11 DEF PutInv

\* The sentinel is taken as the last of all.
LEMMA PutEndsRequests ==
    ASSUME BridgeTypeOK, PutInv, EndRequests
    PROVE  PutInv'
<1> SUFFICES ASSUME call = "active"
             PROVE  PutInv'
  BY DEF EndRequests, PutInv
<1>1. /\ queue # <<>> /\ Head(queue) = Sentinel /\ queue' = Tail(queue)
      /\ halfClosed' = TRUE
      /\ UNCHANGED <<script, read, inbound, delivered>>
  BY DEF EndRequests, browserVars
<1> DEFINE n == Len(delivered) + 1
<1>2. /\ n \in 1 .. Len(Put) /\ n \in Nat /\ Len(Put) = Len(delivered) + Len(queue)
      /\ Len(Put) \in Nat /\ Len(queue) \in Nat /\ Len(queue) > 0
      /\ Put[n] = 0
  <2>1. Len(queue) \in Nat \ {0} /\ Head(queue) = queue[1]
    BY <1>1, PutSeq, EmptySeq
  <2>2. n \in 1 .. Len(Put) /\ n - Len(delivered) = 1 /\ ~(n <= Len(delivered))
    BY <2>1, PutSeq
  <2>3. Put[n] = queue[n - Len(delivered)]
    BY <2>2, PutSeq
  <2>4. Put[n] = 0
    BY <1>1, <2>1, <2>2, <2>3 DEF Sentinel
  <2> HIDE DEF n
  <2> QED BY <2>1, <2>2, <2>4, PutSeq DEF n
<1>3. \A i \in 1 .. Last : Put[i] # 0
  BY DEF PutInv, Frames
<1>4. Ending /\ Last = Len(Put) - 1
  <2>1. n \notin 1 .. Last
    BY <1>2, <1>3
  <2> QED BY <1>2, <2>1 DEF Last
<1>5. n = Len(Put) /\ Len(queue) = 1
  <2>1. n \notin 1 .. Len(Put) - 1
    BY <1>2, <1>3, <1>4
  <2>2. n = Len(Put)
    BY <1>2, <2>1
  <2>3. Len(delivered) \in Nat /\ Len(queue) \in Nat
    BY PutSeq
  <2>4. Len(delivered) + 1 = Len(delivered) + Len(queue)
    BY <2>2, PutSeq
  <2>5. \A a, b \in Nat : a + 1 = a + b => b = 1
    OBVIOUS
  <2>6. Len(queue) = 1
    BY <2>3, <2>4, <2>5
  <2> QED BY <2>2, <2>6
<1>6. /\ Len(Put') = Len(Put) - 1
      /\ \A i \in 1 .. Len(Put) - 1 : Put'[i] = Put[i]
  <2>1. queue' = <<>>
    <3>1. Len(Tail(queue)) = 0 /\ Tail(queue) \in Seq(0 .. Len(script))
      BY <1>1, <1>5, PutSeq, HeadTailProperties
    <3> QED BY <1>1, <3>1, EmptySeq
  <2>2. Put' = delivered
    BY <1>1, <2>1, PutSeq, ConcatEmptySeq DEF Put
  <2> QED BY <1>2, <1>5, <2>2, PutSeq
<1>7. ~Ending' /\ Last' = Last /\ halfClosed' /\ inbound' = "done"
  BY <1>1, <1>4, <1>6 DEF Ending, Last
<1>8. {Put'[i] : i \in 1 .. Last} = {Put[i] : i \in 1 .. Last}
  BY <1>4, <1>6
<1>9. Frames("command")' = Frames("command")
  BY <1>1, FramesKept
<1> QED BY <1>4, <1>6, <1>7, <1>8, <1>9 DEF PutInv

LEMMA NextPut ==
    ASSUME BridgeInv, [BridgeNext]_bridgeVars
    PROVE  PutInv'
<1> USE DEF browserVars, callVars, pumpVars
<1>0. BridgeTypeOK /\ PutInv
  BY DEF BridgeInv
<1>1. ASSUME UNCHANGED <<script, read, inbound, halfClosed, delivered, queue>>,
             call' = "active" => call = "active"
      PROVE  PutInv'
  BY <1>0, <1>1, PutKept DEF Put
<1>2. CASE ReceiveCommand
  BY <1>0, <1>2, PutCommand
<1>3. CASE ReceiveInvalid \/ Reply
  <2>1. Frames("command")' = Frames("command") /\ script' = script
    <3>1. CASE ReceiveInvalid
      BY <1>0, <3>1, Counters, FramesRead DEF ReceiveInvalid, Receiving
    <3>2. CASE Reply
      BY <3>2, FramesKept DEF Reply
    <3> QED BY <1>3, <3>1, <3>2
  <2>2. /\ inbound # "done" /\ inbound' # "done"
        /\ UNCHANGED <<halfClosed, call, delivered, queue>>
    BY <1>3 DEF ReceiveInvalid, Receiving, Reply
  <2>3. Put' = Put /\ Last' = Last /\ ~Ending /\ ~Ending'
    BY <2>2 DEF Put, Last, Ending
  <2> QED BY <1>0, <2>1, <2>2, <2>3 DEF PutInv
<1>4. CASE ReplyFails \/ Disconnected \/ InboundCancelled
  <2>1. EndInbound /\ inbound # "done" /\ UNCHANGED <<read, script>>
    BY <1>4 DEF ReplyFails, Disconnected, InboundCancelled, EndInbound
  <2> QED BY <1>0, <2>1, FramesKept, PutEnds
<1>5. CASE ReceiveFatal
  <2>1. EndInbound /\ inbound # "done" /\ Frames("command")' = Frames("command")
    BY <1>0, <1>5, Counters, FramesRead DEF ReceiveFatal, Fatal, Receiving, EndInbound
  <2> QED BY <1>0, <2>1, PutEnds
<1>6. CASE TakeCommand
  BY <1>0, <1>6, PutKept, PutMoved DEF TakeCommand
<1>7. CASE DropCommand
  BY <1>7 DEF DropCommand, PutInv
<1>8. CASE EndRequests
  BY <1>0, <1>8, PutEndsRequests
<1>9. CASE SendFrame \/ BrowserLeaves
  BY <1>1, <1>9 DEF SendFrame, BrowserLeaves
<1>10. CASE OutboundStep
  BY <1>1, <1>10 DEF OutboundStep, TakeUpdate, SendUpdate, SendFails, StreamEnds, OutboundCancelled
<1>11. CASE Emit \/ Complete \/ QuitWatch \/ Break
  BY <1>1, <1>11 DEF Emit, Complete, QuitWatch, Break
<1>12. CASE Wake \/ Interrupted \/ Close
  BY <1>1, <1>12 DEF Wake, Interrupted, Close
<1>13. CASE UNCHANGED bridgeVars
  BY <1>1, <1>13 DEF bridgeVars
<1> QED
  BY <1>2, <1>3, <1>4, <1>5, <1>6, <1>7, <1>8, <1>9, <1>10, <1>11, <1>12, <1>13
  DEF BridgeNext, InboundStep, PollerStep

-----------------------------------------------------------------------------
(* Replies and causes.                                                      *)

LEMMA NextReply ==
    ASSUME BridgeInv, [BridgeNext]_bridgeVars
    PROVE  ReplyInv'
<1> USE DEF browserVars, callVars, pumpVars
<1>0. /\ ReplyInv /\ read \in Nat /\ replies \in Nat
      /\ inbound \in {"receiving", "replying", "done"}
  BY Counters DEF BridgeInv, BridgeTypeOK
<1>1. ASSUME inbound' = "done"
      PROVE  ReplyInv'
  BY <1>1 DEF ReplyInv
<1>2. ASSUME UNCHANGED <<script, read, replies, inbound>>
      PROVE  ReplyInv'
  BY <1>0, <1>2, FramesKept DEF ReplyInv
<1>3. CASE ReceiveInvalid
  <2>1. /\ inbound = "receiving" /\ inbound' = "replying" /\ replies' = replies
        /\ NextFrame = "invalid" /\ read' = read + 1 /\ script' = script
    BY <1>3 DEF ReceiveInvalid, Receiving
  <2>2. Cardinality(Frames("invalid")') = Cardinality(Frames("invalid")) + 1
    BY <1>0, <2>1, FramesRead, FramesFinite, FS_AddElement
  <2> QED BY <1>0, <2>1, <2>2 DEF ReplyInv
<1>4. CASE ReceiveCommand
  <2>1. /\ inbound = "receiving" /\ inbound' = "receiving" /\ replies' = replies
        /\ NextFrame = "command" /\ read' = read + 1 /\ script' = script
    BY <1>4 DEF ReceiveCommand, Receiving
  <2>2. Frames("invalid")' = Frames("invalid")
    BY <1>0, <2>1, FramesRead
  <2> QED BY <1>0, <2>1, <2>2 DEF ReplyInv
<1>5. CASE Reply
  <2>1. /\ inbound = "replying" /\ inbound' = "receiving" /\ replies' = replies + 1
        /\ UNCHANGED <<read, script>>
    BY <1>5 DEF Reply
  <2> QED BY <1>0, <2>1, FramesKept DEF ReplyInv
<1>6. CASE ReceiveFatal \/ Disconnected \/ ReplyFails \/ InboundCancelled
  BY <1>1, <1>6 DEF ReceiveFatal, Disconnected, ReplyFails, InboundCancelled, EndInbound
<1>7. CASE SendFrame \/ BrowserLeaves \/ OutboundStep \/ PollerStep
  BY <1>2, <1>7 DEF SendFrame, BrowserLeaves, OutboundStep, TakeUpdate, SendUpdate, SendFails,
     StreamEnds, OutboundCancelled, PollerStep, TakeCommand, DropCommand, EndRequests
<1>8. CASE Emit \/ Complete \/ QuitWatch \/ Break \/ Wake \/ Interrupted \/ Close
  BY <1>2, <1>8 DEF Emit, Complete, QuitWatch, Break, Wake, Interrupted, Close
<1>9. CASE UNCHANGED bridgeVars
  BY <1>2, <1>9 DEF bridgeVars
<1> QED BY <1>3, <1>4, <1>5, <1>6, <1>7, <1>8, <1>9 DEF BridgeNext, InboundStep

LEMMA NextCause ==
    ASSUME BridgeInv, [BridgeNext]_bridgeVars
    PROVE  CauseInv'
<1> USE DEF browserVars, callVars, pumpVars
<1>0. BridgeTypeOK /\ PutInv /\ CauseInv
  BY DEF BridgeInv
<1>1. CASE InboundStep
  BY <1>0, <1>1 DEF CauseInv, InboundStep, ReceiveCommand, ReceiveInvalid, ReceiveFatal,
     Disconnected, Reply, ReplyFails, InboundCancelled, EndInbound, Receiving
<1>2. CASE OutboundStep \/ PollerStep
  BY <1>0, <1>2 DEF CauseInv, OutboundStep, TakeUpdate, SendUpdate, SendFails,
     StreamEnds, OutboundCancelled, PollerStep, TakeCommand, DropCommand, EndRequests
<1>3. CASE Complete
  BY <1>0, <1>3 DEF CauseInv, PutInv, Complete
<1>4. CASE SendFrame \/ BrowserLeaves \/ Emit \/ QuitWatch \/ Break \/ Wake \/ Interrupted \/ Close
  BY <1>0, <1>4 DEF CauseInv, SendFrame, BrowserLeaves, Emit, QuitWatch, Break, Wake, Interrupted, Close
<1>5. CASE UNCHANGED bridgeVars
  BY <1>0, <1>5 DEF CauseInv, bridgeVars
<1> QED BY <1>1, <1>2, <1>3, <1>4, <1>5 DEF BridgeNext

LEMMA NextEnds ==
    ASSUME BridgeInv, [BridgeNext]_bridgeVars
    PROVE  EndsForCause'
<1> USE DEF browserVars, callVars, pumpVars
<1> DEFINE Lost == Frames("huge") \cup Frames("text")
           Cause == socket = "left" \/ call \in {"stopped", "error"} \/ Lost # {}
<1>0. /\ main = "waiting" => cancelled = {}
      /\ call = "ok" => inbound = "done"
      /\ main = "waiting" /\ Unfinished # {"inbound", "outbound"} => Cause
      /\ socket \in {"open", "left", "closed"} /\ (socket = "closed" <=> main = "ended")
      /\ read \in Nat
  BY Counters DEF BridgeInv, BridgeTypeOK, CauseInv, EndsForCause, Fatal
<1>1. Unfinished # {"inbound", "outbound"} <=> inbound = "done" \/ outbound = "done"
  BY DEF Unfinished
<1>2. Unfinished' # {"inbound", "outbound"} <=> inbound' = "done" \/ outbound' = "done"
  BY DEF Unfinished
<1>3. ASSUME main' = "waiting" => main = "waiting",
             main' = "waiting" /\ (inbound' = "done" \/ outbound' = "done") =>
               inbound = "done" \/ outbound = "done" \/ Cause',
             socket' = socket \/ main' = "ended" \/ socket' = "left",
             call \in {"stopped", "error"} => call' = call,
             Lost \subseteq Lost'
      PROVE  EndsForCause'
  BY <1>0, <1>1, <1>2, <1>3 DEF EndsForCause, Fatal
<1>4. Lost \subseteq Lost'
  <2>1. script' = script
    BY DEF BridgeNext, SendFrame, BrowserLeaves, InboundStep, ReceiveCommand, ReceiveInvalid,
       ReceiveFatal, Disconnected, Reply, ReplyFails, InboundCancelled, EndInbound, OutboundStep,
       TakeUpdate, SendUpdate, SendFails, StreamEnds, OutboundCancelled, PollerStep, TakeCommand,
       DropCommand, EndRequests, Emit, Complete, QuitWatch, Break, Wake, Interrupted, Close, bridgeVars
  <2>2. read' = read \/ read' = read + 1
    BY DEF BridgeNext, SendFrame, BrowserLeaves, InboundStep, ReceiveCommand, ReceiveInvalid,
       ReceiveFatal, Disconnected, Reply, ReplyFails, InboundCancelled, OutboundStep,
       TakeUpdate, SendUpdate, SendFails, StreamEnds, OutboundCancelled, PollerStep, TakeCommand,
       DropCommand, EndRequests, Emit, Complete, QuitWatch, Break, Wake, Interrupted, Close, bridgeVars
  <2>3. 1 .. read \subseteq 1 .. read'
    BY <1>0, <2>2
  <2> QED BY <2>1, <2>3 DEF Frames
<1>5. CASE ReceiveCommand \/ ReceiveInvalid \/ Reply
  BY <1>3, <1>4, <1>5 DEF ReceiveCommand, ReceiveInvalid, Reply, Receiving
<1>6. CASE ReceiveFatal
  <2>1. Lost' # {}
    BY <1>0, <1>6, FramesRead DEF ReceiveFatal, Fatal, Receiving, EndInbound
  <2> QED BY <1>3, <1>4, <1>6, <2>1 DEF ReceiveFatal, EndInbound
<1>7. CASE Disconnected \/ ReplyFails
  BY <1>0, <1>3, <1>4, <1>7 DEF Disconnected, ReplyFails, EndInbound
<1>8. CASE InboundCancelled
  BY <1>0, <1>3, <1>4, <1>8 DEF InboundCancelled, EndInbound
<1>9. CASE OutboundStep
  BY <1>0, <1>3, <1>4, <1>9 DEF OutboundStep, TakeUpdate, SendUpdate, SendFails, StreamEnds,
     EndedWell, OutboundCancelled
<1>10. CASE PollerStep
  BY <1>3, <1>4, <1>10 DEF PollerStep, TakeCommand, DropCommand, EndRequests
<1>11. CASE SendFrame \/ BrowserLeaves \/ Emit \/ Complete \/ QuitWatch \/ Break
  BY <1>3, <1>4, <1>11 DEF SendFrame, BrowserLeaves, Emit, Complete, QuitWatch, Break
<1>12. CASE Wake \/ Interrupted \/ Close
  BY <1>12 DEF Wake, Interrupted, Close, EndsForCause
<1>13. CASE UNCHANGED bridgeVars
  BY <1>3, <1>4, <1>13 DEF bridgeVars
<1> QED
  BY <1>5, <1>6, <1>7, <1>8, <1>9, <1>10, <1>11, <1>12, <1>13 DEF BridgeNext, InboundStep

LEMMA NextBridge == BridgeInv /\ [BridgeNext]_bridgeVars => BridgeInv'
BY NextType, NextPut, NextReply, NextCause, NextEnds DEF BridgeInv

\* For every script and every interleaving of the three tasks, the browser and
\* the server: the session's counters and queues are well typed, and it ends
\* with both pumps done.
THEOREM BridgeTypeCorrect == BridgeSpec => []BridgeTypeOK
<1>1. BridgeInv => BridgeTypeOK
  BY DEF BridgeInv
<1> QED BY <1>1, InitBridge, NextBridge, PTL DEF BridgeSpec

\* For every script, frames that end the pump among them: each command that can be
\* converted is put in order and once, the sentinel after the last one, and every
\* invalid frame is replied to (service.py 132-152).
THEOREM EveryFrameTreatedCorrect == BridgeSpec => []EveryFrameTreated
<1>1. BridgeInv => EveryFrameTreated
  BY DEF BridgeInv, PutInv, ReplyInv, EveryFrameTreated, Put, Ending, Last
<1> QED BY <1>1, InitBridge, NextBridge, PTL DEF BridgeSpec

\* For every script: a session ends of itself only because the browser left,
\* WatchStock failed or gave up, or a frame could not be parsed or converted
\* (service.py 134, 143-148; servicer.py 251-253, 286).
THEOREM EndsForCauseCorrect == BridgeSpec => []EndsForCause
<1>1. BridgeInv => EndsForCause
  BY DEF BridgeInv
<1> QED BY <1>1, InitBridge, NextBridge, PTL DEF BridgeSpec
=============================================================================
