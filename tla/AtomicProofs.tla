---------------------------- MODULE AtomicProofs ----------------------------
(***************************************************************************)
(* What the abstract inventory service keeps, whoever calls it: stock is   *)
(* never negative, and the free units and the units of active bookings add *)
(* up to the initial stock.  AtomicInv is inductive for every step of a    *)
(* call and for every arrival of a well-formed request, so that the proofs *)
(* about the order service can build on it.                                *)
(***************************************************************************)
EXTENDS AtomicInventory, TLAPS, SequenceTheorems, FiniteSetTheorems

Item == [product : Int, quantity : Int]

\* The shape of the state.
AtomicTypes ==
    /\ req = [c \in Calls |-> req[c]]
    /\ stock \in [Products -> Nat]
    /\ booking \in [Calls -> {"none", "RESERVED", "RELEASED"}]
    /\ checked = [c \in Calls |-> checked[c]]
    /\ due = [c \in Calls |-> due[c]]
    /\ reply = [c \in Calls |-> reply[c]]

\* Calls carry well-formed items, and who has booked has said so.
CallsInv ==
    \A c \in Calls :
        /\ req[c] # NoRequest => req[c].items \in Seq(Item)
        /\ booking[c] # "none" => req[c] # NoRequest /\ reply[c] = "reserved"

\* The units of product p that the bookings D stand for, when calls carry q.
BookedUnits(q, D, p) == UNION {{d} \X DemandUnits(q[d], p) : d \in D}

Booked(q, D, p) == Cardinality(BookedUnits(q, D, p))

\* The bookings that are active can be counted, and add up with the stock.
SumInv ==
    /\ IsFiniteSet(Active)
    /\ \A p \in Products : stock[p] + Booked(req, Active, p) = InitialStock[p]

\* The inductive invariant.
AtomicInv == AtomicTypes /\ CallsInv /\ SumInv

-----------------------------------------------------------------------------
(* Counting units.                                                          *)

\* Well-formed items ask for a number of units.
LEMMA DemandFinite ==
    ASSUME NEW r, r.items \in Seq(Item), NEW p
    PROVE  IsFiniteSet(DemandUnits(r, p)) /\ Demand(r, p) \in Nat
<1> DEFINE J == {j \in Lines(r) : r.items[j].product = p}
           T == {{i} \X (1 .. r.items[i].quantity) : i \in J}
           f == [i \in J |-> {i} \X (1 .. r.items[i].quantity)]
<1>1. Lines(r) = 1 .. Len(r.items) /\ Len(r.items) \in Nat
      /\ \A i \in Lines(r) : r.items[i] \in Item
  BY LenProperties, ElementOfSeq DEF Lines
<1>2. IsFiniteSet(J)
  <2>1. IsFiniteSet(1 .. Len(r.items))
    BY <1>1, FS_Interval
  <2> QED BY <1>1, <2>1, FS_Subset
<1>3. f \in Surjection(J, T)
  BY DEF Surjection
<1>4. IsFiniteSet(T)
  <2> HIDE DEF J, T, f
  <2> QED BY <1>2, <1>3, FS_Surjection
<1>5. \A t \in T : IsFiniteSet(t)
  <2> SUFFICES ASSUME NEW i \in J
               PROVE  IsFiniteSet({i} \X (1 .. r.items[i].quantity))
    OBVIOUS
  <2>1. IsFiniteSet({i})
    BY FS_Singleton
  <2>2. r.items[i].quantity \in Int
    BY <1>1 DEF Item
  <2>3. IsFiniteSet(1 .. r.items[i].quantity)
    BY <2>2, FS_Interval
  <2> QED BY <2>1, <2>3, FS_Product
<1>6. IsFiniteSet(UNION T) /\ DemandUnits(r, p) = UNION T
  <2>1. DemandUnits(r, p) = UNION T
    BY DEF DemandUnits
  <2> HIDE DEF T
  <2> QED BY <1>4, <1>5, <2>1, FS_UNION
<1> HIDE DEF T
<1> QED BY <1>6, FS_CardinalityType DEF Demand

\* Finitely many bookings stand for finitely many units.
LEMMA BookedFinite ==
    ASSUME NEW q, NEW D, IsFiniteSet(D), \A d \in D : q[d].items \in Seq(Item), NEW p
    PROVE  IsFiniteSet(BookedUnits(q, D, p)) /\ Booked(q, D, p) \in Nat
<1> DEFINE T == {{d} \X DemandUnits(q[d], p) : d \in D}
           f == [d \in D |-> {d} \X DemandUnits(q[d], p)]
<1>1. f \in Surjection(D, T)
  BY DEF Surjection
<1>2. IsFiniteSet(T)
  <2> HIDE DEF T, f
  <2> QED BY <1>1, FS_Surjection
<1>3. \A t \in T : IsFiniteSet(t)
  <2> SUFFICES ASSUME NEW d \in D
               PROVE  IsFiniteSet({d} \X DemandUnits(q[d], p))
    OBVIOUS
  <2> QED BY DemandFinite, FS_Singleton, FS_Product
<1>4. IsFiniteSet(UNION T)
  <2> HIDE DEF T
  <2> QED BY <1>2, <1>3, FS_UNION
<1>5. BookedUnits(q, D, p) = UNION T /\ Booked(q, D, p) = Cardinality(UNION T)
  BY DEF BookedUnits, Booked
<1> HIDE DEF T
<1> QED BY <1>4, <1>5, FS_CardinalityType

\* One booking stands for what its call asked for.
LEMMA BookedOne ==
    ASSUME NEW q, NEW c, q[c].items \in Seq(Item), NEW p
    PROVE  Booked(q, {c}, p) = Demand(q[c], p) /\ Demand(q[c], p) \in Nat
<1> DEFINE U == DemandUnits(q[c], p)
<1>1. IsFiniteSet(U) /\ Cardinality(U) \in Nat /\ Demand(q[c], p) = Cardinality(U)
  BY DemandFinite DEF Demand
<1>2. UNION {{d} \X DemandUnits(q[d], p) : d \in {c}} = {c} \X U
  OBVIOUS
<1>3. Cardinality({c} \X U) = 1 * Cardinality(U)
  <2>1. IsFiniteSet({c}) /\ Cardinality({c}) = 1
    BY FS_Singleton
  <2> HIDE DEF U
  <2>2. Cardinality({c} \X U) = Cardinality({c}) * Cardinality(U)
    BY <1>1, <2>1, FS_Product
  <2> QED BY <2>1, <2>2
<1>4. Booked(q, {c}, p) = Cardinality({c} \X U)
  BY <1>2 DEF Booked, BookedUnits
<1> HIDE DEF U
<1> QED BY <1>1, <1>3, <1>4

\* Disjoint bookings are counted apart.
LEMMA BookedSplit ==
    ASSUME NEW q, NEW A, NEW B, IsFiniteSet(A), IsFiniteSet(B), A \cap B = {},
           \A d \in A \cup B : q[d].items \in Seq(Item), NEW p
    PROVE  /\ Booked(q, A \cup B, p) = Booked(q, A, p) + Booked(q, B, p)
           /\ Booked(q, A, p) \in Nat /\ Booked(q, B, p) \in Nat
<1> DEFINE U == BookedUnits(q, A, p)
           V == BookedUnits(q, B, p)
<1>1. /\ IsFiniteSet(U) /\ Booked(q, A, p) = Cardinality(U) /\ Booked(q, A, p) \in Nat
      /\ IsFiniteSet(V) /\ Booked(q, B, p) = Cardinality(V) /\ Booked(q, B, p) \in Nat
  BY BookedFinite DEF Booked
<1>2. IsFiniteSet(A \cup B)
  BY FS_Union
<1>3. Booked(q, A \cup B, p) = Cardinality(BookedUnits(q, A \cup B, p))
  BY DEF Booked
<1>4. BookedUnits(q, A \cup B, p) = U \cup V
  BY DEF BookedUnits
<1>5. U \cap V = {}
  BY DEF BookedUnits
<1> HIDE DEF U, V
<1>6. Cardinality(U \cup V) = Cardinality(U) + Cardinality(V) - Cardinality({})
  BY <1>1, <1>5, FS_Union
<1>7. Cardinality(U \cup V) = Cardinality(U) + Cardinality(V)
  <2>1. Cardinality({}) = 0
    BY FS_EmptySet
  <2>2. Cardinality(U) \in Nat /\ Cardinality(V) \in Nat
    BY <1>1, FS_CardinalityType
  <2> QED BY <1>6, <2>1, <2>2
<1> QED BY <1>1, <1>3, <1>4, <1>7

\* Only the requests of the bookings themselves count.
LEMMA BookedSame ==
    ASSUME NEW D, NEW q, NEW r, \A d \in D : r[d] = q[d], NEW p
    PROVE  Booked(r, D, p) = Booked(q, D, p)
BY DEF Booked, BookedUnits

-----------------------------------------------------------------------------
(* Steps.                                                                   *)

LEMMA InitAtomic == AtomicInit => AtomicInv
<1> SUFFICES ASSUME AtomicInit
             PROVE  AtomicInv
  OBVIOUS
<1>1. AtomicTypes /\ CallsInv
  BY StockAssumption DEF AtomicInit, AtomicTypes, CallsInv
<1>2. Active = {} /\ stock = InitialStock
  BY DEF AtomicInit, Active
<1>3. \A q, p : Booked(q, {}, p) = 0
  BY FS_EmptySet DEF Booked, BookedUnits
<1>4. SumInv
  BY <1>2, <1>3, FS_EmptySet, StockAssumption DEF SumInv
<1> QED BY <1>1, <1>4 DEF AtomicInv

\* A booking is of a call that carries well-formed items.
LEMMA ActiveTyped ==
    ASSUME CallsInv
    PROVE  \A d \in Active : d \in Calls /\ req[d] # NoRequest /\ req[d].items \in Seq(Item)
                             /\ reply[d] = "reserved"
BY DEF CallsInv, Active

\* A step that leaves bookings, stock and requests alone, and answers at most a
\* call that had no answer.
LEMMA QuietAtomic ==
    ASSUME AtomicInv, UNCHANGED <<req, stock, booking>>,
           checked' = [c \in Calls |-> checked'[c]], due' = [c \in Calls |-> due'[c]],
           reply' = [c \in Calls |-> reply'[c]],
           \A c \in Calls : reply[c] # "none" => reply'[c] = reply[c]
    PROVE  AtomicInv'
<1>1. AtomicTypes'
  BY DEF AtomicInv, AtomicTypes
<1>2. CallsInv'
  BY DEF AtomicInv, CallsInv
<1>3. Active' = Active
  BY DEF Active
<1>4. SumInv'
  BY <1>3 DEF AtomicInv, SumInv
<1> QED BY <1>1, <1>2, <1>4 DEF AtomicInv

LEMMA ArriveAtomic ==
    ASSUME AtomicInv, NEW c \in Calls, NEW r, r.items \in Seq(Item), Arrive(c, r)
    PROVE  AtomicInv'
<1>1. /\ req[c] = NoRequest /\ req' = [req EXCEPT ![c] = r]
      /\ UNCHANGED <<stock, booking, checked, due>>
      /\ reply' = reply \/ reply' = [reply EXCEPT ![c] = "invalid"]
  BY DEF Arrive, Answer
<1>2. AtomicTypes'
  BY <1>1 DEF AtomicInv, AtomicTypes
<1>3. booking[c] = "none"
  BY <1>1 DEF AtomicInv, AtomicTypes, CallsInv
<1>4. \A d \in Calls : d # c => req'[d] = req[d] /\ reply'[d] = reply[d]
  BY <1>1 DEF AtomicInv, AtomicTypes
<1>5. CallsInv'
  <2> SUFFICES ASSUME NEW d \in Calls
               PROVE  /\ req'[d] # NoRequest => req'[d].items \in Seq(Item)
                      /\ booking[d] # "none" => req'[d] # NoRequest /\ reply'[d] = "reserved"
    BY <1>1 DEF CallsInv
  <2>1. CASE d = c
    BY <1>1, <1>3, <2>1 DEF AtomicInv, AtomicTypes
  <2>2. CASE d # c
    BY <1>4, <2>2 DEF AtomicInv, CallsInv
  <2> QED BY <2>1, <2>2
<1>6. Active' = Active /\ \A d \in Active : req'[d] = req[d]
  BY <1>1, <1>3, <1>4 DEF Active
<1>7. SumInv'
  <2>1. \A p : Booked(req', Active, p) = Booked(req, Active, p)
    BY <1>6, BookedSame
  <2> QED BY <1>1, <1>6, <2>1 DEF AtomicInv, SumInv
<1> QED BY <1>2, <1>5, <1>7 DEF AtomicInv

LEMMA ReserveAtomic ==
    ASSUME AtomicInv, NEW c \in Calls, Reserve(c)
    PROVE  AtomicInv'
<1>1. /\ req[c] # NoRequest /\ reply[c] = "none"
      /\ Satisfiable(req[c], stock)
      /\ stock' = [p \in Products |-> stock[p] - Demand(req[c], p)]
      /\ booking' = [booking EXCEPT ![c] = "RESERVED"]
      /\ checked' = [checked EXCEPT ![c] = FALSE]
      /\ reply' = [reply EXCEPT ![c] = "reserved"]
      /\ UNCHANGED <<req, due>>
  BY DEF Reserve, Decide, Answer, Pending
<1>2. req[c].items \in Seq(Item) /\ booking[c] = "none"
  BY <1>1 DEF AtomicInv, AtomicTypes, CallsInv
<1>3. \A p \in Products : Demand(req[c], p) \in Nat /\ Demand(req[c], p) <= stock[p]
                          /\ stock[p] \in Nat
  BY <1>1, <1>2, DemandFinite DEF Satisfiable, AtomicInv, AtomicTypes
<1>4. AtomicTypes'
  <2>1. \A p \in Products : stock[p] - Demand(req[c], p) \in Nat
    BY <1>3
  <2> QED BY <1>1, <2>1 DEF AtomicInv, AtomicTypes
<1>5. CallsInv'
  BY <1>1 DEF AtomicInv, AtomicTypes, CallsInv
<1>6. Active' = Active \cup {c} /\ Active \cap {c} = {}
  BY <1>1, <1>2 DEF Active, AtomicInv, AtomicTypes
<1>7. IsFiniteSet(Active) /\ IsFiniteSet({c}) /\ IsFiniteSet(Active \cup {c})
  BY FS_Singleton, FS_Union DEF AtomicInv, SumInv
<1>8. ASSUME NEW p \in Products
      PROVE  stock'[p] + Booked(req, Active \cup {c}, p) = InitialStock[p]
  <2>1. /\ Booked(req, Active \cup {c}, p) = Booked(req, Active, p) + Booked(req, {c}, p)
        /\ Booked(req, Active, p) \in Nat
    <3>1. \A d \in Active \cup {c} : req[d].items \in Seq(Item)
      BY <1>2, ActiveTyped DEF AtomicInv
    <3> QED BY <1>6, <1>7, <3>1, BookedSplit
  <2>2. Booked(req, {c}, p) = Demand(req[c], p)
    BY <1>2, BookedOne
  <2>3. stock[p] + Booked(req, Active, p) = InitialStock[p]
    BY DEF AtomicInv, SumInv
  <2>4. stock'[p] = stock[p] - Demand(req[c], p)
    BY <1>1
  <2> QED BY <1>3, <2>1, <2>2, <2>3, <2>4
<1>9. SumInv'
  BY <1>1, <1>6, <1>7, <1>8 DEF SumInv
<1> QED BY <1>4, <1>5, <1>9 DEF AtomicInv

LEMMA ReturnAtomic ==
    ASSUME AtomicInv, NEW c \in Calls, Return(c)
    PROVE  AtomicInv'
<1> DEFINE D == due[c] \cap Active
           A == Active \ D
<1>1. /\ req[c] # NoRequest /\ reply[c] = "none"
      /\ stock' = [p \in Products |-> stock[p] + Booked(req, D, p)]
      /\ booking' = [d \in Calls |-> IF d \in D THEN "RELEASED" ELSE booking[d]]
      /\ due' = [due EXCEPT ![c] = {}]
      /\ UNCHANGED <<req, checked>>
      /\ \E r : reply' = [reply EXCEPT ![c] = r]
  BY DEF Return, Answer, Pending, Returned, Booked, BookedUnits
<1>2. D \subseteq Active /\ Active = A \cup D /\ A \cap D = {}
  OBVIOUS
<1>3. Active' = A
  BY <1>1 DEF Active
<1> HIDE DEF D, A
<1>4. IsFiniteSet(A) /\ IsFiniteSet(D) /\ \A d \in A \cup D : req[d].items \in Seq(Item)
  <2>1. IsFiniteSet(Active)
    BY DEF AtomicInv, SumInv
  <2> QED BY <1>2, <2>1, FS_Subset, ActiveTyped DEF AtomicInv
<1>5. ASSUME NEW p \in Products
      PROVE  /\ Booked(req, Active, p) = Booked(req, A, p) + Booked(req, D, p)
             /\ Booked(req, A, p) \in Nat /\ Booked(req, D, p) \in Nat
  <2>1. /\ Booked(req, A \cup D, p) = Booked(req, A, p) + Booked(req, D, p)
        /\ Booked(req, A, p) \in Nat /\ Booked(req, D, p) \in Nat
    BY <1>2, <1>4, BookedSplit
  <2> QED BY <1>2, <2>1
<1>6. AtomicTypes'
  <2>1. \A p \in Products : stock[p] + Booked(req, D, p) \in Nat
    BY <1>5 DEF AtomicInv, AtomicTypes
  <2>2. stock' \in [Products -> Nat]
    BY <1>1, <2>1
  <2>3. booking' \in [Calls -> {"none", "RESERVED", "RELEASED"}]
    BY <1>1 DEF AtomicInv, AtomicTypes
  <2> QED BY <1>1, <2>2, <2>3 DEF AtomicInv, AtomicTypes
<1>7. CallsInv'
  <2>1. \A d \in D : d \in Calls /\ booking[d] # "none"
    BY <1>2 DEF Active
  <2>2. booking[c] = "none"
    BY <1>1 DEF AtomicInv, CallsInv
  <2> QED BY <1>1, <2>1, <2>2 DEF AtomicInv, AtomicTypes, CallsInv
<1>8. SumInv'
  <2>1. ASSUME NEW p \in Products
        PROVE  stock'[p] + Booked(req, A, p) = InitialStock[p]
    <3>1. stock[p] + Booked(req, Active, p) = InitialStock[p]
      BY DEF AtomicInv, SumInv
    <3>2. stock'[p] = stock[p] + Booked(req, D, p)
      BY <1>1
    <3>3. stock[p] \in Nat
      BY DEF AtomicInv, AtomicTypes
    <3> QED BY <1>5, <3>1, <3>2, <3>3
  <2> QED BY <1>1, <1>3, <1>4, <2>1 DEF SumInv
<1> QED BY <1>6, <1>7, <1>8 DEF AtomicInv

\* Whatever a call does.
LEMMA ServeAtomic ==
    ASSUME AtomicInv, NEW c \in Calls, Serve(c) \/ Fail(c)
    PROVE  AtomicInv'
<1>1. CASE Reserve(c)
  BY <1>1, ReserveAtomic
<1>2. CASE Return(c)
  BY <1>2, ReturnAtomic
<1>3. CASE Replay(c) \/ Reject(c) \/ Collide(c) \/ Fail(c)
  BY <1>3, QuietAtomic
     DEF Replay, Reject, Collide, Fail, Decide, Answer, Pending, AtomicInv, AtomicTypes
<1>4. CASE Miss(c)
  BY <1>4, QuietAtomic DEF Miss, AtomicInv, AtomicTypes
<1>5. CASE Find(c)
  <2>1. /\ UNCHANGED <<req, stock, booking, checked>> /\ reply[c] = "none"
        /\ due' = [due EXCEPT ![c] = {d \in Active : req[d].ref = req[c].ref}]
        /\ reply' = reply \/ reply' = [reply EXCEPT ![c] = "nothing"]
    BY <1>5 DEF Find, Answer, Pending
  <2> QED BY <2>1, QuietAtomic DEF AtomicInv, AtomicTypes
<1> QED BY <1>1, <1>2, <1>3, <1>4, <1>5 DEF Serve

LEMMA StutterAtomic ==
    ASSUME AtomicInv, UNCHANGED atomicVars
    PROVE  AtomicInv'
BY QuietAtomic DEF atomicVars, AtomicInv, AtomicTypes

\* Answers and requests are final.
LEMMA FinalAnswers ==
    ASSUME AtomicTypes, NEW c \in Calls,
           Serve(c) \/ Fail(c) \/ (\E r : Arrive(c, r) /\ reply[c] = "none"), NEW d \in Calls
    PROVE  /\ req[d] # NoRequest => req'[d] = req[d]
           /\ reply[d] # "none" => reply'[d] = reply[d]
           /\ d # c => reply'[d] = reply[d] /\ req'[d] = req[d]
BY DEF Serve, Fail, Arrive, Replay, Miss, Reserve, Reject, Collide, Decide, Find, Return,
       Answer, Pending, AtomicTypes

=============================================================================
