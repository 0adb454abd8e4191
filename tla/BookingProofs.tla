-------------------------- MODULE BookingProofs ---------------------------
(***************************************************************************)
(* What the committed rows amount to, for every instance: Conservation,    *)
(* AllOrNothing, and on top of both that Inventory implements              *)
(* AtomicInventory.                                                        *)
(*                                                                         *)
(* Conservation: the available units of a product and its RESERVED units   *)
(* add up to its initial stock.  The committed quantities alone are not    *)
(* inductive, since a COMMIT makes uncommitted ones of them: StockInv says *)
(* the same of the newest version of each product and of the rows as its   *)
(* lock holder would commit them.  IInv gives that a transaction has rows  *)
(* of locked products only.                                                *)
(***************************************************************************)
EXTENDS InventoryProofs

\* The rows of X for product p, and their units.
At(X, p) == {x \in X : Product(x) = p}

Tally(X, p) == Cardinality(Units(At(X, p)))

\* What counting the units of X takes.
Counted(X) == IsFiniteSet(X) /\ \A x \in X : Quantity(x) \in Int

\* A row stands for as many units as its quantity.
LEMMA UnitsOne ==
    ASSUME NEW x, Quantity(x) \in Nat
    PROVE  /\ IsFiniteSet({x} \X (1 .. Quantity(x)))
           /\ Cardinality({x} \X (1 .. Quantity(x))) = Quantity(x)
<1> DEFINE n == Quantity(x)
<1>1. IsFiniteSet({x}) /\ Cardinality({x}) = 1
  BY FS_Singleton
<1>2. IsFiniteSet(1 .. n) /\ Cardinality(1 .. n) = IF 1 > n THEN 0 ELSE n - 1 + 1
  BY FS_Interval
<1>3. Cardinality(1 .. n) = n
  BY <1>2
<1>4. /\ IsFiniteSet({x} \X (1 .. n))
      /\ Cardinality({x} \X (1 .. n)) = Cardinality({x}) * Cardinality(1 .. n)
  BY <1>1, <1>2, FS_Product
<1> QED BY <1>1, <1>3, <1>4

\* Finitely many rows stand for finitely many units.
LEMMA UnitsFinite ==
    ASSUME NEW X, Counted(X)
    PROVE  IsFiniteSet(Units(X))
<1> DEFINE f == [x \in X |-> {x} \X (1 .. Quantity(x))]
           T == {{x} \X (1 .. Quantity(x)) : x \in X}
<1>1. f \in Surjection(X, T)
  BY DEF Surjection
<1>2. IsFiniteSet(T)
  BY <1>1, FS_Surjection DEF Counted
<1>3. \A t \in T : IsFiniteSet(t)
  <2> SUFFICES ASSUME NEW x \in X
               PROVE  IsFiniteSet({x} \X (1 .. Quantity(x)))
    OBVIOUS
  <2>1. IsFiniteSet({x})
    BY FS_Singleton
  <2>2. Quantity(x) \in Int
    BY DEF Counted
  <2>3. IsFiniteSet(1 .. Quantity(x))
    BY <2>2, FS_Interval
  <2> QED BY <2>1, <2>3, FS_Product
<1> QED BY <1>2, <1>3, FS_UNION DEF Units

\* A row more adds its quantity to the tally of its product, and of no other.
LEMMA AddRow ==
    ASSUME NEW X, Counted(X), NEW x, x \notin X, Quantity(x) \in Nat, NEW p
    PROVE  /\ Tally(X, p) \in Nat
           /\ Tally(X \cup {x}, p) =
                IF Product(x) = p THEN Tally(X, p) + Quantity(x) ELSE Tally(X, p)
<1> DEFINE A == At(X, p)
           U == {x} \X (1 .. Quantity(x))
<1>1. IsFiniteSet(A) /\ Counted(A)
  <2>1. A \in SUBSET X
    BY DEF At
  <2> QED BY <2>1, FS_Subset DEF Counted
<1>2. IsFiniteSet(Units(A)) /\ Cardinality(Units(A)) \in Nat
  BY <1>1, UnitsFinite, FS_CardinalityType
<1>3. CASE Product(x) # p
  <2>1. At(X \cup {x}, p) = A
    BY <1>3 DEF At
  <2> QED BY <1>2, <1>3, <2>1 DEF Tally
<1>4. CASE Product(x) = p
  <2>1. At(X \cup {x}, p) = A \cup {x}
    BY <1>4 DEF At
  <2>2. Units(A \cup {x}) = Units(A) \cup U
    BY DEF Units
  <2>3. Units(A) \cap U = {}
    BY DEF Units, At
  <2>4. IsFiniteSet(U) /\ Cardinality(U) = Quantity(x)
    BY UnitsOne
  <2>5. Cardinality(Units(A) \cup U) = Cardinality(Units(A)) + Cardinality(U) - Cardinality({})
    BY <1>2, <2>3, <2>4, FS_Union
  <2>6. Cardinality({}) = 0
    BY FS_EmptySet
  <2>7. Tally(X, p) = Cardinality(Units(A)) /\ Tally(X \cup {x}, p) = Cardinality(Units(A) \cup U)
    BY <2>1, <2>2 DEF Tally
  <2> HIDE DEF A, U
  <2> QED BY <1>2, <1>4, <2>4, <2>5, <2>6, <2>7
<1> QED BY <1>3, <1>4

\* A row less takes it away.
LEMMA DropRow ==
    ASSUME NEW X, Counted(X), NEW x \in X, Quantity(x) \in Nat, NEW p
    PROVE  /\ Tally(X \ {x}, p) \in Nat
           /\ Tally(X, p) =
                IF Product(x) = p THEN Tally(X \ {x}, p) + Quantity(x)
                ELSE Tally(X \ {x}, p)
<1> DEFINE Y == X \ {x}
<1>1. Counted(Y)
  BY FS_RemoveElement DEF Counted
<1>2. x \notin Y /\ Y \cup {x} = X
  OBVIOUS
<1>3. /\ Tally(Y, p) \in Nat
      /\ Tally(Y \cup {x}, p) =
           IF Product(x) = p THEN Tally(Y, p) + Quantity(x) ELSE Tally(Y, p)
  <2> HIDE DEF Y
  <2> QED BY <1>1, <1>2, AddRow
<1> QED BY <1>2, <1>3

-----------------------------------------------------------------------------

\* The rows of product p as they are when its lock holder commits.
Newest(p) ==
    IF lock[p] = NoCall THEN reserved
    ELSE (reserved \ freed[lock[p]]) \cup fresh[lock[p]]

\* Both versions of each product add up with the rows they belong to.
StockInv == \A p \in Products :
    /\ avail[p] + Tally(reserved, p) = InitialStock[p]
    /\ dirty[p] + Tally(Newest(p), p) = InitialStock[p]

\* At any time finitely many rows have been inserted.
FiniteInv == IsFiniteSet(reserved) /\ \A c \in Calls : IsFiniteSet(fresh[c])

\* The inductive invariant.
CInv == IInv /\ FiniteInv /\ StockInv

\* All of the stock is available at the start.
LEMMA InitCount == Init => FiniteInv /\ StockInv
<1> SUFFICES ASSUME Init
             PROVE  FiniteInv /\ StockInv
  OBVIOUS
<1>1. reserved = {} /\ (\A c \in Calls : fresh[c] = {}) /\ avail = InitialStock
      /\ dirty = InitialStock /\ \A p \in Products : lock[p] = NoCall
  BY DEF Init
<1>2. FiniteInv
  BY <1>1, FS_EmptySet DEF FiniteInv
<1>3. \A p : Tally({}, p) = 0
  <2> TAKE p
  <2>1. Units(At({}, p)) = {}
    BY DEF Units, At
  <2> QED BY <2>1, FS_EmptySet DEF Tally
<1>4. StockInv
  BY <1>1, <1>3, StockAssumption DEF StockInv, Newest
<1> QED BY <1>2, <1>4

\* The rows there are can be counted.
LEMMA RowsCounted ==
    ASSUME IInv, FiniteInv
    PROVE  /\ Counted(reserved)
           /\ \A p \in Products : Counted(Newest(p))
<1>1. \A x \in Rows : Quantity(x) \in Int
  <2> SUFFICES ASSUME NEW x \in Rows
               PROVE  Quantity(x) \in Int
    OBVIOUS
  <2>1. x[1] \in Calls /\ req[x[1]] \in Requests /\ x[2] \in Lines(req[x[1]])
    BY DEF Rows, IInv, TypeOK, CallTypes
  <2> QED BY <2>1, RequestTypes DEF Quantity, Line
<1>2. Counted(reserved)
  BY <1>1 DEF Counted, FiniteInv, IInv, TypeOK, RowTypes
<1>3. ASSUME NEW p \in Products
      PROVE  Counted(Newest(p))
  <2>1. CASE lock[p] = NoCall
    BY <1>2, <2>1 DEF Newest
  <2>2. CASE lock[p] # NoCall
    <3>1. lock[p] \in Calls
      BY <2>2 DEF IInv, TypeOK, StockTypes
    <3>2. IsFiniteSet(reserved \ freed[lock[p]]) /\ IsFiniteSet(fresh[lock[p]])
      BY <3>1, FS_Difference DEF FiniteInv
    <3>3. IsFiniteSet(Newest(p))
      BY <2>2, <3>2, FS_Union DEF Newest
    <3>4. Newest(p) \subseteq Rows
      BY <2>2, <3>1 DEF Newest, IInv, TypeOK, RowTypes
    <3> QED BY <1>1, <3>3, <3>4 DEF Counted
  <2> QED BY <2>1, <2>2
<1> QED BY <1>2, <1>3

\* As long as no request arrives, StockInv is about the new rows with their old
\* products and quantities.
LEMMA NextStock ==
    ASSUME UNCHANGED req,
           \A p \in Products :
             /\ avail'[p] + Tally(reserved', p) = InitialStock[p]
             /\ dirty'[p] + Tally(IF lock'[p] = NoCall THEN reserved'
                                  ELSE (reserved' \ freed'[lock'[p]]) \cup fresh'[lock'[p]],
                                  p) = InitialStock[p]
    PROVE  StockInv'
<1> DEFINE N(p) == IF lock'[p] = NoCall THEN reserved'
                   ELSE (reserved' \ freed'[lock'[p]]) \cup fresh'[lock'[p]]
<1>1. \A x : Product(x)' = Product(x) /\ Quantity(x)' = Quantity(x)
  BY DEF Product, Quantity, Line
<1>2. ASSUME NEW p \in Products
      PROVE  At(reserved, p)' = At(reserved', p) /\ At(Newest(p), p)' = At(N(p), p)
  BY <1>1 DEF At, Newest
<1>3. ASSUME NEW p \in Products
      PROVE  /\ Units(At(reserved, p))' = Units(At(reserved', p))
             /\ Units(At(Newest(p), p))' = Units(At(N(p), p))
  <2> HIDE DEF N
  <2>1. Units(At(reserved, p))' = Units(At(reserved', p))
    BY <1>1, <1>2 DEF Units
  <2>2. Units(At(Newest(p), p))' = Units(At(N(p), p))
    BY <1>1, <1>2 DEF Units
  <2> QED BY <2>1, <2>2
<1>4. ASSUME NEW p \in Products
      PROVE  /\ Tally(reserved, p)' = Tally(reserved', p)
             /\ Tally(Newest(p), p)' = Tally(N(p), p)
  BY <1>3 DEF Tally
<1> QED BY <1>4 DEF StockInv

\* Rows of other products do not count.
LEMMA SameRows ==
    ASSUME NEW X, NEW Y, NEW p, At(X, p) = At(Y, p)
    PROVE  Tally(X, p) = Tally(Y, p)
BY DEF Tally

\* Locking a product changes neither version of it.
LEMMA LockCount ==
    ASSUME CInv, NEW c \in Calls, NEW p \in Products, LockFree(c, p),
           lock' = [lock EXCEPT ![p] = c],
           UNCHANGED <<avail, dirty, reserved, fresh, freed, req>>
    PROVE  FiniteInv' /\ StockInv'
<1>1. FiniteInv'
  BY DEF CInv, FiniteInv
<1>2. ASSUME NEW q \in Products
      PROVE  Tally(IF lock'[q] = NoCall THEN reserved'
                   ELSE (reserved' \ freed'[lock'[q]]) \cup fresh'[lock'[q]], q)
             = Tally(Newest(q), q)
  <2>1. CASE lock'[q] = lock[q]
    BY <2>1 DEF Newest
  <2>2. CASE lock'[q] # lock[q]
    <3>1. q = p /\ lock[p] = NoCall /\ lock'[p] = c /\ c # NoCall
      BY <2>2, CallsAssumption DEF LockFree, CInv, IInv, TypeOK, StockTypes
    <3>2. \A x \in fresh[c] \cup freed[c] : Product(x) # p
      BY <3>1 DEF CInv, IInv, TransactionInv, FreshInv, FreedInv
    <3>3. At((reserved \ freed[c]) \cup fresh[c], p) = At(reserved, p)
      BY <3>2 DEF At
    <3> QED BY <3>1, <3>3 DEF Newest, Tally
  <2> QED BY <2>1, <2>2
<1>3. StockInv'
  BY <1>2, NextStock DEF CInv, StockInv
<1> QED BY <1>1, <1>3

\* What product.save subtracts is what the inserted row adds.
LEMMA WriteCount ==
    ASSUME CInv, NEW c \in Calls, NEW i \in todo[c], WriteLine(c, i)
    PROVE  FiniteInv' /\ StockInv'
<1> DEFINE p == req[c].items[i].product
           n == req[c].items[i].quantity
           x == <<c, i>>
           N(q) == IF lock'[q] = NoCall THEN reserved'
                   ELSE (reserved' \ freed'[lock'[q]]) \cup fresh'[lock'[q]]
<1>1. /\ pc[c] = "write" /\ NextLine(c, i)
      /\ dirty' = [dirty EXCEPT ![p] = seen[c] - n]
      /\ fresh' = [fresh EXCEPT ![c] = @ \cup {x}]
      /\ UNCHANGED <<avail, lock, reserved, freed, req>>
  BY DEF WriteLine
<1>2. /\ p \in Products /\ lock[p] = c /\ seen[c] = dirty[p] /\ n > 0
      /\ c # NoCall
  BY <1>1, CallsAssumption DEF CInv, IInv, TransactionInv, WriteInv
<1>3. n \in Nat /\ Product(x) = p /\ Quantity(x) = n
  <2>1. req[c] \in Requests /\ i \in Lines(req[c])
    BY <1>1 DEF CInv, IInv, TypeOK, CallTypes, TodoTypes
  <2> QED BY <1>2, <2>1, RequestTypes DEF Product, Quantity, Line
<1>4. FiniteInv'
  BY <1>1, FS_AddElement DEF CInv, FiniteInv, IInv, TypeOK, RowTypes
<1>5. x \notin reserved /\ x \notin fresh[c]
  BY <1>1 DEF CInv, IInv, TransactionInv, RowsInv, StageInv, FreshInv
<1>6. N(p) = Newest(p) \cup {x} /\ x \notin Newest(p)
  BY <1>1, <1>2, <1>5 DEF Newest, CInv, IInv, TypeOK, RowTypes
<1>7. Counted(Newest(p))
  BY <1>2, RowsCounted DEF CInv
<1>8. Tally(Newest(p), p) \in Nat /\ Tally(N(p), p) = Tally(Newest(p), p) + n
  <2> HIDE DEF N, n, p, x
  <2> QED BY <1>3, <1>6, <1>7, AddRow
<1>9. dirty'[p] + Tally(N(p), p) = InitialStock[p]
  <2>1. dirty[p] \in Nat /\ dirty'[p] = dirty[p] - n
    BY <1>1, <1>2 DEF CInv, IInv, TypeOK, StockTypes
  <2>2. dirty[p] + Tally(Newest(p), p) = InitialStock[p]
    BY <1>2 DEF CInv, StockInv
  <2> HIDE DEF N, n, p
  <2> QED BY <1>3, <1>8, <2>1, <2>2
<1>10. ASSUME NEW q \in Products, q # p
       PROVE  dirty'[q] = dirty[q] /\ Tally(N(q), q) = Tally(Newest(q), q)
  <2>1. dirty'[q] = dirty[q]
    BY <1>1, <1>10 DEF CInv, IInv, TypeOK, StockTypes
  <2>2. At(N(q), q) = At(Newest(q), q)
    <3>1. CASE lock[q] = c
      <4>1. N(q) = Newest(q) \cup {x}
        BY <1>1, <1>2, <3>1 DEF Newest, CInv, IInv, TypeOK, RowTypes
      <4> HIDE DEF N
      <4> QED BY <1>3, <1>10, <4>1 DEF At
    <3>2. CASE lock[q] # c
      BY <1>1, <3>2 DEF Newest
    <3> QED BY <3>1, <3>2
  <2> HIDE DEF N
  <2> QED BY <2>1, <2>2 DEF Tally
<1>11. StockInv'
  <2>1. \A q \in Products : avail'[q] + Tally(reserved', q) = InitialStock[q]
    BY <1>1 DEF CInv, StockInv
  <2>2. \A q \in Products : dirty'[q] + Tally(N(q), q) = InitialStock[q]
    BY <1>9, <1>10 DEF CInv, StockInv
  <2> QED BY <1>1, <2>1, <2>2, NextStock
<1> QED BY <1>4, <1>11

\* What a release adds is what the row it flips gives up.
LEMMA ReleaseCount ==
    ASSUME CInv, NEW c \in Calls, NEW x \in held[c], ReleaseRow(c, x)
    PROVE  FiniteInv' /\ StockInv'
<1> DEFINE p == Product(x)
           N(q) == IF lock'[q] = NoCall THEN reserved'
                   ELSE (reserved' \ freed'[lock'[q]]) \cup fresh'[lock'[q]]
<1>1. /\ pc[c] = "release" /\ x \in held[c] \ freed[c]
      /\ LockFree(c, p)
      /\ lock' = [lock EXCEPT ![p] = c]
      /\ dirty' = [dirty EXCEPT ![p] = @ + Quantity(x)]
      /\ freed' = [freed EXCEPT ![c] = @ \cup {x}]
      /\ UNCHANGED <<avail, reserved, fresh, req>>
  BY DEF ReleaseRow, frame
<1>2. x \in reserved /\ x \notin freed[c] /\ fresh[c] = {} /\ c # NoCall
  BY <1>1, CallsAssumption DEF CInv, IInv, TransactionInv, HeldInv, StageInv
<1>3. p \in Products /\ Quantity(x) \in Nat
  <2>1. Quantity(x) \in Int
    BY <1>2, RowsCounted DEF CInv, Counted
  <2> QED BY <1>2, <2>1 DEF CInv, IInv, TransactionInv, RowsInv
<1>4. FiniteInv'
  BY <1>1 DEF CInv, FiniteInv
<1>5. At(Newest(p), p) = At(reserved \ freed[c], p)
  <2>1. CASE lock[p] = c
    BY <1>2, <2>1 DEF Newest
  <2>2. CASE lock[p] = NoCall
    <3>1. \A y \in freed[c] : Product(y) # p
      BY <1>2, <2>2 DEF CInv, IInv, TransactionInv, FreedInv
    <3> QED BY <2>2, <3>1 DEF Newest, At
  <2> QED BY <1>1, <2>1, <2>2 DEF LockFree
<1>6. N(p) = (reserved \ freed[c]) \ {x}
  BY <1>1, <1>2, <1>3 DEF CInv, IInv, TypeOK, RowTypes, StockTypes
<1>7. Counted(reserved \ freed[c])
  BY RowsCounted, FS_Difference DEF CInv, Counted
<1>8. /\ Tally(N(p), p) \in Nat
      /\ Tally(Newest(p), p) = Tally(N(p), p) + Quantity(x)
  <2>1. x \in reserved \ freed[c]
    BY <1>2
  <2>2. Tally(Newest(p), p) = Tally(reserved \ freed[c], p)
    BY <1>5, SameRows
  <2> DEFINE X == reserved \ freed[c]
  <2>3. Tally(X \ {x}, p) \in Nat /\ Tally(X, p) = Tally(X \ {x}, p) + Quantity(x)
    <3> HIDE DEF X
    <3> QED BY <1>3, <1>7, <2>1, DropRow DEF X
  <2> QED BY <1>6, <2>2, <2>3
<1>9. dirty'[p] + Tally(N(p), p) = InitialStock[p]
  <2>1. dirty[p] \in Nat /\ dirty'[p] = dirty[p] + Quantity(x)
    BY <1>1, <1>3 DEF CInv, IInv, TypeOK, StockTypes
  <2>2. dirty[p] + Tally(Newest(p), p) = InitialStock[p]
    BY <1>3 DEF CInv, StockInv
  <2> HIDE DEF N, p
  <2> QED BY <1>3, <1>8, <2>1, <2>2
<1>10. ASSUME NEW q \in Products, q # p
       PROVE  dirty'[q] = dirty[q] /\ Tally(N(q), q) = Tally(Newest(q), q)
  <2>1. dirty'[q] = dirty[q] /\ lock'[q] = lock[q]
    BY <1>1, <1>10 DEF CInv, IInv, TypeOK, StockTypes
  <2>2. At(N(q), q) = At(Newest(q), q)
    <3>1. CASE lock[q] = c
      <4>1. N(q) = (reserved \ (freed[c] \cup {x})) \cup fresh[c]
        BY <1>1, <1>2, <2>1, <3>1 DEF CInv, IInv, TypeOK, RowTypes
      <4>2. Newest(q) = (reserved \ freed[c]) \cup fresh[c]
        BY <1>2, <3>1 DEF Newest
      <4> HIDE DEF N
      <4> QED BY <1>10, <4>1, <4>2 DEF At
    <3>2. CASE lock[q] # c
      <4>1. CASE lock[q] = NoCall
        BY <1>1, <2>1, <4>1 DEF Newest
      <4>2. CASE lock[q] # NoCall
        <5>1. lock[q] \in Calls
          BY <4>2 DEF CInv, IInv, TypeOK, StockTypes
        <5>2. freed'[lock[q]] = freed[lock[q]]
          BY <1>1, <3>2, <5>1 DEF CInv, IInv, TypeOK, RowTypes
        <5> QED BY <1>1, <2>1, <4>2, <5>2 DEF Newest
      <4> QED BY <4>1, <4>2
    <3> QED BY <3>1, <3>2
  <2> HIDE DEF N
  <2> QED BY <2>1, <2>2 DEF Tally
<1>11. StockInv'
  <2>1. \A q \in Products : avail'[q] + Tally(reserved', q) = InitialStock[q]
    BY <1>1 DEF CInv, StockInv
  <2>2. \A q \in Products : dirty'[q] + Tally(N(q), q) = InitialStock[q]
    BY <1>9, <1>10 DEF CInv, StockInv
  <2> QED BY <1>1, <2>1, <2>2, NextStock
<1> QED BY <1>4, <1>11

\* COMMIT publishes the newest version with the rows it was computed for, and
\* ROLLBACK leaves the committed one with the committed rows.
LEMMA EndCount ==
    ASSUME CInv, NEW c \in Calls, EndTransaction(c), Publish(c) \/ Discard(c)
    PROVE  FiniteInv' /\ StockInv'
<1> DEFINE N(q) == IF lock'[q] = NoCall THEN reserved'
                   ELSE (reserved' \ freed'[lock'[q]]) \cup fresh'[lock'[q]]
<1>1. /\ lock' = [q \in Products |-> IF lock[q] = c THEN NoCall ELSE lock[q]]
      /\ fresh' = [fresh EXCEPT ![c] = {}] /\ freed' = [freed EXCEPT ![c] = {}]
      /\ UNCHANGED req
  BY DEF EndTransaction, Unlock
<1>2. /\ \A q \in Products : lock[q] \in Calls \cup {NoCall}
      /\ \A d \in Calls \ {c} : fresh'[d] = fresh[d] /\ freed'[d] = freed[d]
      /\ fresh'[c] = {} /\ c # NoCall
  BY <1>1, CallsAssumption DEF CInv, IInv, TypeOK, StockTypes, RowTypes
<1>3. ASSUME NEW q \in Products, lock[q] # c
      PROVE  \A x \in fresh[c] \cup freed[c] : Product(x) # q
  BY <1>3 DEF CInv, IInv, TransactionInv, FreshInv, FreedInv
<1>4. CASE Publish(c)
  <2>1. /\ avail' = [q \in Products |-> IF lock[q] = c THEN dirty[q] ELSE avail[q]]
        /\ reserved' = (reserved \ freed[c]) \cup fresh[c] /\ dirty' = dirty
    BY <1>4 DEF Publish
  <2>2. FiniteInv'
    <3>1. IsFiniteSet(reserved \ freed[c]) /\ IsFiniteSet(fresh[c])
      BY FS_Difference DEF CInv, FiniteInv
    <3>2. IsFiniteSet(reserved')
      BY <2>1, <3>1, FS_Union
    <3>3. \A d \in Calls : IsFiniteSet(fresh'[d])
      BY <1>2, FS_EmptySet DEF CInv, FiniteInv
    <3> QED BY <3>2, <3>3 DEF FiniteInv
  <2>3. ASSUME NEW q \in Products
        PROVE  /\ avail'[q] + Tally(reserved', q) = InitialStock[q]
               /\ dirty'[q] + Tally(N(q), q) = InitialStock[q]
    <3>1. CASE lock[q] = c
      <4>1. avail'[q] = dirty[q] /\ lock'[q] = NoCall /\ reserved' = Newest(q)
        BY <1>1, <1>2, <2>1, <3>1 DEF Newest
      <4>2. dirty[q] + Tally(Newest(q), q) = InitialStock[q]
        BY DEF CInv, StockInv
      <4> QED BY <2>1, <4>1, <4>2
    <3>2. CASE lock[q] # c
      <4>1. avail'[q] = avail[q] /\ lock'[q] = lock[q]
        BY <1>1, <2>1, <3>2
      <4>2. At(reserved', q) = At(reserved, q)
        BY <1>3, <2>1, <3>2 DEF At
      <4>3. At(N(q), q) = At(Newest(q), q)
        <5>1. CASE lock[q] = NoCall
          BY <4>1, <4>2, <5>1 DEF Newest
        <5>2. CASE lock[q] # NoCall
          <6>1. N(q) = (reserved' \ freed[lock[q]]) \cup fresh[lock[q]]
            BY <1>2, <3>2, <4>1, <5>2
          <6> HIDE DEF N
          <6> QED BY <1>3, <2>1, <3>2, <5>2, <6>1 DEF Newest, At
        <5> QED BY <5>1, <5>2
      <4>4. Tally(reserved', q) = Tally(reserved, q) /\ Tally(N(q), q) = Tally(Newest(q), q)
        <5> HIDE DEF N
        <5> QED BY <4>2, <4>3 DEF Tally
      <4> QED BY <2>1, <4>1, <4>4 DEF CInv, StockInv
    <3> QED BY <3>1, <3>2
  <2>4. StockInv'
    BY <1>1, <2>3, NextStock
  <2> QED BY <2>2, <2>4
<1>5. CASE Discard(c)
  <2>1. /\ dirty' = [q \in Products |-> IF lock[q] = c THEN avail[q] ELSE dirty[q]]
        /\ reserved' = reserved /\ avail' = avail
    BY <1>5 DEF Discard
  <2>2. FiniteInv'
    <3>1. \A d \in Calls : IsFiniteSet(fresh'[d])
      BY <1>2, FS_EmptySet DEF CInv, FiniteInv
    <3> QED BY <2>1, <3>1 DEF CInv, FiniteInv
  <2>3. ASSUME NEW q \in Products
        PROVE  /\ avail'[q] + Tally(reserved', q) = InitialStock[q]
               /\ dirty'[q] + Tally(N(q), q) = InitialStock[q]
    <3>1. CASE lock[q] = c
      <4>1. dirty'[q] = avail[q] /\ N(q) = reserved
        BY <1>1, <2>1, <3>1
      <4> QED BY <2>1, <4>1 DEF CInv, StockInv
    <3>2. CASE lock[q] # c
      <4>1. dirty'[q] = dirty[q] /\ N(q) = Newest(q)
        BY <1>1, <1>2, <2>1, <3>2 DEF Newest
      <4> QED BY <2>1, <4>1 DEF CInv, StockInv
    <3> QED BY <3>1, <3>2
  <2>4. StockInv'
    BY <1>1, <2>3, NextStock
  <2> QED BY <2>2, <2>4
<1> QED BY <1>4, <1>5

\* A new request has no rows yet.
LEMMA ArriveCount ==
    ASSUME CInv, NEW c \in Calls, Arrive(c)
    PROVE  FiniteInv' /\ StockInv'
<1>1. PICK r \in Requests : req' = [req EXCEPT ![c] = r]
  BY DEF Arrive, Accept, Abort
<1>2. /\ pc[c] = "idle"
      /\ UNCHANGED <<avail, dirty, lock, reserved, fresh, freed>>
  BY DEF Arrive, Accept, Abort, database, work
<1>3. req[c] = NoRequest
  BY <1>2 DEF CInv, IInv, TransactionInv, StageInv
<1>4. \A x \in Rows : Product(x)' = Product(x) /\ Quantity(x)' = Quantity(x)
  BY <1>1, <1>3 DEF Rows, Product, Quantity, Line, CInv, IInv, TypeOK, CallTypes
<1>5. \A p \in Products : reserved \subseteq Rows /\ Newest(p) \subseteq Rows
  BY DEF Newest, CInv, IInv, TypeOK, RowTypes, StockTypes
<1>6. FiniteInv'
  BY <1>2 DEF CInv, FiniteInv
<1>7. ASSUME NEW p \in Products
      PROVE  /\ Tally(reserved, p)' = Tally(reserved, p)
             /\ Tally(Newest(p), p)' = Tally(Newest(p), p)
  <2>1. Newest(p)' = Newest(p)
    BY <1>2 DEF Newest
  <2>2. At(reserved, p)' = At(reserved, p) /\ At(Newest(p), p)' = At(Newest(p), p)
    BY <1>2, <1>4, <1>5, <2>1 DEF At
  <2>3. At(reserved, p) \subseteq Rows /\ At(Newest(p), p) \subseteq Rows
    BY <1>5 DEF At
  <2>4. /\ Units(At(reserved, p))' = Units(At(reserved, p))
        /\ Units(At(Newest(p), p))' = Units(At(Newest(p), p))
    BY <1>4, <2>2, <2>3 DEF Units
  <2> QED BY <2>4 DEF Tally
<1>8. StockInv'
  BY <1>2, <1>7 DEF CInv, StockInv
<1> QED BY <1>6, <1>8

\* Steps that touch neither stock nor rows.
LEMMA QuietCount ==
    ASSUME CInv, UNCHANGED <<avail, dirty, lock, reserved, fresh, freed, req>>
    PROVE  FiniteInv' /\ StockInv'
<1>1. FiniteInv'
  BY DEF CInv, FiniteInv
<1>2. \A p \in Products :
        /\ avail'[p] + Tally(reserved', p) = InitialStock[p]
        /\ dirty'[p] + Tally(IF lock'[p] = NoCall THEN reserved'
                             ELSE (reserved' \ freed'[lock'[p]]) \cup fresh'[lock'[p]],
                             p) = InitialStock[p]
  BY DEF CInv, StockInv, Newest
<1> QED BY <1>1, <1>2, NextStock

\* Every step preserves the strengthened invariant.
LEMMA CountPreserved ==
    ASSUME CInv, [Next]_vars
    PROVE  CInv'
<1>1. IInv'
  BY NextPreserves DEF CInv
<1>2. CASE UNCHANGED vars
  <2>1. UNCHANGED <<avail, dirty, lock, reserved, fresh, freed, req>>
    BY <1>2 DEF vars, database, work, frame
  <2> QED BY <1>1, <2>1, QuietCount DEF CInv
<1>3. ASSUME NEW c \in Calls, Arrive(c) \/ Step(c) \/ Crash(c)
      PROVE  FiniteInv' /\ StockInv'
  <2>1. CASE Arrive(c)
    BY <2>1, ArriveCount
  <2>2. CASE Crash(c)
    BY <2>2, EndCount DEF Crash
  <2>3. CASE Replay(c) \/ BeginReserve(c) \/ Select(c) \/ \E p \in Products : LockRows(c, p)
    <3>1. UNCHANGED <<avail, dirty, lock, reserved, fresh, freed, req>>
      BY <2>3 DEF Replay, BeginReserve, Select, LockRows, database, work
    <3> QED BY <3>1, QuietCount
  <2>4. ASSUME NEW i \in todo[c], RejectLine(c, i)
        PROVE  FiniteInv' /\ StockInv'
    BY <2>4, QuietCount DEF RejectLine, database, work
  <2>5. ASSUME NEW i \in todo[c], LockLine(c, i)
        PROVE  FiniteInv' /\ StockInv'
    BY <2>5, LockCount DEF LockLine, work
  <2>6. ASSUME NEW i \in todo[c], WriteLine(c, i)
        PROVE  FiniteInv' /\ StockInv'
    BY <2>6, WriteCount
  <2>7. ASSUME NEW i \in todo[c], LoseUniqueRace(c, i)
        PROVE  FiniteInv' /\ StockInv'
    BY <2>7, EndCount DEF LoseUniqueRace
  <2>8. CASE Commit(c) \/ Rollback(c) \/ CommitRelease(c)
    BY <2>8, EndCount DEF Commit, Rollback, CommitRelease
  <2>9. ASSUME NEW x \in held[c], ReleaseRow(c, x)
        PROVE  FiniteInv' /\ StockInv'
    BY <2>9, ReleaseCount
  <2>10. CASE ReserveStep(c)
    BY <2>10, <2>3, <2>4, <2>5, <2>6, <2>7, <2>8
       DEF ReserveStep, EnoughStock, InsufficientStock
  <2>11. CASE ReleaseStep(c)
    BY <2>11, <2>3, <2>8, <2>9 DEF ReleaseStep
  <2> QED BY <1>3, <2>1, <2>2, <2>10, <2>11 DEF Step
<1> QED BY <1>1, <1>2, <1>3 DEF CInv, Next

\* No interleaving of reserves, releases, rollbacks and crashes loses or invents a
\* unit: what is available and what is RESERVED is what there was at first.
THEOREM ConservationCorrect == Spec => []Conservation
<1>1. Init => CInv
  BY InitType, InitTransaction, InitCount DEF CInv, IInv
<1>2. CInv /\ [Next]_vars => CInv'
  BY CountPreserved
<1>3. CInv => Conservation
  BY DEF CInv, StockInv, Conservation, Reserved, Tally, At
<1> QED BY <1>1, <1>2, <1>3, PTL DEF Spec

-----------------------------------------------------------------------------
(***************************************************************************)
(* AllOrNothing, for every instance: orders are reserved whole and         *)
(* released whole.  A reserve's transaction must hold a row for each line  *)
(* it has done as long as no line has failed; a release must have found    *)
(* the rows of whole orders, and each row it has passed without a lock     *)
(* must have been released by another, so that it flips whole orders too.  *)
(***************************************************************************)

\* The rows of d are all RESERVED or all RELEASED.
Whole(d) ==
    \/ RowsOf(d) \subseteq reserved /\ \A x \in released : x[1] # d
    \/ RowsOf(d) \subseteq released /\ \A x \in reserved : x[1] # d

WholeOrders == \A d \in Calls : outcome[d] = "reserved" => Whole(d)

\* A loop in which nothing has failed has a row for each line it is done with.
LinesAt(d) ==
    pc[d] \in {"lines", "write"} /\ ok[d]
        => fresh[d] = {d} \X (Lines(req[d]) \ todo[d])

\* A release has found whole orders, and locked each row it has dealt with
\* unless another release had flipped it.
ClaimAt(d) ==
    /\ claim[d] \subseteq reserved \cup released
    /\ \A x \in claim[d] : RowsOf(x[1]) \subseteq claim[d]
    /\ claim[d] \ todo[d] \subseteq held[d] \cup released

\* The inductive invariant.
WInv == IInv /\ WholeOrders /\ \A d \in Calls : LinesAt(d) /\ ClaimAt(d)

-----------------------------------------------------------------------------

\* The rows of a call are the rows its name is on.
LEMMA RowOwner ==
    ASSUME NEW x \in Rows
    PROVE  x[1] \in Calls /\ x \in RowsOf(x[1])
BY DEF Rows, RowsOf

\* No call has been made.
LEMMA InitWhole == Init => WInv
<1> SUFFICES ASSUME Init
             PROVE  WInv
  OBVIOUS
<1>1. IInv
  BY InitType, InitTransaction DEF IInv
<1>2. \A d \in Calls : outcome[d] = "none" /\ pc[d] = "idle" /\ claim[d] = {}
  BY DEF Init
<1> QED BY <1>1, <1>2 DEF WInv, WholeOrders, LinesAt, ClaimAt

\* What a step of c leaves true of the other calls.
LEMMA OthersKeep ==
    ASSUME WInv, NEW c \in Calls, UNCHANGED req,
           \A d \in Calls \ {c} :
             /\ pc'[d] = pc[d] /\ ok'[d] = ok[d] /\ fresh'[d] = fresh[d]
             /\ todo'[d] = todo[d] /\ claim'[d] = claim[d] /\ held'[d] = held[d],
           released \subseteq released',
           reserved \cup released \subseteq reserved' \cup released'
    PROVE  \A d \in Calls \ {c} : LinesAt(d)' /\ ClaimAt(d)'
<1>1. TAKE d \in Calls \ {c}
<1>2. LinesAt(d) /\ ClaimAt(d)
  BY DEF WInv
<1>3. LinesAt(d)'
  BY <1>2 DEF LinesAt
<1>4. ClaimAt(d)'
  BY <1>2 DEF ClaimAt, RowsOf
<1> QED BY <1>3, <1>4

\* Committed rows are left alone and nobody is told "reserved".
LEMMA TablesKeep ==
    ASSUME WInv, UNCHANGED <<req, reserved, released>>,
           \A d \in Calls : outcome'[d] = "reserved" => outcome[d] = "reserved"
    PROVE  WholeOrders'
BY DEF WInv, WholeOrders, Whole, RowsOf

-----------------------------------------------------------------------------
(* The steps.                                                               *)

\* Every way a transaction ends without effect.
LEMMA DiscardWhole ==
    ASSUME WInv, NEW c \in Calls, NEW o, o # "reserved",
           Discard(c), EndTransaction(c), Finish(c, o)
    PROVE  WholeOrders' /\ \A d \in Calls : LinesAt(d)' /\ ClaimAt(d)'
<1> USE DEF IInv, TypeOK, CallTypes, RowTypes, TodoTypes
<1>1. /\ UNCHANGED <<req, reserved, released>>
      /\ \A d \in Calls \ {c} :
           /\ pc'[d] = pc[d] /\ ok'[d] = ok[d] /\ fresh'[d] = fresh[d]
           /\ todo'[d] = todo[d] /\ claim'[d] = claim[d] /\ held'[d] = held[d]
           /\ outcome'[d] = outcome[d]
      /\ pc'[c] = "done" /\ claim'[c] = {} /\ outcome'[c] = o
  BY DEF WInv, Discard, EndTransaction, Finish, Goto
<1>2. WholeOrders'
  BY <1>1, TablesKeep
<1>3. \A d \in Calls \ {c} : LinesAt(d)' /\ ClaimAt(d)'
  BY <1>1, OthersKeep
<1>4. LinesAt(c)' /\ ClaimAt(c)'
  BY <1>1 DEF LinesAt, ClaimAt
<1> QED BY <1>2, <1>3, <1>4

\* A reserve commits a row for each of its lines.
LEMMA CommitWhole ==
    ASSUME WInv, NEW c \in Calls, Commit(c)
    PROVE  WholeOrders' /\ \A d \in Calls : LinesAt(d)' /\ ClaimAt(d)'
<1> USE DEF IInv, TypeOK, CallTypes, RowTypes, TodoTypes
<1>1. /\ pc[c] = "lines" /\ todo[c] = {} /\ ok[c]
      /\ reserved' = (reserved \ freed[c]) \cup fresh[c]
      /\ released' = released \cup freed[c]
      /\ UNCHANGED req
      /\ \A d \in Calls \ {c} :
           /\ pc'[d] = pc[d] /\ ok'[d] = ok[d] /\ fresh'[d] = fresh[d]
           /\ todo'[d] = todo[d] /\ claim'[d] = claim[d] /\ held'[d] = held[d]
           /\ outcome'[d] = outcome[d]
      /\ pc'[c] = "done" /\ claim'[c] = {} /\ outcome'[c] = "reserved"
  BY DEF WInv, Commit, AllOk, Publish, EndTransaction, Finish, Goto
<1>2. freed[c] = {} /\ outcome[c] = "none"
  BY <1>1 DEF WInv, TransactionInv, StageInv
<1>3. fresh[c] = RowsOf(c)
  BY <1>1 DEF WInv, LinesAt, RowsOf
<1>4. reserved' = reserved \cup RowsOf(c) /\ released' = released
  BY <1>1, <1>2, <1>3
<1>5. WholeOrders'
  <2>1. \A x \in RowsOf(c) : x[1] = c
    BY DEF RowsOf
  <2>2. \A x \in released : x[1] # c
    BY <1>2 DEF WInv, TransactionInv, RowsInv
  <2>3. ASSUME NEW d \in Calls, outcome'[d] = "reserved"
        PROVE  Whole(d)'
    <3>1. CASE d = c
      BY <1>1, <1>4, <2>2, <3>1 DEF Whole, RowsOf
    <3>2. CASE d # c
      <4>1. Whole(d)
        BY <1>1, <2>3, <3>2 DEF WInv, WholeOrders
      <4>2. RowsOf(d)' = RowsOf(d)
        BY <1>1 DEF RowsOf
      <4> QED BY <1>4, <2>1, <3>2, <4>1, <4>2 DEF Whole
    <3> QED BY <3>1, <3>2
  <2> QED BY <2>3 DEF WholeOrders
<1>6. \A d \in Calls \ {c} : LinesAt(d)' /\ ClaimAt(d)'
  BY <1>1, <1>4, OthersKeep
<1>7. LinesAt(c)' /\ ClaimAt(c)'
  BY <1>1 DEF LinesAt, ClaimAt
<1> QED BY <1>5, <1>6, <1>7

\* A release flips the rows of whole orders.
LEMMA CommitReleaseWhole ==
    ASSUME WInv, NEW c \in Calls, CommitRelease(c)
    PROVE  WholeOrders' /\ \A d \in Calls : LinesAt(d)' /\ ClaimAt(d)'
<1> USE DEF IInv, TypeOK, CallTypes, RowTypes, TodoTypes
<1>1. /\ pc[c] = "release" /\ freed[c] = held[c]
      /\ reserved' = (reserved \ freed[c]) \cup fresh[c]
      /\ released' = released \cup freed[c]
      /\ UNCHANGED req
      /\ \A d \in Calls \ {c} :
           /\ pc'[d] = pc[d] /\ ok'[d] = ok[d] /\ fresh'[d] = fresh[d]
           /\ todo'[d] = todo[d] /\ claim'[d] = claim[d] /\ held'[d] = held[d]
           /\ outcome'[d] = outcome[d]
      /\ pc'[c] = "done" /\ claim'[c] = {} /\ outcome'[c] # "reserved"
  BY DEF WInv, CommitRelease, Publish, EndTransaction, Finish, Goto
<1>2. fresh[c] = {} /\ todo[c] = {} /\ held[c] \subseteq reserved
  BY <1>1 DEF WInv, TransactionInv, StageInv, HeldInv
<1>3. reserved' = reserved \ held[c] /\ released' = released \cup held[c]
  BY <1>1, <1>2
<1>4. held[c] \subseteq claim[c] /\ claim[c] \subseteq held[c] \cup released
  BY <1>2 DEF WInv, ClaimAt
<1>5. ASSUME NEW d \in Calls, outcome'[d] = "reserved"
      PROVE  Whole(d)'
  <2>1. Whole(d) /\ d # c
    BY <1>1, <1>5 DEF WInv, WholeOrders
  <2>2. RowsOf(d)' = RowsOf(d)
    BY <1>1 DEF RowsOf
  <2>3. CASE \E y \in held[c] : y[1] = d
    <3>1. PICK y \in held[c] : y[1] = d
      BY <2>3
    <3>2. RowsOf(d) \subseteq reserved /\ \A x \in released : x[1] # d
      BY <1>2, <2>1, <3>1 DEF Whole
    <3>3. RowsOf(d) \subseteq claim[c]
      BY <1>4, <3>1 DEF WInv, ClaimAt
    <3>4. \A x \in RowsOf(d) : x[1] = d
      BY DEF RowsOf
    <3>5. RowsOf(d) \subseteq held[c]
      BY <1>4, <3>2, <3>3, <3>4
    <3>6. \A x \in reserved : x[1] = d => x \in RowsOf(d)
      BY RowOwner DEF WInv
    <3> QED BY <1>3, <2>2, <3>5, <3>6 DEF Whole
  <2>4. CASE \A y \in held[c] : y[1] # d
    <3>1. \A x \in RowsOf(d) : x[1] = d
      BY DEF RowsOf
    <3> QED BY <1>3, <2>1, <2>2, <2>4, <3>1 DEF Whole
  <2> QED BY <2>3, <2>4
<1>6. WholeOrders'
  BY <1>5 DEF WholeOrders
<1>7. \A d \in Calls \ {c} : LinesAt(d)' /\ ClaimAt(d)'
  BY <1>1, <1>3, OthersKeep
<1>8. LinesAt(c)' /\ ClaimAt(c)'
  BY <1>1 DEF LinesAt, ClaimAt
<1> QED BY <1>6, <1>7, <1>8

\* A request arrives at an idle thread, whose name is on no row.
LEMMA ArriveWhole ==
    ASSUME WInv, NEW c \in Calls, Arrive(c)
    PROVE  WholeOrders' /\ \A d \in Calls : LinesAt(d)' /\ ClaimAt(d)'
<1> USE DEF IInv, TypeOK, CallTypes, RowTypes, TodoTypes
<1>1. PICK r \in Requests : req' = [req EXCEPT ![c] = r]
  BY DEF Arrive, Accept, Abort
<1>2. /\ pc[c] = "idle" /\ pc'[c] \in {"check", "select", "done"}
      /\ outcome'[c] # "reserved"
      /\ UNCHANGED <<reserved, released, fresh, held, ok, todo, claim>>
      /\ \A d \in Calls \ {c} : pc'[d] = pc[d] /\ outcome'[d] = outcome[d]
  <2>1. outcome[c] = "none" /\ pc[c] = "idle"
    BY DEF Arrive, Accept, Abort, WInv, TransactionInv, StageInv
  <2> QED BY <2>1 DEF Arrive, Accept, Abort, Finish, Goto, database, work, WInv
<1>3. req[c] = NoRequest /\ claim[c] = {}
  BY <1>2 DEF WInv, TransactionInv, StageInv
<1>4. \A d \in Calls \ {c} : req'[d] = req[d] /\ RowsOf(d)' = RowsOf(d)
  BY <1>1 DEF RowsOf, WInv
<1>5. \A x \in Rows : x[1] \in Calls \ {c}
  BY <1>3 DEF Rows
<1>6. WholeOrders'
  BY <1>2, <1>4 DEF WInv, WholeOrders, Whole
<1>7. ASSUME NEW d \in Calls
      PROVE  LinesAt(d)' /\ ClaimAt(d)'
  <2>1. CASE d = c
    BY <1>2, <1>3, <2>1 DEF LinesAt, ClaimAt
  <2>2. CASE d # c
    <3>1. LinesAt(d) /\ ClaimAt(d) /\ claim[d] \subseteq Rows
      BY DEF WInv
    <3>2. LinesAt(d)'
      BY <1>2, <1>4, <2>2, <3>1 DEF LinesAt
    <3>3. \A x \in claim[d] : RowsOf(x[1])' = RowsOf(x[1])
      BY <1>4, <1>5, <3>1
    <3>4. ClaimAt(d)'
      BY <1>2, <3>1, <3>3 DEF ClaimAt
    <3> QED BY <3>2, <3>4
  <2> QED BY <2>1, <2>2
<1> QED BY <1>6, <1>7

\* A reserve on its way through its lines: a line done leaves a row, or ok false.
LEMMA LinesWhole ==
    ASSUME WInv, NEW c \in Calls,
           \/ Replay(c) \/ BeginReserve(c)
           \/ \E i \in todo[c] : \/ RejectLine(c, i) \/ EnoughStock(c, i)
                                  \/ InsufficientStock(c, i) \/ WriteLine(c, i)
    PROVE  WholeOrders' /\ \A d \in Calls : LinesAt(d)' /\ ClaimAt(d)'
<1> USE DEF IInv, TypeOK, CallTypes, RowTypes, TodoTypes
<1>1. /\ UNCHANGED <<req, reserved, released, claim, held>>
      /\ \A d \in Calls \ {c} :
           /\ pc'[d] = pc[d] /\ ok'[d] = ok[d] /\ fresh'[d] = fresh[d]
           /\ todo'[d] = todo[d] /\ outcome'[d] = outcome[d]
      /\ outcome'[c] = "reserved" => outcome[c] = "reserved"
  BY DEF WInv, Replay, BeginReserve, RejectLine, EnoughStock, InsufficientStock, LockLine,
         WriteLine, Finish, Goto, database, work
<1>2. claim[c] = {}
  BY DEF WInv, TransactionInv, StageInv, Replay, BeginReserve, RejectLine, EnoughStock,
         InsufficientStock, LockLine, WriteLine
<1>3. WholeOrders'
  BY <1>1, TablesKeep
<1>4. \A d \in Calls \ {c} : LinesAt(d)' /\ ClaimAt(d)'
  BY <1>1, OthersKeep
<1>5. ClaimAt(c)'
  BY <1>1, <1>2 DEF ClaimAt
<1>6. LinesAt(c) /\ (pc[c] = "check" => fresh[c] = {})
  BY DEF WInv, TransactionInv, StageInv
<1>7. LinesAt(c)'
  <2>1. CASE Replay(c)
    BY <2>1 DEF WInv, Replay, Finish, Goto, LinesAt
  <2>2. CASE BeginReserve(c)
    <3>1. fresh'[c] = {} /\ todo'[c] = Lines(req'[c])
      BY <1>6, <2>2 DEF WInv, BeginReserve, work
    <3> QED BY <3>1 DEF LinesAt
  <2>3. ASSUME NEW i \in todo[c], RejectLine(c, i) \/ InsufficientStock(c, i)
        PROVE  LinesAt(c)'
    BY <2>3 DEF WInv, RejectLine, InsufficientStock, LinesAt
  <2>4. ASSUME NEW i \in todo[c], EnoughStock(c, i)
        PROVE  LinesAt(c)'
    <3>1. pc[c] = "lines" /\ UNCHANGED <<fresh, todo, ok, req>>
      BY <2>4 DEF EnoughStock, LockLine, work
    <3> QED BY <1>6, <3>1 DEF LinesAt
  <2>5. ASSUME NEW i \in todo[c], WriteLine(c, i)
        PROVE  LinesAt(c)'
    <3>1. /\ pc[c] = "write" /\ UNCHANGED <<ok, req>>
          /\ fresh'[c] = fresh[c] \cup {<<c, i>>} /\ todo'[c] = todo[c] \ {i}
      BY <2>5 DEF WInv, WriteLine
    <3>2. i \in Lines(req[c])
      BY <3>1 DEF WInv
    <3> QED BY <1>6, <3>1, <3>2 DEF LinesAt
  <2> QED BY <2>1, <2>2, <2>3, <2>4, <2>5
<1> QED BY <1>3, <1>4, <1>5, <1>7

\* The query of a release finds whole orders: it names an order_ref, which the
\* rows of one call share.
LEMMA SelectWhole ==
    ASSUME WInv, NEW c \in Calls, Select(c)
    PROVE  WholeOrders' /\ \A d \in Calls : LinesAt(d)' /\ ClaimAt(d)'
<1> USE DEF IInv, TypeOK, CallTypes, RowTypes, TodoTypes
<1> DEFINE found == {x \in reserved : Ref(x) = req[c].ref}
<1>1. /\ pc[c] = "select" /\ claim' = [claim EXCEPT ![c] = found]
      /\ todo' = [todo EXCEPT ![c] = found]
      /\ UNCHANGED <<req, reserved, released, held, fresh, ok>>
      /\ pc'[c] \in {"done", "claim"} /\ outcome'[c] # "reserved"
      /\ \A d \in Calls \ {c} : pc'[d] = pc[d] /\ outcome'[d] = outcome[d]
  <2>1. outcome[c] = "none" /\ pc[c] = "select"
    BY DEF Select, WInv, TransactionInv, StageInv
  <2> QED BY <2>1 DEF WInv, Select, Finish, Goto, database, work
<1>2. claim'[c] = found /\ todo'[c] = found
  BY <1>1 DEF WInv
<1>3. WholeOrders'
  BY <1>1, TablesKeep
<1>4. \A d \in Calls \ {c} :
        todo'[d] = todo[d] /\ claim'[d] = claim[d]
  BY <1>1 DEF WInv
<1>5. \A d \in Calls \ {c} : LinesAt(d)' /\ ClaimAt(d)'
  BY <1>1, <1>4, OthersKeep
<1>6. ASSUME NEW x \in found
      PROVE  RowsOf(x[1]) \subseteq found
  <2>1. x \in Rows /\ x[1] \in Calls /\ outcome[x[1]] = "reserved"
    BY RowOwner DEF WInv, TransactionInv, RowsInv
  <2>2. RowsOf(x[1]) \subseteq reserved
    BY <2>1 DEF WInv, WholeOrders, Whole
  <2>3. \A y \in RowsOf(x[1]) : Ref(y) = Ref(x)
    BY DEF Ref, RowsOf
  <2> QED BY <2>2, <2>3
<1>7. ClaimAt(c)'
  <2>1. \A d \in Calls : RowsOf(d)' = RowsOf(d)
    BY <1>1 DEF RowsOf
  <2>2. \A x \in found : x[1] \in Calls
    BY RowOwner DEF WInv
  <2> HIDE DEF found
  <2>3. found \subseteq reserved
    BY DEF found
  <2> QED BY <1>1, <1>2, <1>6, <2>1, <2>2, <2>3 DEF ClaimAt
<1>8. LinesAt(c)'
  BY <1>1 DEF LinesAt
<1> QED BY <1>3, <1>5, <1>7, <1>8

\* A release passes the rows of a product: it locks those still RESERVED.
LEMMA LockRowsWhole ==
    ASSUME WInv, NEW c \in Calls, NEW p \in Products, LockRows(c, p)
    PROVE  WholeOrders' /\ \A d \in Calls : LinesAt(d)' /\ ClaimAt(d)'
<1> USE DEF IInv, TypeOK, CallTypes, RowTypes, TodoTypes
<1> DEFINE batch == {x \in todo[c] : Product(x) = p}
<1>1. /\ pc[c] = "claim" /\ pc'[c] \in {"claim", "release"}
      /\ held'[c] = held[c] \cup {x \in batch : x \in reserved}
      /\ todo'[c] = todo[c] \ batch
      /\ UNCHANGED <<req, reserved, released, claim, fresh, ok, outcome>>
      /\ \A d \in Calls \ {c} :
           pc'[d] = pc[d] /\ todo'[d] = todo[d] /\ held'[d] = held[d]
  BY DEF WInv, LockRows, StillReserved, Goto, database
<1>2. WholeOrders'
  BY <1>1, TablesKeep
<1>3. \A d \in Calls \ {c} : LinesAt(d)' /\ ClaimAt(d)'
  BY <1>1, OthersKeep
<1>4. LinesAt(c)'
  BY <1>1 DEF LinesAt
<1>5. ClaimAt(c)'
  <2>1. ClaimAt(c) /\ todo[c] \subseteq claim[c]
    BY <1>1 DEF WInv
  <2>2. \A d : RowsOf(d)' = RowsOf(d)
    BY <1>1 DEF RowsOf
  <2>3. claim[c] \ todo'[c] \subseteq held'[c] \cup released
    BY <1>1, <2>1 DEF ClaimAt
  <2> QED BY <1>1, <2>1, <2>2, <2>3 DEF ClaimAt
<1> QED BY <1>2, <1>3, <1>4, <1>5

\* Steps that touch nothing the invariant is about.
LEMMA QuietWhole ==
    ASSUME WInv,
           UNCHANGED <<req, reserved, released, pc, ok, fresh, todo, claim, held, outcome>>
    PROVE  WholeOrders' /\ \A d \in Calls : LinesAt(d)' /\ ClaimAt(d)'
<1>1. WholeOrders'
  BY TablesKeep
<1>2. ASSUME NEW d \in Calls
      PROVE  LinesAt(d)' /\ ClaimAt(d)'
  <2>1. LinesAt(d) /\ ClaimAt(d)
    BY DEF WInv
  <2>2. LinesAt(d)'
    BY <2>1 DEF LinesAt
  <2>3. ClaimAt(d)'
    BY <2>1 DEF ClaimAt, RowsOf
  <2> QED BY <2>2, <2>3
<1> QED BY <1>1, <1>2

-----------------------------------------------------------------------------

\* Every step preserves the invariant.
LEMMA WholePreserved ==
    ASSUME WInv, [Next]_vars
    PROVE  WInv'
<1>1. IInv'
  BY NextPreserves DEF WInv
<1>2. CASE UNCHANGED vars
  <2>1. UNCHANGED <<req, reserved, released, pc, ok, fresh, todo, claim, held, outcome>>
    BY <1>2 DEF vars, database, work, frame
  <2> QED BY <1>1, <2>1, QuietWhole DEF WInv
<1> DEFINE Goal == WholeOrders' /\ \A d \in Calls : LinesAt(d)' /\ ClaimAt(d)'
<1>3. ASSUME NEW c \in Calls, Arrive(c) \/ Step(c) \/ Crash(c)
      PROVE  Goal
  <2>1. CASE Arrive(c)
    BY <2>1, ArriveWhole
  <2>2. CASE Crash(c)
    BY <2>2, DiscardWhole DEF Crash
  <2>3. CASE ReserveStep(c)
    <3>1. CASE Replay(c) \/ BeginReserve(c)
      BY <3>1, LinesWhole
    <3>2. ASSUME NEW i \in todo[c], \/ RejectLine(c, i) \/ EnoughStock(c, i)
                                    \/ InsufficientStock(c, i) \/ WriteLine(c, i)
          PROVE  Goal
      BY <3>2, LinesWhole
    <3>3. ASSUME NEW i \in todo[c], LoseUniqueRace(c, i)
          PROVE  Goal
      BY <3>3, DiscardWhole DEF LoseUniqueRace
    <3>4. CASE Commit(c)
      BY <3>4, CommitWhole
    <3>5. CASE Rollback(c)
      BY <3>5, DiscardWhole DEF Rollback
    <3> QED BY <2>3, <3>1, <3>2, <3>3, <3>4, <3>5 DEF ReserveStep
  <2>4. CASE ReleaseStep(c)
    <3>1. CASE Select(c)
      BY <3>1, SelectWhole
    <3>2. ASSUME NEW p \in Products, LockRows(c, p)
          PROVE  Goal
      BY <3>2, LockRowsWhole
    <3>3. ASSUME NEW x \in held[c], ReleaseRow(c, x)
          PROVE  Goal
      <4>1. UNCHANGED <<req, reserved, released, pc, ok, fresh, todo, claim, held, outcome>>
        BY <3>3 DEF ReleaseRow, frame
      <4> QED BY <4>1, QuietWhole
    <3>4. CASE CommitRelease(c)
      BY <3>4, CommitReleaseWhole
    <3> QED BY <2>4, <3>1, <3>2, <3>3, <3>4 DEF ReleaseStep
  <2> QED BY <1>3, <2>1, <2>2, <2>3, <2>4 DEF Step
<1> QED BY <1>1, <1>2, <1>3 DEF WInv, Next

\* A reserve takes all of an order or nothing of it, and whatever releases of it
\* run together, crash and are retried, its rows are all RESERVED or all RELEASED.
THEOREM AllOrNothingCorrect == Spec => []AllOrNothing
<1>1. Init => WInv
  BY InitWhole
<1>2. WInv /\ [Next]_vars => WInv'
  BY WholePreserved
<1>3. WInv => AllOrNothing
  <2> SUFFICES ASSUME WInv, NEW c \in Calls
               PROVE  LET active == {x \in reserved : x[1] = c}
                          past == {x \in released : x[1] = c}
                      IN  IF outcome[c] = "reserved" THEN {active, past} = {{}, RowsOf(c)}
                                                     ELSE active = {} /\ past = {}
    BY DEF AllOrNothing
  <2> DEFINE active == {x \in reserved : x[1] = c}
             past == {x \in released : x[1] = c}
  <2>1. active \subseteq RowsOf(c) /\ past \subseteq RowsOf(c)
    BY RowOwner DEF WInv, IInv, TypeOK, RowTypes
  <2>2. \A x \in RowsOf(c) : x[1] = c
    BY DEF RowsOf
  <2>3. CASE outcome[c] = "reserved"
    <3>1. Whole(c)
      BY <2>3 DEF WInv, WholeOrders
    <3>2. \/ active = RowsOf(c) /\ past = {}
          \/ active = {} /\ past = RowsOf(c)
      BY <2>1, <2>2, <3>1 DEF Whole
    <3> QED BY <2>3, <3>2
  <2>4. CASE outcome[c] # "reserved"
    BY <2>4 DEF WInv, IInv, TransactionInv, RowsInv
  <2> QED BY <2>3, <2>4
<1> QED BY <1>1, <1>2, <1>3, PTL DEF Spec

-----------------------------------------------------------------------------
(***************************************************************************)
(* Inventory implements AtomicInventory, for every instance.  A reserve    *)
(* takes effect when its transaction commits, and then its lines have been *)
(* compared with the versions it has locked, which differ from the         *)
(* committed ones by its own rows only: by StockInv, what it has taken of  *)
(* a product is what its order demands.  A refusal must be one the         *)
(* committed stock justifies as well: FailedAt names the line.  A release  *)
(* takes effect when it commits, and flips the orders it has found that    *)
(* are still RESERVED, whole.                                              *)
(***************************************************************************)

\* Each stage is of one operation, and a release goes on only if it has found rows.
OpAt(c) ==
    /\ pc[c] \in {"idle", "check"} => ok[c]
    /\ pc[c] \in {"check", "lines", "write"} => req[c].op = "reserve" /\ req[c].items # <<>>
    /\ pc[c] \in {"select", "claim", "release"} => req[c].op = "release"
    /\ pc[c] \in {"claim", "release"} => claim[c] # {}

\* Line i of c cannot be served by what c leaves of its product.
Unserved(c, i) ==
    LET line == req[c].items[i] IN
    \/ line.quantity <= 0 \/ line.product \notin Products
    \/ lock[line.product] = c /\ dirty[line.product] < line.quantity

\* A loop that has failed has passed a line that still cannot be served.
FailedAt(c) ==
    pc[c] \in {"lines", "write"} /\ ~ok[c] =>
        \E i \in Lines(req[c]) \ todo[c] : <<c, i>> \notin fresh[c] /\ Unserved(c, i)

\* The inductive invariant.
RInv == CInv /\ WInv /\ \A c \in Calls : OpAt(c) /\ FailedAt(c)

\* No call has been made.
LEMMA InitRefines == Init => RInv
<1> SUFFICES ASSUME Init
             PROVE  RInv
  OBVIOUS
<1>1. CInv
  BY InitType, InitTransaction, InitCount DEF CInv, IInv
<1>2. \A c \in Calls : pc[c] = "idle" /\ ok[c]
  BY DEF Init
<1> QED BY <1>1, <1>2, InitWhole DEF RInv, OpAt, FailedAt

\* Steps of c leave the locks and versions of the others alone.
LEMMA OthersFail ==
    ASSUME RInv, NEW c \in Calls,
           \A d \in Calls \ {c} :
             /\ pc'[d] = pc[d] /\ ok'[d] = ok[d] /\ fresh'[d] = fresh[d]
             /\ todo'[d] = todo[d] /\ claim'[d] = claim[d] /\ req'[d] = req[d]
             /\ \A p \in Products : lock[p] = d => lock'[p] = d /\ dirty'[p] = dirty[p]
    PROVE  \A d \in Calls \ {c} : OpAt(d)' /\ FailedAt(d)'
<1>1. TAKE d \in Calls \ {c}
<1>2. OpAt(d) /\ FailedAt(d)
  BY DEF RInv
<1>3. OpAt(d)'
  BY <1>2 DEF OpAt
<1>4. FailedAt(d)'
  <2> SUFFICES ASSUME pc[d] \in {"lines", "write"}, ~ok[d]
               PROVE  \E i \in Lines(req[d]) \ todo[d] :
                         <<d, i>> \notin fresh[d] /\ Unserved(d, i)'
    BY DEF FailedAt
  <2>1. PICK i \in Lines(req[d]) \ todo[d] : <<d, i>> \notin fresh[d] /\ Unserved(d, i)
    BY <1>2 DEF FailedAt
  <2>2. Unserved(d, i)'
    BY <2>1 DEF Unserved
  <2> QED BY <2>1, <2>2
<1> QED BY <1>3, <1>4

\* What each step of c does to the others.
LEMMA StepLocal ==
    ASSUME IInv, NEW c \in Calls, Step(c) \/ Crash(c)
    PROVE  /\ UNCHANGED req
           /\ \A d \in Calls \ {c} :
             /\ pc'[d] = pc[d] /\ ok'[d] = ok[d] /\ fresh'[d] = fresh[d]
             /\ todo'[d] = todo[d] /\ claim'[d] = claim[d] /\ outcome'[d] = outcome[d]
             /\ \A p \in Products : lock[p] = d => lock'[p] = d /\ dirty'[p] = dirty[p]
<1> USE DEF IInv, TypeOK, CallTypes, RowTypes, TodoTypes, StockTypes
<1> DEFINE Goal ==
      /\ UNCHANGED req
      /\ \A d \in Calls \ {c} :
           /\ pc'[d] = pc[d] /\ ok'[d] = ok[d] /\ fresh'[d] = fresh[d]
           /\ todo'[d] = todo[d] /\ claim'[d] = claim[d] /\ outcome'[d] = outcome[d]
           /\ \A p \in Products : lock[p] = d => lock'[p] = d /\ dirty'[p] = dirty[p]
<1>1. ASSUME NEW o, EndTransaction(c), Finish(c, o), Publish(c) \/ Discard(c)
      PROVE  Goal
  <2>1. /\ UNCHANGED req
        /\ \A d \in Calls \ {c} :
             /\ pc'[d] = pc[d] /\ ok'[d] = ok[d] /\ fresh'[d] = fresh[d]
             /\ todo'[d] = todo[d] /\ claim'[d] = claim[d] /\ outcome'[d] = outcome[d]
    BY <1>1 DEF EndTransaction, Finish, Goto
  <2>2. ASSUME NEW d \in Calls \ {c}, NEW p \in Products, lock[p] = d
        PROVE  lock'[p] = d /\ dirty'[p] = dirty[p]
    BY <1>1, <2>2 DEF EndTransaction, Unlock, Publish, Discard
  <2> QED BY <2>1, <2>2
<1>2. ASSUME Replay(c) \/ BeginReserve(c) \/ Select(c) \/ \E p \in Products : LockRows(c, p)
      PROVE  Goal
  BY <1>2 DEF Replay, BeginReserve, Select, LockRows, Finish, Goto, database, work
<1>3. ASSUME NEW i \in todo[c], RejectLine(c, i)
      PROVE  Goal
  BY <1>3 DEF RejectLine, database, work
<1>4. ASSUME NEW i \in todo[c], LockLine(c, i), EnoughStock(c, i) \/ InsufficientStock(c, i)
      PROVE  Goal
  <2>1. /\ UNCHANGED <<dirty, fresh, req, claim, outcome>>
        /\ lock' = [lock EXCEPT ![req[c].items[i].product] = c]
        /\ LockFree(c, req[c].items[i].product)
    BY <1>4 DEF LockLine, work
  <2>2. \A d \in Calls \ {c} : pc'[d] = pc[d] /\ ok'[d] = ok[d] /\ todo'[d] = todo[d]
    BY <1>4 DEF EnoughStock, InsufficientStock, Goto
  <2>3. ASSUME NEW d \in Calls \ {c}, NEW p \in Products, lock[p] = d
        PROVE  lock'[p] = d /\ dirty'[p] = dirty[p]
    BY <2>1, <2>3, CallsAssumption DEF LockFree
  <2> QED BY <2>1, <2>2, <2>3
<1>5. ASSUME NEW i \in todo[c], WriteLine(c, i)
      PROVE  Goal
  <2>1. pc[c] = "write" /\ NextLine(c, i)
    BY <1>5 DEF WriteLine
  <2>2. lock[req[c].items[i].product] = c
    BY <2>1 DEF TransactionInv, WriteInv
  <2>3. /\ dirty' = [dirty EXCEPT ![req[c].items[i].product] = seen[c] - req[c].items[i].quantity]
        /\ UNCHANGED <<lock, req, claim, ok, outcome>>
        /\ \A d \in Calls \ {c} : pc'[d] = pc[d] /\ fresh'[d] = fresh[d] /\ todo'[d] = todo[d]
    BY <1>5 DEF WriteLine, Goto
  <2> QED BY <2>2, <2>3
<1>6. ASSUME NEW x \in held[c], ReleaseRow(c, x)
      PROVE  Goal
  <2>1. /\ LockFree(c, Product(x)) /\ lock' = [lock EXCEPT ![Product(x)] = c]
        /\ dirty' = [dirty EXCEPT ![Product(x)] = @ + Quantity(x)]
        /\ UNCHANGED <<fresh, req, claim, ok, outcome, pc, todo>>
    BY <1>6 DEF ReleaseRow, frame
  <2> QED BY <2>1, CallsAssumption DEF LockFree
<1>7. ASSUME ReserveStep(c)
      PROVE  Goal
  <2> HIDE DEF Goal
  <2>1. ASSUME NEW i \in todo[c], LoseUniqueRace(c, i)
        PROVE  Goal
    BY <1>1, <2>1 DEF LoseUniqueRace
  <2>2. ASSUME Commit(c) \/ Rollback(c)
        PROVE  Goal
    BY <1>1, <2>2 DEF Commit, Rollback
  <2>3. ASSUME NEW i \in todo[c], EnoughStock(c, i) \/ InsufficientStock(c, i)
        PROVE  Goal
    BY <1>4, <2>3 DEF EnoughStock, InsufficientStock
  <2> QED BY <1>2, <1>3, <1>5, <1>7, <2>1, <2>2, <2>3 DEF ReserveStep
<1>8. ASSUME ReleaseStep(c)
      PROVE  Goal
  <2> HIDE DEF Goal
  <2>1. ASSUME CommitRelease(c)
        PROVE  Goal
    BY <1>1, <2>1 DEF CommitRelease
  <2> QED BY <1>2, <1>6, <1>8, <2>1 DEF ReleaseStep
<1>9. ASSUME Crash(c)
      PROVE  Goal
  BY <1>1, <1>9 DEF Crash
<1> HIDE DEF Goal
<1>10. Goal
  BY <1>7, <1>8, <1>9 DEF Step
<1> QED BY <1>10 DEF Goal

\* A loop that goes on has failed at a line if it has failed, and a release that
\* goes on has found rows.
LEMMA OwnFail ==
    ASSUME RInv, NEW c \in Calls, Step(c) \/ Crash(c)
    PROVE  OpAt(c)' /\ FailedAt(c)'
<1> USE DEF IInv, CInv, TypeOK, CallTypes, RowTypes, TodoTypes, StockTypes
<1> DEFINE Goal == OpAt(c)' /\ FailedAt(c)'
<1>1. OpAt(c) /\ FailedAt(c) /\ req' = req
  BY StepLocal DEF RInv
<1>2. ASSUME pc'[c] = "done"
      PROVE  Goal
  BY <1>2 DEF OpAt, FailedAt
<1>3. ASSUME NEW o, Finish(c, o)
      PROVE  Goal
  BY <1>2, <1>3 DEF Finish, Goto, RInv
<1>4. ASSUME BeginReserve(c)
      PROVE  Goal
  <2>1. pc[c] = "check" /\ pc'[c] = "lines" /\ ok' = ok
    BY <1>4 DEF BeginReserve, Goto, RInv
  <2> QED BY <1>1, <2>1 DEF OpAt, FailedAt
<1>5. ASSUME NEW i \in todo[c], RejectLine(c, i) \/ InsufficientStock(c, i)
      PROVE  Goal
  <2>1. /\ pc[c] = "lines" /\ pc' = pc /\ todo'[c] = todo[c] \ {i} /\ fresh' = fresh
        /\ dirty' = dirty
    BY <1>5 DEF RejectLine, InsufficientStock, LockLine, database, work, RInv
  <2>2. i \in Lines(req[c]) /\ <<c, i>> \notin fresh[c]
    BY <2>1 DEF RInv, TransactionInv, FreshInv
  <2>3. Unserved(c, i)'
    <3>1. ASSUME RejectLine(c, i)
          PROVE  Unserved(c, i)'
      BY <1>1, <3>1 DEF RejectLine, Unserved
    <3>2. ASSUME InsufficientStock(c, i)
          PROVE  Unserved(c, i)'
      <4> DEFINE p == req[c].items[i].product
      <4>1. p \in Products /\ lock' = [lock EXCEPT ![p] = c] /\ ~Fits(c, i, dirty[p])
        BY <3>2 DEF InsufficientStock, LockLine
      <4>2. dirty[p] < req[c].items[i].quantity
        <5>1. req[c] \in Requests
          BY <2>1 DEF RInv
        <5>2. req[c].items[i].quantity \in Int /\ dirty[p] \in Int
          BY <2>2, <4>1, <5>1, RequestTypes DEF RInv
        <5> QED BY <4>1, <5>2 DEF Fits
      <4>3. lock'[p] = c
        BY <4>1 DEF RInv
      <4> QED BY <1>1, <2>1, <4>2, <4>3 DEF Unserved
    <3> QED BY <1>5, <3>1, <3>2
  <2>4. FailedAt(c)'
    BY <1>1, <2>1, <2>2, <2>3 DEF FailedAt
  <2>5. OpAt(c)'
    BY <1>1, <2>1 DEF OpAt
  <2> QED BY <2>4, <2>5
<1>6. ASSUME NEW i \in todo[c], EnoughStock(c, i)
      PROVE  Goal
  <2>1. /\ pc[c] = "lines" /\ pc'[c] = "write" /\ UNCHANGED <<todo, ok, fresh, dirty>>
        /\ lock' = [lock EXCEPT ![req[c].items[i].product] = c]
    BY <1>6 DEF EnoughStock, LockLine, work, Goto, RInv
  <2>2. OpAt(c)'
    BY <1>1, <2>1 DEF OpAt
  <2>3. FailedAt(c)'
    <3> SUFFICES ASSUME ~ok[c]
                 PROVE  \E j \in Lines(req[c]) \ todo[c] :
                           <<c, j>> \notin fresh[c] /\ Unserved(c, j)'
      BY <1>1, <2>1 DEF FailedAt
    <3>1. PICK j \in Lines(req[c]) \ todo[c] : <<c, j>> \notin fresh[c] /\ Unserved(c, j)
      BY <1>1, <2>1 DEF FailedAt
    <3>2. Unserved(c, j)'
      BY <1>1, <2>1, <3>1 DEF Unserved, RInv
    <3> QED BY <3>1, <3>2
  <2> QED BY <2>2, <2>3
<1>7. ASSUME NEW i \in todo[c], WriteLine(c, i)
      PROVE  Goal
  <2> DEFINE p == req[c].items[i].product
             n == req[c].items[i].quantity
  <2>1. /\ pc[c] = "write" /\ NextLine(c, i) /\ pc'[c] = "lines" /\ UNCHANGED <<ok, lock>>
        /\ fresh'[c] = fresh[c] \cup {<<c, i>>} /\ todo'[c] = todo[c] \ {i}
        /\ dirty' = [dirty EXCEPT ![p] = seen[c] - n]
    BY <1>7 DEF WriteLine, Goto, RInv
  <2>2. p \in Products /\ n > 0 /\ seen[c] = dirty[p]
    BY <2>1 DEF RInv, TransactionInv, WriteInv
  <2>3. n \in Int /\ req[c] \in Requests
    BY <2>1, RequestTypes DEF RInv
  <2>4. \A q \in Products : dirty[q] \in Nat /\ dirty'[q] \in Int /\ dirty'[q] <= dirty[q]
    BY <2>1, <2>2, <2>3 DEF RInv
  <2>5. OpAt(c)'
    BY <1>1, <2>1 DEF OpAt
  <2>6. FailedAt(c)'
    <3> SUFFICES ASSUME ~ok[c]
                 PROVE  \E j \in Lines(req[c]) \ todo'[c] :
                           <<c, j>> \notin fresh'[c] /\ Unserved(c, j)'
      BY <1>1, <2>1 DEF FailedAt
    <3>1. PICK j \in Lines(req[c]) \ todo[c] : <<c, j>> \notin fresh[c] /\ Unserved(c, j)
      BY <1>1, <2>1 DEF FailedAt
    <3>2. Unserved(c, j)'
      <4>1. req[c].items[j].quantity \in Int
        BY <2>3, <3>1, RequestTypes
      <4> QED BY <1>1, <2>1, <2>4, <3>1, <4>1 DEF Unserved
    <3> QED BY <2>1, <3>1, <3>2
  <2> QED BY <2>5, <2>6
<1>8. ASSUME Select(c)
      PROVE  Goal
  <2> DEFINE found == {x \in reserved : Ref(x) = req[c].ref}
  <2>1. /\ pc[c] = "select" /\ claim' = [claim EXCEPT ![c] = found]
        /\ IF found = {} THEN Finish(c, "nothing") ELSE Goto(c, "claim")
    BY <1>8 DEF Select
  <2>2. ASSUME found # {}
        PROVE  Goal
    <3>1. pc'[c] = "claim" /\ claim'[c] # {}
      BY <2>1, <2>2 DEF Goto, RInv
    <3> QED BY <1>1, <2>1, <3>1 DEF OpAt, FailedAt
  <2> QED BY <1>3, <2>1, <2>2
<1>9. ASSUME NEW p \in Products, LockRows(c, p)
      PROVE  Goal
  <2>1. pc[c] = "claim" /\ pc'[c] \in {"claim", "release"} /\ claim' = claim
    BY <1>9 DEF LockRows, Goto, RInv
  <2> QED BY <1>1, <2>1 DEF OpAt, FailedAt
<1>10. ASSUME NEW x \in held[c], ReleaseRow(c, x)
       PROVE  Goal
  <2>1. pc[c] = "release" /\ UNCHANGED <<pc, claim, ok>>
    BY <1>10 DEF ReleaseRow, frame
  <2> QED BY <1>1, <2>1 DEF OpAt, FailedAt
<1> HIDE DEF Goal
<1>11. ASSUME ReserveStep(c)
       PROVE  Goal
  BY <1>3, <1>4, <1>5, <1>6, <1>7, <1>11
     DEF ReserveStep, Replay, LoseUniqueRace, Commit, Rollback
<1>12. ASSUME ReleaseStep(c)
       PROVE  Goal
  BY <1>3, <1>8, <1>9, <1>10, <1>12 DEF ReleaseStep, CommitRelease
<1>13. ASSUME Crash(c)
       PROVE  Goal
  BY <1>3, <1>13 DEF Crash
<1>14. Goal
  BY <1>11, <1>12, <1>13 DEF Step
<1> QED BY <1>14 DEF Goal

\* Every step preserves the invariant.
LEMMA RefinesPreserved ==
    ASSUME RInv, [Next]_vars
    PROVE  RInv'
<1> USE DEF IInv, CInv, TypeOK, CallTypes, RowTypes, TodoTypes, StockTypes
<1>1. CInv' /\ WInv'
  BY CountPreserved, WholePreserved DEF RInv
<1> DEFINE Goal == \A d \in Calls : OpAt(d)' /\ FailedAt(d)'
<1>2. ASSUME UNCHANGED vars
      PROVE  Goal
  <2>1. UNCHANGED <<dirty, lock, fresh, req, pc, todo, claim, ok>>
    BY <1>2 DEF vars, database, work, frame
  <2>2. \A d \in Calls : OpAt(d)'
    BY <2>1 DEF RInv, OpAt
  <2>3. \A d \in Calls : FailedAt(d)'
    BY <2>1 DEF RInv, FailedAt, Unserved
  <2> QED BY <2>2, <2>3
<1>3. ASSUME NEW c \in Calls, Arrive(c)
      PROVE  Goal
  <2>1. PICK r \in Requests : Accept(c, r) \/ Abort(c, r)
    BY <1>3 DEF Arrive
  <2>2. /\ pc[c] = "idle" /\ req' = [req EXCEPT ![c] = r]
        /\ UNCHANGED <<dirty, lock, fresh, todo, claim, ok>>
        /\ \A d \in Calls \ {c} : pc'[d] = pc[d]
    BY <2>1 DEF Accept, Abort, Goto, Finish, database, work, RInv
  <2>3. \/ pc'[c] = "check" /\ r.op = "reserve" /\ r.items # <<>>
        \/ pc'[c] = "select" /\ r.op = "release"
        \/ pc'[c] = "done"
    BY <2>1, RequestsAssumption DEF Accept, Abort, Goto, Finish, Valid, RInv
  <2>4. \A d \in Calls \ {c} : OpAt(d)' /\ FailedAt(d)'
    <3>1. \A d \in Calls \ {c} : req'[d] = req[d]
      BY <2>2 DEF RInv
    <3> QED BY <2>2, <3>1, OthersFail
  <2>5. OpAt(c)' /\ FailedAt(c)'
    <3>1. req'[c] = r /\ ok'[c]
      BY <2>2 DEF RInv, OpAt
    <3> QED BY <2>3, <3>1 DEF OpAt, FailedAt
  <2> QED BY <2>4, <2>5
<1>4. ASSUME NEW c \in Calls, Step(c) \/ Crash(c)
      PROVE  Goal
  <2>1. \A d \in Calls \ {c} : OpAt(d)' /\ FailedAt(d)'
    BY <1>4, StepLocal, OthersFail DEF RInv
  <2> QED BY <1>4, <2>1, OwnFail
<1> HIDE DEF Goal
<1>5. Goal
  BY <1>2, <1>3, <1>4 DEF Next
<1> QED BY <1>1, <1>5 DEF Goal, RInv

-----------------------------------------------------------------------------
\* Both levels count alike.
LEMMA SameCardinality == ASSUME NEW S PROVE Atomic!Cardinality(S) = Cardinality(S)
BY DEF Atomic!Cardinality, Cardinality

(* Counting what an order demands by the rows it leaves.                    *)

\* Tallies of disjoint sets of rows add up.
LEMMA AddRows ==
    ASSUME NEW X, Counted(X), NEW Y, Counted(Y), X \cap Y = {}, NEW p
    PROVE  /\ Tally(X, p) \in Nat /\ Tally(Y, p) \in Nat
           /\ Tally(X \cup Y, p) = Tally(X, p) + Tally(Y, p)
<1> DEFINE A == Units(At(X, p))
           B == Units(At(Y, p))
<1>1. ASSUME NEW Z, Counted(Z)
      PROVE  IsFiniteSet(Units(At(Z, p))) /\ Cardinality(Units(At(Z, p))) \in Nat
  <2>1. At(Z, p) \in SUBSET Z
    BY DEF At
  <2>2. Counted(At(Z, p))
    BY <1>1, <2>1, FS_Subset DEF Counted
  <2> QED BY <2>2, UnitsFinite, FS_CardinalityType
<1>2. /\ IsFiniteSet(A) /\ Cardinality(A) \in Nat
      /\ IsFiniteSet(B) /\ Cardinality(B) \in Nat
  BY <1>1
<1>3. Units(At(X \cup Y, p)) = A \cup B
  BY DEF Units, At
<1>4. A \cap B = {}
  BY DEF Units, At
<1>5. Cardinality(A \cup B) = Cardinality(A) + Cardinality(B) - Cardinality({})
  <2> HIDE DEF A, B
  <2> QED BY <1>2, <1>4, FS_Union
<1>6. Cardinality({}) = 0
  BY FS_EmptySet
<1>7. Tally(X, p) = Cardinality(A) /\ Tally(Y, p) = Cardinality(B)
      /\ Tally(X \cup Y, p) = Cardinality(A \cup B)
  BY <1>3 DEF Tally
<1> HIDE DEF A, B
<1> QED BY <1>2, <1>5, <1>6, <1>7

\* The tally of a set of rows is that of a part of it and that of the rest.
LEMMA SplitRows ==
    ASSUME NEW X, Counted(X), NEW Y \in SUBSET X, NEW p
    PROVE  /\ Counted(Y) /\ Tally(Y, p) \in Nat /\ Tally(X \ Y, p) \in Nat
           /\ Tally(X, p) = Tally(Y, p) + Tally(X \ Y, p)
<1> DEFINE Z == X \ Y
<1>1. Counted(Y)
  BY FS_Subset DEF Counted
<1>2. Counted(Z)
  BY FS_Subset DEF Counted
<1>3. Y \cap Z = {} /\ Y \cup Z = X
  OBVIOUS
<1>4. /\ Tally(Y, p) \in Nat /\ Tally(Z, p) \in Nat
      /\ Tally(Y \cup Z, p) = Tally(Y, p) + Tally(Z, p)
  <2> HIDE DEF Z
  <2> QED BY <1>1, <1>2, <1>3, AddRows
<1> QED BY <1>1, <1>3, <1>4

\* No rows of a product, no units of it.
LEMMA NoRows ==
    ASSUME NEW X, NEW p, \A x \in X : Product(x) # p
    PROVE  Tally(X, p) = 0
<1>1. Units(At(X, p)) = {}
  BY DEF Units, At
<1> QED BY <1>1, FS_EmptySet DEF Tally

\* The rows an order leaves can be counted.
LEMMA OrderCounted ==
    ASSUME NEW c \in Calls, req[c] \in Requests
    PROVE  /\ Counted(RowsOf(c))
           /\ \A i \in Lines(req[c]) :
                /\ <<c, i>> \in RowsOf(c)
                /\ Product(<<c, i>>) = req[c].items[i].product
                /\ Quantity(<<c, i>>) = req[c].items[i].quantity
<1> DEFINE S == [product : Int, quantity : Int]
<1>1. req[c].items \in Seq(S)
  BY RequestsAssumption
<1>2. Lines(req[c]) = 1 .. Len(req[c].items) /\ Len(req[c].items) \in Nat
  <2> HIDE DEF S
  <2> QED BY <1>1 DEF Lines
<1>3. IsFiniteSet(Lines(req[c]))
  BY <1>2, FS_Interval
<1>4. IsFiniteSet(RowsOf(c))
  <2>1. IsFiniteSet({c})
    BY FS_Singleton
  <2> QED BY <1>3, <2>1, FS_Product DEF RowsOf
<1>5. \A x \in RowsOf(c) : Quantity(x) \in Int
  BY RequestTypes DEF RowsOf, Quantity, Line
<1>6. \A i \in Lines(req[c]) :
        /\ <<c, i>> \in RowsOf(c)
        /\ Product(<<c, i>>) = req[c].items[i].product
        /\ Quantity(<<c, i>>) = req[c].items[i].quantity
  BY DEF RowsOf, Product, Quantity, Line
<1> QED BY <1>4, <1>5, <1>6 DEF Counted

\* What an order demands of a product is what its rows amount to.
LEMMA DemandRows ==
    ASSUME NEW c \in Calls, req[c] \in Requests, NEW p
    PROVE  Atomic!Demand(req[c], p) = Tally(RowsOf(c), p)
<1> DEFINE S == Atomic!DemandUnits(req[c], p)
           T == Units(At(RowsOf(c), p))
           f == [u \in T |-> <<u[1][2], u[2]>>]
<1>1. IsFiniteSet(T)
  <2>1. At(RowsOf(c), p) \in SUBSET RowsOf(c)
    BY DEF At
  <2>2. Counted(At(RowsOf(c), p))
    BY <2>1, OrderCounted, FS_Subset DEF Counted
  <2> QED BY <2>2, UnitsFinite
<1>2. \A u : u \in T <=> \E i \in Lines(req[c]) : \E n \in 1 .. req[c].items[i].quantity :
                            req[c].items[i].product = p /\ u = <<<<c, i>>, n>>
  <2>1. ASSUME NEW u \in T
        PROVE  \E i \in Lines(req[c]) : \E n \in 1 .. req[c].items[i].quantity :
                            req[c].items[i].product = p /\ u = <<<<c, i>>, n>>
    <3>1. PICK x \in At(RowsOf(c), p) : u \in {x} \X (1 .. Quantity(x))
      BY DEF Units
    <3>2. PICK i \in Lines(req[c]) : x = <<c, i>>
      BY <3>1 DEF At, RowsOf
    <3> QED BY <3>1, <3>2 DEF At, Product, Quantity, Line
  <2>2. ASSUME NEW i \in Lines(req[c]), NEW n \in 1 .. req[c].items[i].quantity,
               req[c].items[i].product = p
        PROVE  <<<<c, i>>, n>> \in T
    <3>1. <<c, i>> \in At(RowsOf(c), p)
      BY <2>2, OrderCounted DEF At
    <3>2. <<<<c, i>>, n>> \in {<<c, i>>} \X (1 .. Quantity(<<c, i>>))
      BY OrderCounted
    <3> QED BY <3>1, <3>2 DEF Units
  <2> QED BY <2>1, <2>2
<1>3. \A v : v \in S <=> \E i \in Lines(req[c]) : \E n \in 1 .. req[c].items[i].quantity :
                            req[c].items[i].product = p /\ v = <<i, n>>
  BY DEF Atomic!DemandUnits, Atomic!Lines, Lines
<1>4. f \in Bijection(T, S)
  <2> HIDE DEF S, T
  <2>1. f \in [T -> S]
    BY <1>2, <1>3
  <2>2. \A u, v \in T : f[u] = f[v] => u = v
    BY <1>2
  <2>3. \A v \in S : \E u \in T : f[u] = v
    <3> SUFFICES ASSUME NEW v \in S
                 PROVE  \E u \in T : f[u] = v
      OBVIOUS
    <3>1. PICK i \in Lines(req[c]) : \E n \in 1 .. req[c].items[i].quantity :
                req[c].items[i].product = p /\ v = <<i, n>>
      BY <1>3
    <3>2. PICK n \in 1 .. req[c].items[i].quantity :
                req[c].items[i].product = p /\ v = <<i, n>>
      BY <3>1
    <3>3. <<<<c, i>>, n>> \in T
      BY <1>2, <3>2
    <3> QED BY <3>2, <3>3
  <2> HIDE DEF f
  <2> QED BY <2>1, <2>2, <2>3 DEF Bijection, Injection, IsInjective, Surjection
<1>5. ExistsBijection(T, S)
  <2> HIDE DEF S, T, f
  <2> QED BY <1>4 DEF ExistsBijection
<1>6. Cardinality(S) = Cardinality(T)
  <2> HIDE DEF S, T
  <2> QED BY <1>1, <1>5, FS_Bijection
<1> QED BY <1>6, SameCardinality DEF Atomic!Demand, Tally

\* What a release returns is what the rows of the orders amount to.
LEMMA ReturnedRows ==
    ASSUME NEW D \in SUBSET Calls, NEW H, Counted(H),
           \A x : x \in H <=> \E d \in D : x \in RowsOf(d), NEW p
    PROVE  Atomic!Returned(D, p) = Tally(H, p)
<1> DEFINE S == UNION {{d} \X Atomic!DemandUnits(req[d], p) : d \in D}
           T == Units(At(H, p))
           f == [u \in T |-> <<u[1][1], <<u[1][2], u[2]>>>>]
<1>1. IsFiniteSet(T)
  <2>1. At(H, p) \in SUBSET H
    BY DEF At
  <2>2. Counted(At(H, p))
    BY <2>1, FS_Subset DEF Counted
  <2> QED BY <2>2, UnitsFinite
<1>2. \A u : u \in T <=> \E d \in D : \E i \in Lines(req[d]) : \E n \in 1 .. req[d].items[i].quantity :
                            req[d].items[i].product = p /\ u = <<<<d, i>>, n>>
  <2>1. ASSUME NEW u \in T
        PROVE  \E d \in D : \E i \in Lines(req[d]) : \E n \in 1 .. req[d].items[i].quantity :
                            req[d].items[i].product = p /\ u = <<<<d, i>>, n>>
    <3>1. PICK x \in At(H, p) : u \in {x} \X (1 .. Quantity(x))
      BY DEF Units
    <3>2. PICK d \in D : x \in RowsOf(d)
      BY <3>1 DEF At
    <3>3. PICK i \in Lines(req[d]) : x = <<d, i>>
      BY <3>2 DEF RowsOf
    <3> QED BY <3>1, <3>3 DEF At, Product, Quantity, Line
  <2>2. ASSUME NEW d \in D, NEW i \in Lines(req[d]), NEW n \in 1 .. req[d].items[i].quantity,
               req[d].items[i].product = p
        PROVE  <<<<d, i>>, n>> \in T
    <3>1. <<d, i>> \in RowsOf(d)
      BY DEF RowsOf
    <3>2. <<d, i>> \in At(H, p)
      BY <2>2, <3>1 DEF At, Product, Line
    <3>3. <<<<d, i>>, n>> \in {<<d, i>>} \X (1 .. Quantity(<<d, i>>))
      BY DEF Quantity, Line
    <3> QED BY <3>2, <3>3 DEF Units
  <2> QED BY <2>1, <2>2
<1>3. \A v : v \in S <=> \E d \in D : \E i \in Lines(req[d]) : \E n \in 1 .. req[d].items[i].quantity :
                            req[d].items[i].product = p /\ v = <<d, <<i, n>>>>
  <2>1. ASSUME NEW d, NEW w
        PROVE  w \in Atomic!DemandUnits(req[d], p)
                 <=> \E i \in Lines(req[d]) : \E n \in 1 .. req[d].items[i].quantity :
                        req[d].items[i].product = p /\ w = <<i, n>>
    BY DEF Atomic!DemandUnits, Atomic!Lines, Lines
  <2>2. \A v : v \in S <=> \E d \in D : \E w \in Atomic!DemandUnits(req[d], p) : v = <<d, w>>
    OBVIOUS
  <2>3. ASSUME NEW v, \E d \in D : \E w \in Atomic!DemandUnits(req[d], p) : v = <<d, w>>
        PROVE  \E d \in D : \E i \in Lines(req[d]) : \E n \in 1 .. req[d].items[i].quantity :
                            req[d].items[i].product = p /\ v = <<d, <<i, n>>>>
    <3>1. PICK d \in D : \E w \in Atomic!DemandUnits(req[d], p) : v = <<d, w>>
      BY <2>3
    <3>2. PICK w \in Atomic!DemandUnits(req[d], p) : v = <<d, w>>
      BY <3>1
    <3>3. \E i \in Lines(req[d]) : \E n \in 1 .. req[d].items[i].quantity :
             req[d].items[i].product = p /\ w = <<i, n>>
      BY <2>1
    <3> QED BY <3>2, <3>3
  <2>4. ASSUME NEW d \in D, NEW i \in Lines(req[d]), NEW n \in 1 .. req[d].items[i].quantity,
               req[d].items[i].product = p
        PROVE  <<d, <<i, n>>>> \in S
    <3>1. <<i, n>> \in Atomic!DemandUnits(req[d], p)
      BY <2>1, <2>4
    <3> QED BY <2>2, <3>1
  <2> HIDE DEF S
  <2> QED BY <2>2, <2>3, <2>4
<1>4. f \in Bijection(T, S)
  <2> HIDE DEF S, T
  <2>1. f \in [T -> S]
    BY <1>2, <1>3
  <2>2. \A u, v \in T : f[u] = f[v] => u = v
    BY <1>2
  <2>3. \A v \in S : \E u \in T : f[u] = v
    <3> SUFFICES ASSUME NEW v \in S
                 PROVE  \E u \in T : f[u] = v
      OBVIOUS
    <3>1. PICK d \in D : \E i \in Lines(req[d]) : \E n \in 1 .. req[d].items[i].quantity :
                req[d].items[i].product = p /\ v = <<d, <<i, n>>>>
      BY <1>3
    <3>2. PICK i \in Lines(req[d]) : \E n \in 1 .. req[d].items[i].quantity :
                req[d].items[i].product = p /\ v = <<d, <<i, n>>>>
      BY <3>1
    <3>3. PICK n \in 1 .. req[d].items[i].quantity :
                req[d].items[i].product = p /\ v = <<d, <<i, n>>>>
      BY <3>2
    <3>4. <<<<d, i>>, n>> \in T
      BY <1>2, <3>3
    <3> QED BY <3>3, <3>4
  <2> HIDE DEF f
  <2> QED BY <2>1, <2>2, <2>3 DEF Bijection, Injection, IsInjective, Surjection
<1>5. ExistsBijection(T, S)
  <2> HIDE DEF S, T, f
  <2> QED BY <1>4 DEF ExistsBijection
<1>6. Cardinality(S) = Cardinality(T)
  <2> HIDE DEF S, T
  <2> QED BY <1>1, <1>5, FS_Bijection
<1> QED BY <1>6, SameCardinality DEF Atomic!Returned, Tally

-----------------------------------------------------------------------------
(* The mapping of Atomic, variable by variable.                             *)

Bookings == [c \in Calls |->
               IF \E x \in reserved : x[1] = c THEN "RESERVED"
               ELSE IF \E x \in released : x[1] = c THEN "RELEASED" ELSE "none"]
Looked == [c \in Calls |-> pc[c] \in {"lines", "write"}]
Dues == [c \in Calls |-> {x[1] : x \in claim[c]}]

\* An active booking is a call that has a RESERVED row.
LEMMA ActiveRows ==
    /\ Atomic!Active = {d \in Calls : \E x \in reserved : x[1] = d}
    /\ \A c : Atomic!Pending(c) <=> req[c] # NoRequest /\ outcome[c] = "none"
    /\ \A c, d : Atomic!SameKey(c, d) <=> req[c].key # NoKey /\ req[d].key = req[c].key
BY DEF Atomic!Active, Atomic!Pending, Atomic!SameKey

\* An active call is pending.
LEMMA ActivePending ==
    ASSUME IInv, NEW c \in Calls, Active(c)
    PROVE  req[c] # NoRequest /\ outcome[c] = "none"
BY DEF IInv, TypeOK, CallTypes, Active, TransactionInv, StageInv

\* What a call looks for and what it has found changes with its own steps only.
LEMMA MapOne ==
    ASSUME IInv, NEW c \in Calls, UNCHANGED req,
           \A d \in Calls \ {c} : pc'[d] = pc[d] /\ claim'[d] = claim[d]
    PROVE  /\ Looked' = [Looked EXCEPT ![c] = pc'[c] \in {"lines", "write"}]
           /\ Dues' = [Dues EXCEPT ![c] = {x[1] : x \in claim'[c]}]
<1>1. Looked' = [Looked EXCEPT ![c] = pc'[c] \in {"lines", "write"}]
  BY DEF Looked
<1>2. Dues' = [Dues EXCEPT ![c] = {x[1] : x \in claim'[c]}]
  BY DEF Dues
<1> QED BY <1>1, <1>2

\* Steps that neither commit nor answer are invisible to the callers.
LEMMA StutterMaps ==
    ASSUME UNCHANGED <<req, avail, reserved, released, claim, outcome>>,
           \A d \in Calls : pc'[d] \in {"lines", "write"} <=> pc[d] \in {"lines", "write"}
    PROVE  UNCHANGED Atomic!atomicVars
<1>1. Bookings' = Bookings
  BY DEF Bookings
<1>2. Looked' = Looked
  BY DEF Looked
<1>3. Dues' = Dues
  BY DEF Dues
<1> QED BY <1>1, <1>2, <1>3 DEF Atomic!atomicVars, Bookings, Looked, Dues

\* Initially no call has been made.
LEMMA InitMaps == Init => Atomic!AtomicInit
<1> SUFFICES ASSUME Init
             PROVE  Atomic!AtomicInit
  OBVIOUS
<1>1. Bookings = [c \in Calls |-> "none"]
  BY DEF Init, Bookings
<1>2. Looked = [c \in Calls |-> FALSE]
  <2>1. \A c \in Calls : (pc[c] \in {"lines", "write"}) = FALSE
    BY DEF Init
  <2> QED BY <2>1, Zenon DEF Looked
<1>3. Dues = [c \in Calls |-> {}]
  BY DEF Init, Dues
<1> QED BY <1>1, <1>2, <1>3 DEF Init, Atomic!AtomicInit, Bookings, Looked, Dues

-----------------------------------------------------------------------------
(* The steps.                                                               *)

\* The servicer takes a request or turns it away.
LEMMA ArriveMaps ==
    ASSUME RInv, NEW c \in Calls, Arrive(c)
    PROVE  Atomic!AtomicNext
<1> USE DEF RInv, IInv, CInv, TypeOK, CallTypes
<1>1. PICK r \in Requests : Accept(c, r) \/ Abort(c, r)
  BY DEF Arrive
<1>2. /\ pc[c] = "idle" /\ req' = [req EXCEPT ![c] = r]
      /\ UNCHANGED <<avail, reserved, released, claim>>
      /\ \A d \in Calls \ {c} : pc'[d] = pc[d]
      /\ pc'[c] \in {"check", "select", "done"}
  BY <1>1 DEF Accept, Abort, Goto, Finish, database
<1>3. req[c] = NoRequest
  BY <1>2 DEF TransactionInv, StageInv
<1>4. IF Valid(r) THEN outcome' = outcome ELSE outcome' = [outcome EXCEPT ![c] = "invalid"]
  BY <1>1 DEF Accept, Abort, Finish
<1>5. Bookings' = Bookings
  BY <1>2 DEF Bookings
<1>6. Looked' = Looked
  BY <1>2 DEF Looked
<1>7. Dues' = Dues
  BY <1>2 DEF Dues
<1>8. Valid(r) <=> Atomic!Valid(r)
  BY DEF Valid, Atomic!Valid
<1>9. Atomic!Arrive(c, r)
  BY <1>2, <1>3, <1>4, <1>5, <1>6, <1>7, <1>8
     DEF Atomic!Arrive, Atomic!Answer, Bookings, Looked, Dues
<1> QED BY <1>9 DEF Atomic!AtomicNext

\* The replay query decides between an answer and the loop.
LEMMA CheckMaps ==
    ASSUME RInv, NEW c \in Calls, Replay(c) \/ BeginReserve(c)
    PROVE  Atomic!Serve(c)
<1> USE DEF RInv, IInv, CInv, TypeOK, CallTypes, RowTypes
<1>1. /\ pc[c] = "check" /\ UNCHANGED <<avail, reserved, released, req, claim>>
  BY DEF Replay, BeginReserve, database
<1>2. /\ req[c] # NoRequest /\ outcome[c] = "none" /\ req[c].op = "reserve" /\ ~Looked[c]
  BY <1>1, ActivePending DEF Active, OpAt, Looked
<1>3. Prior(c) # {} <=> \E d \in Atomic!Active : Atomic!SameKey(c, d)
  <2>1. \A x \in reserved : x[1] \in Calls
    BY RowOwner
  <2> QED BY <2>1, ActiveRows DEF Prior, Key
<1>4. Bookings' = Bookings /\ Dues' = Dues
  BY <1>1 DEF Bookings, Dues
<1>5. ASSUME Replay(c)
      PROVE  Atomic!Replay(c)
  <2>1. Prior(c) # {} /\ outcome' = [outcome EXCEPT ![c] = "replayed"]
        /\ pc' = [pc EXCEPT ![c] = "done"]
    BY <1>5 DEF Replay, Finish, Goto
  <2>2. Looked' = Looked
    BY <1>1, <2>1 DEF Looked
  <2> QED BY <1>1, <1>2, <1>3, <1>4, <2>1, <2>2, ActiveRows
          DEF Atomic!Replay, Atomic!Answer, Bookings, Looked, Dues
<1>6. ASSUME BeginReserve(c)
      PROVE  Atomic!Miss(c)
  <2>1. Prior(c) = {} /\ outcome' = outcome /\ pc' = [pc EXCEPT ![c] = "lines"]
    BY <1>6 DEF BeginReserve, Goto
  <2>2. Looked' = [Looked EXCEPT ![c] = TRUE]
    BY <1>1, <2>1 DEF Looked
  <2> QED BY <1>1, <1>2, <1>3, <1>4, <2>1, <2>2, ActiveRows
          DEF Atomic!Miss, Bookings, Looked, Dues
<1> QED BY <1>5, <1>6 DEF Atomic!Serve

\* The query of a release finds the bookings that are active.
LEMMA SelectMaps ==
    ASSUME RInv, NEW c \in Calls, Select(c)
    PROVE  Atomic!Serve(c)
<1> USE DEF RInv, IInv, CInv, TypeOK, CallTypes, RowTypes
<1> DEFINE found == {x \in reserved : Ref(x) = req[c].ref}
           due == {d \in Atomic!Active : req[d].ref = req[c].ref}
<1>1. /\ pc[c] = "select" /\ UNCHANGED <<avail, reserved, released, req>>
      /\ claim' = [claim EXCEPT ![c] = found]
      /\ IF found = {} THEN Finish(c, "nothing") ELSE Goto(c, "claim") /\ UNCHANGED outcome
  BY DEF Select, database
<1>2. /\ req[c] # NoRequest /\ outcome[c] = "none" /\ req[c].op = "release" /\ claim[c] = {}
  BY <1>1, ActivePending DEF Active, OpAt, TransactionInv, StageInv
<1>3. {x[1] : x \in found} = due
  <2>1. \A x \in reserved : x[1] \in Calls
    BY RowOwner
  <2> QED BY <2>1, ActiveRows DEF Ref
<1>4. Bookings' = Bookings
  BY <1>1 DEF Bookings
<1>5. Looked' = Looked
  BY <1>1 DEF Looked, Finish, Goto
<1>6. Dues' = [Dues EXCEPT ![c] = due]
  <2>1. \A d \in Calls \ {c} : claim'[d] = claim[d]
    BY <1>1
  <2>2. claim'[c] = found
    BY <1>1
  <2> HIDE DEF found, due
  <2> QED BY <1>3, <2>1, <2>2 DEF Dues
<1>7. Dues[c] = {} /\ Dues'[c] = due
  BY <1>2, <1>6 DEF Dues
<1>8. found = {} <=> due = {}
  <2>1. \A x \in found : x[1] \in due
    BY <1>3
  <2>2. \A d \in due : \E x \in found : d = x[1]
    BY <1>3
  <2> HIDE DEF found, due
  <2> QED BY <2>1, <2>2
<1>9. IF due = {} THEN outcome' = [outcome EXCEPT ![c] = "nothing"] ELSE outcome' = outcome
  BY <1>1, <1>8 DEF Finish
<1> HIDE DEF found
<1>10. Atomic!Find(c)
  BY <1>1, <1>2, <1>4, <1>5, <1>6, <1>7, <1>9, ActiveRows
     DEF Atomic!Find, Atomic!Answer, Bookings, Looked, Dues
<1> QED BY <1>10 DEF Atomic!Serve

\* A transaction that ends answers its call and forgets what it has found.
LEMMA EndMaps ==
    ASSUME IInv, NEW c \in Calls, NEW o, EndTransaction(c), Finish(c, o)
    PROVE  /\ UNCHANGED req /\ outcome' = [outcome EXCEPT ![c] = o]
           /\ Looked' = [Looked EXCEPT ![c] = FALSE]
           /\ Dues' = [Dues EXCEPT ![c] = {}]
<1>1. /\ UNCHANGED req /\ outcome' = [outcome EXCEPT ![c] = o]
      /\ pc' = [pc EXCEPT ![c] = "done"] /\ claim' = [claim EXCEPT ![c] = {}]
  BY DEF EndTransaction, Finish, Goto
<1>2. pc \in [Calls -> Labels] /\ claim \in [Calls -> SUBSET Rows]
  BY DEF IInv, TypeOK, CallTypes, RowTypes
<1>3. (pc'[c] \in {"lines", "write"}) = FALSE
  BY <1>1, <1>2
<1>4. Looked' = [Looked EXCEPT ![c] = FALSE]
  BY <1>1, <1>2, <1>3, MapOne
<1>5. Dues' = [Dues EXCEPT ![c] = {}]
  <2>1. {x[1] : x \in claim'[c]} = {}
    BY <1>1, <1>2
  <2> QED BY <1>1, <1>2, <2>1, MapOne
<1> QED BY <1>1, <1>4, <1>5

\* A rollback is invisible but for the answer.
LEMMA DiscardMaps ==
    ASSUME NEW c, Discard(c)
    PROVE  UNCHANGED <<avail, Bookings>>
BY DEF Discard, Bookings

\* A killed replica or a lost connection.
LEMMA CrashMaps ==
    ASSUME RInv, NEW c \in Calls, Crash(c)
    PROVE  Atomic!Fail(c)
<1>1. IInv
  BY DEF RInv, CInv
<1>2. req[c] # NoRequest /\ outcome[c] = "none"
  BY <1>1, ActivePending DEF Crash
<1>3. /\ UNCHANGED req /\ outcome' = [outcome EXCEPT ![c] = "failed"]
      /\ Looked' = [Looked EXCEPT ![c] = FALSE]
      /\ Dues' = [Dues EXCEPT ![c] = {}]
  BY <1>1, EndMaps DEF Crash
<1>4. UNCHANGED <<avail, Bookings>>
  BY DiscardMaps DEF Crash
<1> QED BY <1>2, <1>3, <1>4, ActiveRows DEF Atomic!Fail, Atomic!Answer, Bookings, Looked, Dues

\* The end of a reserve, as its callers see it.
LEMMA DecideMaps ==
    ASSUME RInv, NEW c \in Calls, pc[c] \in {"lines", "write"}, NEW o,
           EndTransaction(c), Finish(c, o)
    PROVE  Atomic!Decide(c, o)
<1>1. IInv
  BY DEF RInv, CInv
<1>2. req[c] # NoRequest /\ outcome[c] = "none" /\ Looked[c] /\ claim[c] = {}
  <2>1. claim[c] = {}
    BY <1>1 DEF IInv, TransactionInv, StageInv
  <2> QED BY <1>1, <2>1, ActivePending DEF Active, Looked
<1>3. /\ UNCHANGED req /\ outcome' = [outcome EXCEPT ![c] = o]
      /\ Looked' = [Looked EXCEPT ![c] = FALSE]
  BY <1>1, EndMaps
<1>4. Dues' = Dues
  <2>1. claim' = claim
    BY <1>1, <1>2 DEF IInv, TypeOK, RowTypes, EndTransaction
  <2> QED BY <2>1 DEF Dues
<1> QED BY <1>2, <1>3, <1>4, ActiveRows DEF Atomic!Decide, Atomic!Answer, Looked, Dues

\* The insert meets a row the index does not allow beside it: one of an active
\* booking, or one of the order itself.
LEMMA LoseMaps ==
    ASSUME RInv, NEW c \in Calls, NEW i \in todo[c], LoseUniqueRace(c, i)
    PROVE  Atomic!Serve(c)
<1> USE DEF RInv, IInv, CInv, TypeOK, CallTypes, RowTypes, TodoTypes
<1>1. pc[c] = "write" /\ i \in Lines(req[c])
  BY DEF LoseUniqueRace
<1>2. Atomic!Decide(c, "duplicate")
  BY <1>1, DecideMaps DEF LoseUniqueRace
<1>3. UNCHANGED <<avail, Bookings>>
  BY DiscardMaps DEF LoseUniqueRace
<1>4. PICK x \in reserved \cup fresh[c] :
         req[c].key # NoKey /\ Key(x) = req[c].key /\ Product(x) = req[c].items[i].product
  BY DEF LoseUniqueRace, Duplicate, Clashing
<1>5. x[1] \in Calls /\ x[2] \in Lines(req[x[1]])
  BY <1>4 DEF Rows
<1>6. Atomic!Collides(c)
  <2>1. CASE x \in reserved
    <3>1. x[1] \in Atomic!Active
      BY <1>5, <2>1, ActiveRows
    <3>2. Atomic!SameKey(c, x[1])
      BY <1>4, ActiveRows DEF Key
    <3>3. Atomic!SharesProduct(c, x[1])
      BY <1>1, <1>4, <1>5 DEF Atomic!SharesProduct, Atomic!Lines, Lines, Product, Line
    <3> QED BY <3>1, <3>2, <3>3 DEF Atomic!Collides
  <2>2. CASE x \in fresh[c]
    <3>1. x[1] = c /\ x[2] # i
      BY <2>2 DEF TransactionInv, FreshInv
    <3>2. Atomic!RepeatsProduct(req[c])
      BY <1>1, <1>4, <1>5, <3>1 DEF Atomic!RepeatsProduct, Atomic!Lines, Lines, Product, Line
    <3> QED BY <1>4, <3>2 DEF Atomic!Collides
  <2> QED BY <1>4, <2>1, <2>2
<1>7. Atomic!Collide(c)
  BY <1>2, <1>3, <1>6 DEF Atomic!Collide, Bookings
<1> QED BY <1>7 DEF Atomic!Serve

\* What a reserve has taken of a product it has locked.
LEMMA TakenRows ==
    ASSUME RInv, NEW c \in Calls, pc[c] \in {"lines", "write"}, NEW p \in Products
    PROVE  /\ Counted(fresh[c]) /\ Tally(fresh[c], p) \in Nat
           /\ lock[p] = c => dirty[p] = avail[p] - Tally(fresh[c], p)
           /\ lock[p] # c => Tally(fresh[c], p) = 0
<1> USE DEF RInv, IInv, CInv, TypeOK, CallTypes, RowTypes, StockTypes
<1>1. Counted(reserved)
  BY RowsCounted
<1>2. Counted(fresh[c])
  <2>1. \A x \in fresh[c] : Quantity(x) \in Int
    <3> SUFFICES ASSUME NEW x \in fresh[c]
                 PROVE  Quantity(x) \in Int
      OBVIOUS
    <3>1. x \in Rows
      OBVIOUS
    <3>2. x[1] \in Calls /\ req[x[1]] \in Requests /\ x[2] \in Lines(req[x[1]])
      BY <3>1 DEF Rows
    <3> QED BY <3>2, RequestTypes DEF Quantity, Line
  <2> QED BY <2>1 DEF Counted, FiniteInv
<1>3. reserved \cap fresh[c] = {}
  BY DEF TransactionInv, FreshInv, RowsInv, StageInv
<1>4. /\ Tally(reserved, p) \in Nat /\ Tally(fresh[c], p) \in Nat
      /\ Tally(reserved \cup fresh[c], p) = Tally(reserved, p) + Tally(fresh[c], p)
  BY <1>1, <1>2, <1>3, AddRows
<1>5. ASSUME lock[p] = c
      PROVE  dirty[p] = avail[p] - Tally(fresh[c], p)
  <2>1. freed[c] = {} /\ c # NoCall
    BY CallsAssumption DEF TransactionInv, StageInv
  <2>2. Newest(p) = reserved \cup fresh[c]
    BY <1>5, <2>1 DEF Newest
  <2>3. /\ avail[p] + Tally(reserved, p) = InitialStock[p]
        /\ dirty[p] + Tally(reserved \cup fresh[c], p) = InitialStock[p]
        /\ avail[p] \in Nat /\ dirty[p] \in Nat
    BY <2>2 DEF StockInv
  <2> QED BY <1>4, <2>3
<1>6. ASSUME lock[p] # c
      PROVE  Tally(fresh[c], p) = 0
  <2>1. \A x \in fresh[c] : Product(x) # p
    BY <1>6 DEF TransactionInv, FreshInv
  <2> QED BY <2>1, NoRows
<1> QED BY <1>2, <1>4, <1>5, <1>6

\* The order is taken whole, from stock that has it.
LEMMA CommitMaps ==
    ASSUME RInv, NEW c \in Calls, Commit(c)
    PROVE  Atomic!Serve(c)
<1> USE DEF RInv, IInv, CInv, TypeOK, CallTypes, RowTypes, TodoTypes, StockTypes
<1>1. /\ pc[c] = "lines" /\ todo[c] = {} /\ ok[c]
      /\ Publish(c) /\ EndTransaction(c) /\ Finish(c, "reserved")
  BY DEF Commit, AllOk
<1>2. Atomic!Decide(c, "reserved")
  BY <1>1, DecideMaps
<1>3. /\ fresh[c] = RowsOf(c) /\ freed[c] = {} /\ outcome[c] = "none"
      /\ req[c] \in Requests /\ req[c].items # <<>>
  <2>1. fresh[c] = RowsOf(c)
    <3>1. LinesAt(c)
      BY DEF WInv
    <3> QED BY <1>1, <3>1 DEF LinesAt, RowsOf
  <2>2. freed[c] = {} /\ outcome[c] = "none"
    BY <1>1 DEF TransactionInv, StageInv
  <2>3. req[c] \in Requests
    BY <1>1
  <2>4. req[c].items # <<>>
    BY <1>1 DEF OpAt
  <2> QED BY <2>1, <2>2, <2>3, <2>4
<1>4. reserved' = reserved \cup RowsOf(c) /\ released' = released
  BY <1>1, <1>3 DEF Publish
<1>5. \A i \in Lines(req[c]) :
        /\ req[c].items[i].product \in Products /\ req[c].items[i].quantity > 0
        /\ lock[req[c].items[i].product] = c
  <2>1. \A x \in fresh[c] : Product(x) \in Products /\ Quantity(x) > 0 /\ lock[Product(x)] = c
    BY DEF TransactionInv, FreshInv
  <2> HIDE DEF RInv, IInv, CInv
  <2> QED BY <1>3, <2>1, OrderCounted
<1>6. ASSUME NEW p \in Products
      PROVE  /\ Atomic!Demand(req[c], p) <= avail[p]
             /\ avail'[p] = avail[p] - Atomic!Demand(req[c], p)
  <2>1. Atomic!Demand(req[c], p) = Tally(fresh[c], p)
    BY <1>3, DemandRows
  <2>2. /\ Tally(fresh[c], p) \in Nat
        /\ lock[p] = c => dirty[p] = avail[p] - Tally(fresh[c], p)
        /\ lock[p] # c => Tally(fresh[c], p) = 0
    BY <1>1, TakenRows
  <2>3. avail'[p] = IF lock[p] = c THEN dirty[p] ELSE avail[p]
    BY <1>1 DEF Publish
  <2>4. avail[p] \in Nat /\ dirty[p] \in Nat
    OBVIOUS
  <2> QED BY <2>1, <2>2, <2>3, <2>4
<1>7. Atomic!Satisfiable(req[c], avail)
  BY <1>5, <1>6 DEF Atomic!Satisfiable, Atomic!Lines, Lines
<1>8. avail' = [p \in Products |-> avail[p] - Atomic!Demand(req[c], p)]
  <2>1. avail' = [p \in Products |-> avail'[p]]
    BY <1>1 DEF Publish
  <2> QED BY <1>6, <2>1
<1>9. ASSUME NEW d \in Atomic!Active, Atomic!SameKey(c, d), Atomic!SharesProduct(c, d)
      PROVE  FALSE
  <2>1. d \in Calls /\ \E x \in reserved : x[1] = d
    BY ActiveRows
  <2>2. outcome[d] = "reserved"
    BY <2>1 DEF TransactionInv, RowsInv
  <2>3. RowsOf(d) \subseteq reserved
    BY <2>1, <2>2 DEF WInv, WholeOrders, Whole
  <2>4. PICK i \in Lines(req[c]), j \in Lines(req[d]) :
           req[c].items[i].product = req[d].items[j].product
    BY <1>9 DEF Atomic!SharesProduct, Atomic!Lines, Lines
  <2>5. <<c, i>> \in fresh[c] /\ <<d, j>> \in reserved /\ <<c, i>> # <<d, j>>
    BY <1>3, <2>2, <2>3, <2>4 DEF RowsOf
  <2>6. /\ Key(<<c, i>>) = Key(<<d, j>>) /\ Key(<<c, i>>) # NoKey
        /\ Product(<<c, i>>) = Product(<<d, j>>)
    BY <1>9, <2>4, ActiveRows DEF Key, Product, Line
  <2> QED BY <2>5, <2>6 DEF TransactionInv, UniqueInv
<1>10. ASSUME req[c].key # NoKey, Atomic!RepeatsProduct(req[c])
       PROVE  FALSE
  <2>1. PICK i \in Lines(req[c]), j \in Lines(req[c]) :
           i # j /\ req[c].items[i].product = req[c].items[j].product
    BY <1>10 DEF Atomic!RepeatsProduct, Atomic!Lines, Lines
  <2>2. <<c, i>> \in fresh[c] /\ <<c, j>> \in fresh[c] /\ <<c, i>> # <<c, j>>
    BY <1>3, <2>1 DEF RowsOf
  <2>3. /\ Key(<<c, i>>) = Key(<<c, j>>) /\ Key(<<c, i>>) # NoKey
        /\ Product(<<c, i>>) = Product(<<c, j>>)
    BY <1>10, <2>1 DEF Key, Product, Line
  <2> QED BY <2>2, <2>3 DEF TransactionInv, UniqueInv
<1>11. ~Atomic!Collides(c)
  BY <1>9, <1>10 DEF Atomic!Collides
<1>12. Bookings' = [Bookings EXCEPT ![c] = "RESERVED"]
  <2>1. \A x \in RowsOf(c) : x[1] = c
    BY DEF RowsOf
  <2>2. \E x \in RowsOf(c) : x[1] = c
    <3>1. 1 \in Lines(req[c])
      <4> DEFINE S == [product : Int, quantity : Int]
      <4>1. req[c].items \in Seq(S)
        BY <1>3, RequestsAssumption
      <4> HIDE DEF S
      <4> QED BY <1>3, <4>1, EmptySeq DEF Lines
    <3>2. <<c, 1>> \in RowsOf(c)
      BY <3>1 DEF RowsOf
    <3> QED BY <3>2
  <2>3. ASSUME NEW d \in Calls, d # c
        PROVE  (\E x \in reserved' : x[1] = d) <=> (\E x \in reserved : x[1] = d)
    BY <1>4, <2>1, <2>3
  <2>4. \E x \in reserved' : x[1] = c
    BY <1>4, <2>2
  <2>5. \A d \in Calls : Bookings'[d] = IF d = c THEN "RESERVED" ELSE Bookings[d]
    BY <1>4, <2>3, <2>4 DEF Bookings
  <2>6. Bookings' = [d \in Calls |-> Bookings'[d]] /\ Bookings = [d \in Calls |-> Bookings[d]]
    BY DEF Bookings
  <2> HIDE DEF RInv, IInv, CInv
  <2> QED BY <2>5, <2>6
<1>13. Atomic!Reserve(c)
  BY <1>2, <1>7, <1>8, <1>11, <1>12 DEF Atomic!Reserve, Bookings
<1> QED BY <1>13 DEF Atomic!Serve

\* The order is refused, and the committed stock does not have it either.
LEMMA RollbackMaps ==
    ASSUME RInv, NEW c \in Calls, Rollback(c)
    PROVE  Atomic!Serve(c)
<1> USE DEF RInv, IInv, CInv, TypeOK, CallTypes, RowTypes, TodoTypes, StockTypes
<1>1. /\ pc[c] = "lines" /\ todo[c] = {} /\ ~ok[c]
      /\ Discard(c) /\ EndTransaction(c) /\ Finish(c, "rejected")
  BY DEF Rollback, AllOk
<1>2. Atomic!Decide(c, "rejected")
  BY <1>1, DecideMaps
<1>3. UNCHANGED <<avail, Bookings>>
  BY <1>1, DiscardMaps
<1>4. req[c] \in Requests
  BY <1>1
<1>5. PICK i \in Lines(req[c]) : <<c, i>> \notin fresh[c] /\ Unserved(c, i)
  BY <1>1 DEF FailedAt
<1> DEFINE p == req[c].items[i].product
           n == req[c].items[i].quantity
           x == <<c, i>>
<1>6. p \in Int /\ n \in Int
  BY <1>4, RequestTypes
<1>7. ~Atomic!Satisfiable(req[c], avail)
  <2>1. CASE n <= 0 \/ p \notin Products
    BY <1>6, <2>1 DEF Atomic!Satisfiable, Atomic!Lines, Lines
  <2>2. ASSUME n > 0, p \in Products
        PROVE  Atomic!Demand(req[c], p) > avail[p]
    <3>1. lock[p] = c /\ dirty[p] < n
      BY <1>5, <1>6, <2>2 DEF Unserved
    <3>2. Counted(fresh[c]) /\ Tally(fresh[c], p) \in Nat
          /\ dirty[p] = avail[p] - Tally(fresh[c], p)
      BY <1>1, <2>2, <3>1, TakenRows
    <3> DEFINE X == fresh[c] \cup {x}
    <3>3. Product(x) = p /\ Quantity(x) = n /\ x \in RowsOf(c) /\ Counted(RowsOf(c))
      BY <1>4, OrderCounted
    <3>4. Tally(X, p) = Tally(fresh[c], p) + n
      <4>1. Quantity(x) \in Nat
        BY <1>6, <2>2, <3>3
      <4> HIDE DEF x, p, n
      <4> QED BY <1>5, <3>2, <3>3, <4>1, AddRow DEF x
    <3>5. X \subseteq RowsOf(c)
      <4>1. \A y \in fresh[c] : y \in RowsOf(c)
        BY RowOwner DEF TransactionInv, FreshInv
      <4> QED BY <3>3, <4>1
    <3>6. Tally(RowsOf(c), p) = Tally(X, p) + Tally(RowsOf(c) \ X, p)
          /\ Tally(RowsOf(c) \ X, p) \in Nat
      <4>1. Counted(RowsOf(c))
        BY <3>3
      <4>2. X \in SUBSET RowsOf(c)
        BY <3>5
      <4> HIDE DEF X, p, RInv, IInv, CInv
      <4> QED BY <4>1, <4>2, SplitRows
    <3>7. Atomic!Demand(req[c], p) = Tally(RowsOf(c), p)
      BY <1>4, DemandRows
    <3>8. avail[p] \in Nat /\ dirty[p] \in Nat
      BY <2>2
    <3> HIDE DEF X, p, n
    <3> QED BY <1>6, <3>1, <3>2, <3>4, <3>6, <3>7, <3>8
  <2>3. CASE n > 0 /\ p \in Products
    <3>1. avail[p] \in Nat
      BY <2>3
    <3>2. Atomic!Demand(req[c], p) \in Nat
      <4>1. Tally({}, p) \in Nat /\ Tally(RowsOf(c), p) \in Nat
        <5>1. Counted(RowsOf(c)) /\ Counted({})
          BY <1>4, OrderCounted, FS_EmptySet DEF Counted
        <5> HIDE DEF p
        <5> QED BY <5>1, AddRows
      <4> QED BY <1>4, <4>1, DemandRows
    <3>3. ~(Atomic!Demand(req[c], p) <= avail[p])
      BY <2>2, <2>3, <3>1, <3>2
    <3> QED BY <2>3, <3>3 DEF Atomic!Satisfiable
  <2> QED BY <1>6, <2>1, <2>3
<1>8. Atomic!Reject(c)
  BY <1>2, <1>3, <1>7 DEF Atomic!Reject, Bookings
<1> QED BY <1>8 DEF Atomic!Serve

\* A release returns the bookings it has found that are still active, whole.
LEMMA ReturnMaps ==
    ASSUME RInv, NEW c \in Calls, CommitRelease(c)
    PROVE  Atomic!Serve(c)
<1> USE DEF RInv, IInv, CInv, TypeOK, CallTypes, RowTypes, TodoTypes, StockTypes
<1> DEFINE H == held[c]
           D == Dues[c] \cap Atomic!Active
           o == IF H = {} THEN "nothing" ELSE "released"
<1>1. /\ pc[c] = "release" /\ freed[c] = H
      /\ Publish(c) /\ EndTransaction(c) /\ Finish(c, o)
  BY DEF CommitRelease
<1>2. /\ fresh[c] = {} /\ todo[c] = {} /\ H \subseteq reserved /\ H \subseteq claim[c]
      /\ claim[c] # {} /\ claim[c] \subseteq H \cup released
  <2>1. ClaimAt(c)
    BY DEF WInv
  <2> QED BY <1>1, <2>1 DEF TransactionInv, StageInv, HeldInv, OpAt, ClaimAt
<1>3. reserved' = reserved \ H /\ released' = released \cup H
  BY <1>1, <1>2 DEF Publish
<1>4. req[c] # NoRequest /\ outcome[c] = "none"
  BY <1>1, ActivePending DEF Active
<1>5. /\ UNCHANGED req /\ outcome' = [outcome EXCEPT ![c] = o]
      /\ Looked' = [Looked EXCEPT ![c] = FALSE]
      /\ Dues' = [Dues EXCEPT ![c] = {}]
  BY <1>1, EndMaps
<1>6. Looked' = Looked
  <2>1. (pc[c] \in {"lines", "write"}) = FALSE
    BY <1>1
  <2>2. Looked[c] = FALSE /\ Looked = [d \in Calls |-> Looked[d]]
    BY <2>1, Zenon DEF Looked
  <2> HIDE DEF RInv, IInv, CInv
  <2> QED BY <1>5, <2>2
<1>7. Dues[c] = {x[1] : x \in claim[c]} /\ Dues[c] # {}
  BY <1>2 DEF Dues
<1>8. ASSUME NEW d \in D
      PROVE  d \in Calls /\ RowsOf(d) \subseteq H /\ \E x \in H : x[1] = d
  <2>1. d \in Calls /\ \E x \in reserved : x[1] = d
    BY ActiveRows
  <2>2. outcome[d] = "reserved"
    BY <2>1 DEF TransactionInv, RowsInv
  <2>3. \A x \in released : x[1] # d
    BY <2>1, <2>2 DEF WInv, WholeOrders, Whole
  <2>4. PICK x \in claim[c] : x[1] = d
    BY <1>7
  <2>5. RowsOf(d) \subseteq claim[c]
    BY <2>4 DEF WInv, ClaimAt
  <2>6. \A y \in RowsOf(d) : y[1] = d
    BY DEF RowsOf
  <2> QED BY <1>2, <2>1, <2>3, <2>4, <2>5, <2>6
<1>9. ASSUME NEW x \in H
      PROVE  x[1] \in D /\ x \in RowsOf(x[1])
  <2>1. x[1] \in Calls /\ x \in RowsOf(x[1])
    BY RowOwner
  <2> QED BY <1>2, <1>7, <2>1, ActiveRows
<1>10. \A x : x \in H <=> \E d \in D : x \in RowsOf(d)
  BY <1>8, <1>9
<1>11. H = {} <=> D = {}
  <2> HIDE DEF H, D
  <2> QED BY <1>8, <1>9
<1>12. Counted(H) /\ Counted(reserved)
  <2>1. Counted(reserved)
    BY RowsCounted
  <2> QED BY <1>2, <2>1, FS_Subset DEF Counted
<1>13. ASSUME NEW p \in Products
       PROVE  avail'[p] = avail[p] + Atomic!Returned(D, p)
  <2>1. Atomic!Returned(D, p) = Tally(H, p)
    <3>1. D \in SUBSET Calls
      BY <1>8
    <3> HIDE DEF D, H
    <3> QED BY <1>10, <1>12, <3>1, ReturnedRows
  <2>2. /\ Tally(H, p) \in Nat /\ Tally(reserved \ H, p) \in Nat
        /\ Tally(reserved, p) = Tally(reserved \ H, p) + Tally(H, p)
    <3>1. H \in SUBSET reserved
      BY <1>2
    <3>2. Counted(reserved)
      BY <1>12
    <3> HIDE DEF H, RInv, IInv, CInv
    <3>3. /\ Tally(H, p) \in Nat /\ Tally(reserved \ H, p) \in Nat
          /\ Tally(reserved, p) = Tally(H, p) + Tally(reserved \ H, p)
      BY <3>1, <3>2, SplitRows
    <3> QED BY <3>3
  <2>3. avail'[p] = IF lock[p] = c THEN dirty[p] ELSE avail[p]
    BY <1>1 DEF Publish
  <2>4. avail[p] \in Nat /\ avail[p] + Tally(reserved, p) = InitialStock[p]
    BY DEF StockInv
  <2>5. ASSUME lock[p] = c
        PROVE  dirty[p] = avail[p] + Tally(H, p)
    <3>1. Newest(p) = reserved \ H
      BY <1>1, <1>2, <2>5, CallsAssumption DEF Newest
    <3>2. dirty[p] + Tally(reserved \ H, p) = InitialStock[p] /\ dirty[p] \in Nat
      BY <3>1 DEF StockInv
    <3> QED BY <2>2, <2>4, <3>2
  <2>6. ASSUME lock[p] # c
        PROVE  Tally(H, p) = 0
    <3>1. \A x \in H : Product(x) # p
      BY <1>1, <2>6 DEF TransactionInv, FreedInv
    <3> QED BY <3>1, NoRows
  <2> HIDE DEF D, H
  <2> QED BY <2>1, <2>2, <2>3, <2>4, <2>5, <2>6
<1>14. avail' = [p \in Products |-> avail[p] + Atomic!Returned(D, p)]
  <2>1. avail' = [p \in Products |-> avail'[p]]
    BY <1>1 DEF Publish
  <2> HIDE DEF D
  <2> QED BY <1>13, <2>1
<1>15. Bookings' = [d \in Calls |-> IF d \in D THEN "RELEASED" ELSE Bookings[d]]
  <2>1. ASSUME NEW d \in Calls, d \in D
        PROVE  (\A x \in reserved' : x[1] # d) /\ \E x \in released' : x[1] = d
    <3>1. RowsOf(d) \subseteq H /\ \E x \in H : x[1] = d
      BY <1>8, <2>1
    <3>2. \A x \in reserved : x[1] = d => x \in RowsOf(d)
      BY RowOwner
    <3> QED BY <1>3, <3>1, <3>2
  <2>2. ASSUME NEW d \in Calls, d \notin D
        PROVE  /\ (\E x \in reserved' : x[1] = d) <=> (\E x \in reserved : x[1] = d)
               /\ (\E x \in released' : x[1] = d) <=> (\E x \in released : x[1] = d)
    <3>1. \A x \in H : x[1] # d
      BY <1>9, <2>2
    <3> QED BY <1>3, <3>1
  <2> HIDE DEF D
  <2>3. \A d \in Calls : Bookings'[d] = IF d \in D THEN "RELEASED" ELSE Bookings[d]
    BY <2>1, <2>2 DEF Bookings
  <2>4. Bookings' = [d \in Calls |-> Bookings'[d]]
    BY DEF Bookings
  <2> QED BY <2>3, <2>4
<1>16. outcome' = [outcome EXCEPT ![c] = IF D = {} THEN "nothing" ELSE "released"]
  BY <1>5, <1>11
<1> HIDE DEF H, o
<1>17. Atomic!Return(c)
  BY <1>4, <1>5, <1>6, <1>7, <1>14, <1>15, <1>16, ActiveRows
     DEF Atomic!Return, Atomic!Answer, Bookings, Looked, Dues
<1> QED BY <1>17 DEF Atomic!Serve

-----------------------------------------------------------------------------

\* Every step is one of the abstract service, or invisible to its callers.
LEMMA StepMaps ==
    ASSUME RInv, [Next]_vars
    PROVE  [Atomic!AtomicNext]_(Atomic!atomicVars)
<1> DEFINE Goal == Atomic!AtomicNext \/ UNCHANGED Atomic!atomicVars
<1>1. ASSUME UNCHANGED vars
      PROVE  Goal
  <2>1. UNCHANGED <<req, avail, reserved, released, claim, outcome, pc>>
    BY <1>1 DEF vars, database, frame
  <2> QED BY <2>1, StutterMaps
<1>2. ASSUME NEW c \in Calls, Arrive(c)
      PROVE  Goal
  BY <1>2, ArriveMaps
<1>3. ASSUME NEW c \in Calls, Crash(c)
      PROVE  Goal
  <2>1. Atomic!Fail(c)
    BY <1>3, CrashMaps
  <2> QED BY <2>1 DEF Atomic!AtomicNext
<1>4. ASSUME NEW c \in Calls, ReserveStep(c)
      PROVE  Goal
  <2>1. ASSUME Atomic!Serve(c)
        PROVE  Goal
    BY <2>1 DEF Atomic!AtomicNext
  <2>2. ASSUME NEW i \in todo[c], RejectLine(c, i) \/ InsufficientStock(c, i)
        PROVE  Goal
    <3>1. UNCHANGED <<req, avail, reserved, released, claim, outcome, pc>>
      BY <2>2 DEF RejectLine, InsufficientStock, LockLine, database
    <3> QED BY <3>1, StutterMaps
  <2>3. ASSUME NEW i \in todo[c], EnoughStock(c, i) \/ WriteLine(c, i)
        PROVE  Goal
    <3>1. /\ UNCHANGED <<req, avail, reserved, released, claim, outcome>>
          /\ \/ pc[c] = "lines" /\ pc' = [pc EXCEPT ![c] = "write"]
             \/ pc[c] = "write" /\ pc' = [pc EXCEPT ![c] = "lines"]
      BY <2>3 DEF EnoughStock, LockLine, WriteLine, Goto
    <3>2. pc \in [Calls -> Labels]
      BY DEF RInv, CInv, IInv, TypeOK, CallTypes
    <3>3. \A d \in Calls : pc'[d] \in {"lines", "write"} <=> pc[d] \in {"lines", "write"}
      BY <3>1, <3>2
    <3> QED BY <3>1, <3>3, StutterMaps
  <2> HIDE DEF Goal
  <2>4. ASSUME NEW i \in todo[c], LoseUniqueRace(c, i)
        PROVE  Goal
    BY <2>1, <2>4, LoseMaps
  <2>5. ASSUME Replay(c) \/ BeginReserve(c)
        PROVE  Goal
    BY <2>1, <2>5, CheckMaps
  <2>6. ASSUME Commit(c)
        PROVE  Goal
    BY <2>1, <2>6, CommitMaps
  <2>7. ASSUME Rollback(c)
        PROVE  Goal
    BY <2>1, <2>7, RollbackMaps
  <2> QED BY <1>4, <2>2, <2>3, <2>4, <2>5, <2>6, <2>7 DEF ReserveStep
<1>5. ASSUME NEW c \in Calls, ReleaseStep(c)
      PROVE  Goal
  <2>1. ASSUME Atomic!Serve(c)
        PROVE  Goal
    BY <2>1 DEF Atomic!AtomicNext
  <2>2. ASSUME NEW p \in Products, LockRows(c, p)
        PROVE  Goal
    <3>1. /\ UNCHANGED <<req, avail, reserved, released, claim, outcome>>
          /\ pc[c] = "claim" /\ \E l \in {"claim", "release"} : pc' = [pc EXCEPT ![c] = l]
      BY <2>2 DEF LockRows, Goto, database
    <3>2. pc \in [Calls -> Labels]
      BY DEF RInv, CInv, IInv, TypeOK, CallTypes
    <3>3. \A d \in Calls : pc'[d] \in {"lines", "write"} <=> pc[d] \in {"lines", "write"}
      BY <3>1, <3>2
    <3> QED BY <3>1, <3>3, StutterMaps
  <2>3. ASSUME NEW x \in held[c], ReleaseRow(c, x)
        PROVE  Goal
    <3>1. UNCHANGED <<req, avail, reserved, released, claim, outcome, pc>>
      BY <2>3 DEF ReleaseRow, frame
    <3> QED BY <3>1, StutterMaps
  <2> HIDE DEF Goal
  <2>4. ASSUME Select(c)
        PROVE  Goal
    BY <2>1, <2>4, SelectMaps
  <2>5. ASSUME CommitRelease(c)
        PROVE  Goal
    BY <2>1, <2>5, ReturnMaps
  <2> QED BY <1>5, <2>2, <2>3, <2>4, <2>5 DEF ReleaseStep
<1> HIDE DEF Goal
<1>6. Goal
  BY <1>1, <1>2, <1>3, <1>4, <1>5 DEF Next, Step
<1> QED BY <1>6 DEF Goal

\* To its callers, the service that interleaves SQL statements is the one that
\* reserves, replays and refuses at one instant and returns what is still active.
THEOREM ImplementsAtomicCorrect == Spec => ImplementsAtomic
<1>1. Init => RInv /\ Atomic!AtomicInit
  BY InitRefines, InitMaps
<1>2. RInv /\ [Next]_vars => RInv'
  BY RefinesPreserved
<1>3. RInv /\ [Next]_vars => [Atomic!AtomicNext]_(Atomic!atomicVars)
  BY StepMaps
<1> QED BY <1>1, <1>2, <1>3, PTL DEF Spec, ImplementsAtomic, Atomic!AtomicSpec
=============================================================================
