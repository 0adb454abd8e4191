------------------------- MODULE InventoryProofs --------------------------
(***************************************************************************)
(* Invariants of the stock reservation, proved for every set of products,  *)
(* stocks, requests and calls.  None of the properties is inductive alone: *)
(* that product.save writes a natural number rests on the value read being *)
(* the newest one, which rests on the row lock; that the index admits a    *)
(* row at commit rests on no other transaction having inserted one of the  *)
(* same product, which rests on the lock again.  TransactionInv says who   *)
(* owns which lock, version and row at each stage of a call, and IInv is   *)
(* inductive.  There is one lemma for each kind of step; NextPreserves     *)
(* joins them along the disjuncts of Next.                                 *)
(***************************************************************************)
EXTENDS Inventory, TLAPS, SequenceTheorems, FiniteSetTheorems, WellFoundedInduction

\* The inductive invariant.
IInv == TypeOK /\ TransactionInv

-----------------------------------------------------------------------------
(* What the steps rely on.                                                  *)

\* The items of a request the servicer has decoded are integers.
LEMMA RequestTypes ==
    ASSUME NEW r \in Requests
    PROVE  /\ Lines(r) \subseteq Nat
           /\ \A i \in Lines(r) :
                r.items[i].product \in Int /\ r.items[i].quantity \in Int
<1> DEFINE S == [product : Int, quantity : Int]
<1>1. r.items \in Seq(S)
  BY RequestsAssumption
<1>2. Lines(r) = 1 .. Len(r.items) /\ \A i \in Lines(r) : r.items[i] \in S
  <2> HIDE DEF S
  <2> QED BY <1>1 DEF Lines
<1> QED BY <1>2

\* What a row stands for depends on its call's arguments only.
LEMMA SameArguments ==
    ASSUME UNCHANGED req
    PROVE  \A x : /\ Product(x)' = Product(x)
                  /\ Quantity(x)' = Quantity(x)
                  /\ Key(x)' = Key(x)
BY DEF Product, Quantity, Key, Line

\* The loop of reserve_stock is at one line at a time: the sort leaves no ties.
LEMMA NextLineUnique ==
    ASSUME NEW c \in Calls, NEW i \in todo[c], NEW j \in todo[c],
           req[c] \in Requests, todo[c] \subseteq Lines(req[c]),
           NextLine(c, i), NextLine(c, j)
    PROVE  i = j
BY RequestTypes DEF NextLine, Before

\* An empty database and idle threads are well typed.
LEMMA InitType == Init => TypeOK
BY StockAssumption DEF Init, TypeOK, StockTypes, CallTypes, RowTypes, TodoTypes, Labels, Outcomes

\* No transaction is in flight in an initial state.
LEMMA InitTransaction == Init => TransactionInv
BY CallsAssumption, StockAssumption DEF Init, TransactionInv, DirtyInv, StageInv,
    FreshInv, FreedInv, HeldInv, WriteInv, RowsInv, UniqueInv

\* product.save and the insert: the lock taken by the SELECT still protects the
\* value read, and the index was just checked.
LEMMA WriteStep ==
    ASSUME IInv, NEW c \in Calls, NEW i \in todo[c], WriteLine(c, i)
    PROVE  IInv'
<1> USE DEF IInv, TypeOK, TransactionInv
<1> DEFINE p == req[c].items[i].product
           n == req[c].items[i].quantity
<1>1. /\ pc[c] = "write" /\ NextLine(c, i) /\ ~IndexBusy(c, i) /\ ~Duplicate(c, i)
      /\ dirty' = [dirty EXCEPT ![p] = seen[c] - n]
      /\ fresh' = [fresh EXCEPT ![c] = @ \cup {<<c, i>>}]
      /\ todo' = [todo EXCEPT ![c] = @ \ {i}]
      /\ seen' = [seen EXCEPT ![c] = 0]
      /\ pc' = [pc EXCEPT ![c] = "lines"]
      /\ UNCHANGED <<avail, lock, reserved, released, held, freed, req, claim, ok, outcome>>
  BY DEF WriteLine, Goto
<1>2. req[c] \in Requests /\ i \in Lines(req[c]) /\ i \in Nat /\ todo[c] \subseteq Lines(req[c])
  BY <1>1, RequestTypes DEF CallTypes, TodoTypes
<1>3. n \in Int /\ n > 0 /\ p \in Products /\ lock[p] = c /\ seen[c] = dirty[p] /\ seen[c] >= n
  BY <1>1, <1>2, RequestTypes DEF WriteInv, Fits
<1>4. <<c, i>> \in Rows /\ Rows' = Rows
  BY <1>1, <1>2, RequestsAssumption DEF Rows
<1>5. StockTypes'
  BY <1>1, <1>3 DEF StockTypes, CallTypes
<1>6. CallTypes'
  BY <1>1 DEF CallTypes, Labels
<1>7. RowTypes'
  BY <1>1, <1>4 DEF RowTypes
<1>8. TodoTypes'
  BY <1>1 DEF TodoTypes, CallTypes, RowTypes
<1>9. DirtyInv'
  BY <1>1, <1>3, CallsAssumption DEF DirtyInv, StockTypes
<1>10. StageInv'
  BY <1>1 DEF StageInv, CallTypes, RowTypes
<1>11. FreshInv'
  <2>1. Product(<<c, i>>) = p /\ Quantity(<<c, i>>) = n
    BY DEF Product, Quantity, Line
  <2>2. \A d \in Calls : fresh'[d] = IF d = c THEN fresh[c] \cup {<<c, i>>} ELSE fresh[d]
    BY <1>1 DEF RowTypes
  <2>3. \A d \in Calls : todo'[d] = IF d = c THEN todo[c] \ {i} ELSE todo[d]
    BY <1>1 DEF TodoTypes
  <2>4. ASSUME NEW d \in Calls, NEW x \in fresh[d]
        PROVE  /\ x[1] = d /\ x[2] \notin todo'[d]
               /\ Product(x)' \in Products /\ Quantity(x)' > 0
               /\ lock'[Product(x)'] = d
    BY <1>1, <2>3, SameArguments DEF FreshInv
  <2>5. LET x == <<c, i>>
        IN  /\ x[1] = c /\ x[2] \notin todo'[c]
            /\ Product(x)' \in Products /\ Quantity(x)' > 0
            /\ lock'[Product(x)'] = c
    BY <1>1, <1>3, <2>1, <2>3, SameArguments
  <2> QED BY <2>2, <2>4, <2>5 DEF FreshInv
<1>12. FreedInv'
  BY <1>1, SameArguments DEF FreedInv
<1>13. HeldInv'
  BY <1>1 DEF HeldInv
<1>14. WriteInv'
  BY <1>1, <1>3 DEF WriteInv, CallTypes, TodoTypes, NextLine, Before, Fits, StockTypes
<1>15. RowsInv'
  BY <1>1, SameArguments DEF RowsInv
<1>16. UniqueInv'
  <2> SUFFICES ASSUME NEW d \in Calls, NEW x \in (reserved \cup fresh[d])',
                      NEW y \in (reserved \cup fresh[d])',
                      x # y, Key(x) = Key(y), Key(x) # NoKey
               PROVE  Product(x) # Product(y)
    BY <1>1, SameArguments DEF UniqueInv
  <2>1. \A z \in reserved \cup fresh[c] :
          Key(z) = req[c].key /\ req[c].key # NoKey => Product(z) # p
    BY <1>1 DEF Duplicate, Clashing
  <2>2. Key(<<c, i>>) = req[c].key /\ Product(<<c, i>>) = p
    BY DEF Key, Product, Line
  <2>3. CASE d = c
    BY <1>1, <2>1, <2>2, <2>3 DEF UniqueInv, RowTypes
  <2>4. CASE d # c
    BY <1>1, <2>4 DEF UniqueInv, RowTypes
  <2> QED BY <2>3, <2>4
<1> QED BY <1>5, <1>6, <1>7, <1>8, <1>9, <1>10, <1>11, <1>12, <1>13, <1>14, <1>15, <1>16

\* ROLLBACK, for whatever reason: a failed line, a lost index race, a crash.
LEMMA AbortStep ==
    ASSUME IInv, NEW c \in Calls, NEW o \in Outcomes \ {"none"}, Active(c),
           Discard(c), EndTransaction(c), Finish(c, o)
    PROVE  IInv'
<1> USE DEF IInv, TypeOK, TransactionInv
<1>1. /\ dirty' = [q \in Products |-> IF lock[q] = c THEN avail[q] ELSE dirty[q]]
      /\ lock' = [q \in Products |-> IF lock[q] = c THEN NoCall ELSE lock[q]]
      /\ fresh' = [fresh EXCEPT ![c] = {}]
      /\ held' = [held EXCEPT ![c] = {}]
      /\ freed' = [freed EXCEPT ![c] = {}]
      /\ todo' = [todo EXCEPT ![c] = {}]
      /\ claim' = [claim EXCEPT ![c] = {}]
      /\ seen' = [seen EXCEPT ![c] = 0]
      /\ ok' = [ok EXCEPT ![c] = TRUE]
      /\ pc' = [pc EXCEPT ![c] = "done"]
      /\ outcome' = [outcome EXCEPT ![c] = o]
      /\ UNCHANGED <<avail, reserved, released, req>>
  BY DEF Discard, EndTransaction, Unlock, Finish, Goto
<1>2. pc[c] \notin {"idle", "done"} /\ outcome[c] = "none" /\ c # NoCall
  BY CallsAssumption DEF Active, StageInv
<1>3. Rows' = Rows
  BY <1>1 DEF Rows
<1>4. StockTypes'
  BY <1>1 DEF StockTypes
<1>5. CallTypes'
  BY <1>1, <1>2 DEF CallTypes, Labels
<1>6. RowTypes'
  BY <1>1, <1>3 DEF RowTypes
<1>7. TodoTypes'
  BY <1>1 DEF TodoTypes, CallTypes, RowTypes
<1>8. DirtyInv'
  BY <1>1 DEF DirtyInv, StockTypes
<1>9. StageInv'
  BY <1>1, <1>2, CallsAssumption DEF StageInv, CallTypes, RowTypes, StockTypes
<1>10. FreshInv'
  BY <1>1, CallsAssumption, SameArguments DEF FreshInv, RowTypes, TodoTypes, StockTypes
<1>11. FreedInv'
  BY <1>1, CallsAssumption, SameArguments DEF FreedInv, RowTypes, StockTypes
<1>12. HeldInv'
  BY <1>1 DEF HeldInv, RowTypes
<1>13. WriteInv'
  BY <1>1, CallsAssumption DEF WriteInv, CallTypes, TodoTypes, NextLine, Before, Fits, StockTypes
<1>14. RowsInv'
  BY <1>1, <1>2, SameArguments DEF RowsInv, CallTypes
<1>15. UniqueInv'
  BY <1>1, SameArguments DEF UniqueInv, RowTypes
<1> QED BY <1>4, <1>5, <1>6, <1>7, <1>8, <1>9, <1>10, <1>11, <1>12, <1>13, <1>14, <1>15

\* COMMIT of a reserve or a release.
LEMMA CommitStep ==
    ASSUME IInv, NEW c \in Calls, NEW o \in Outcomes \ {"none"},
           pc[c] \in {"lines", "release"}, pc[c] = "lines" => o = "reserved",
           Publish(c), EndTransaction(c), Finish(c, o)
    PROVE  IInv'
<1> USE DEF IInv, TypeOK, TransactionInv
<1>1. /\ avail' = [q \in Products |-> IF lock[q] = c THEN dirty[q] ELSE avail[q]]
      /\ reserved' = (reserved \ freed[c]) \cup fresh[c]
      /\ released' = released \cup freed[c]
      /\ lock' = [q \in Products |-> IF lock[q] = c THEN NoCall ELSE lock[q]]
      /\ fresh' = [fresh EXCEPT ![c] = {}]
      /\ held' = [held EXCEPT ![c] = {}]
      /\ freed' = [freed EXCEPT ![c] = {}]
      /\ todo' = [todo EXCEPT ![c] = {}]
      /\ claim' = [claim EXCEPT ![c] = {}]
      /\ seen' = [seen EXCEPT ![c] = 0]
      /\ ok' = [ok EXCEPT ![c] = TRUE]
      /\ pc' = [pc EXCEPT ![c] = "done"]
      /\ outcome' = [outcome EXCEPT ![c] = o]
      /\ UNCHANGED <<dirty, req>>
  BY DEF Publish, EndTransaction, Unlock, Finish, Goto
<1>2. outcome[c] = "none" /\ c # NoCall /\ (pc[c] = "release" => fresh[c] = {})
  BY CallsAssumption DEF StageInv
<1>3. Rows' = Rows
  BY <1>1 DEF Rows
<1>4. StockTypes'
  BY <1>1 DEF StockTypes
<1>5. CallTypes'
  BY <1>1, <1>2 DEF CallTypes, Labels
<1>6. RowTypes'
  BY <1>1, <1>3 DEF RowTypes
<1>7. TodoTypes'
  BY <1>1 DEF TodoTypes, CallTypes, RowTypes
<1>8. DirtyInv'
  BY <1>1 DEF DirtyInv, StockTypes
<1>9. StageInv'
  BY <1>1, <1>2, CallsAssumption DEF StageInv, CallTypes, RowTypes, StockTypes
<1>10. FreshInv'
  BY <1>1, CallsAssumption, SameArguments DEF FreshInv, RowTypes, TodoTypes, StockTypes
<1>11. FreedInv'
  BY <1>1, CallsAssumption, SameArguments DEF FreedInv, RowTypes, StockTypes
<1>12. HeldInv'
  BY <1>1 DEF HeldInv, RowTypes
<1>13. WriteInv'
  BY <1>1, CallsAssumption DEF WriteInv, CallTypes, TodoTypes, NextLine, Before, Fits, StockTypes
<1>14. RowsInv'
  BY <1>1, <1>2, SameArguments DEF RowsInv, FreshInv, HeldInv, RowTypes, CallTypes
<1>15. UniqueInv'
  <2> SUFFICES ASSUME NEW d \in Calls, NEW x \in (reserved \cup fresh[d])',
                      NEW y \in (reserved \cup fresh[d])',
                      x # y, Key(x) = Key(y), Key(x) # NoKey
               PROVE  Product(x) # Product(y)
    BY <1>1, SameArguments DEF UniqueInv
  <2>1. x \in reserved \cup fresh[c] \cup fresh[d] /\ y \in reserved \cup fresh[c] \cup fresh[d]
    BY <1>1 DEF RowTypes
  <2>2. \A u \in fresh[c], v \in fresh[d] : c # d => Product(u) # Product(v)
    BY DEF FreshInv
  <2> QED BY <2>1, <2>2 DEF UniqueInv
<1> QED BY <1>4, <1>5, <1>6, <1>7, <1>8, <1>9, <1>10, <1>11, <1>12, <1>13, <1>14, <1>15

-----------------------------------------------------------------------------
(* A request arrives: the rows in the tables belong to other calls.         *)

\* A request reaches an idle thread.
LEMMA ArriveStep ==
    ASSUME IInv, NEW c \in Calls, NEW r \in Requests, Accept(c, r) \/ Abort(c, r)
    PROVE  IInv'
<1> USE DEF IInv, TypeOK, TransactionInv
<1>1. /\ pc[c] = "idle" /\ req' = [req EXCEPT ![c] = r]
      /\ \/ \E l \in {"check", "select"} : pc' = [pc EXCEPT ![c] = l] /\ outcome' = outcome
         \/ pc' = [pc EXCEPT ![c] = "done"] /\ outcome' = [outcome EXCEPT ![c] = "invalid"]
      /\ UNCHANGED <<database, work, todo, claim, seen, ok>>
      /\ UNCHANGED <<avail, dirty, lock, reserved, released, fresh, held, freed>>
  BY DEF Accept, Abort, Goto, Finish, database, work
<1>2. req[c] = NoRequest /\ outcome[c] = "none" /\ r # NoRequest
  BY <1>1, RequestsAssumption DEF StageInv
<1>3. \A x \in Rows : x[1] # c /\ x \in Rows'
  BY <1>1, <1>2 DEF Rows, CallTypes
<1>4. \A x \in Rows :
        Product(x)' = Product(x) /\ Quantity(x)' = Quantity(x) /\ Key(x)' = Key(x)
  BY <1>1, <1>3 DEF Product, Quantity, Line, Key, Rows, CallTypes
<1>5. \A d \in Calls \ {c} : req'[d] = req[d] /\ pc'[d] = pc[d]
  BY <1>1 DEF CallTypes
<1>6. todo[c] = {} /\ fresh[c] = {} /\ freed[c] = {}
  BY <1>1 DEF StageInv, TodoTypes
<1>7. StockTypes'
  BY <1>1 DEF StockTypes
<1>8. CallTypes'
  BY <1>1, <1>2 DEF CallTypes, Labels, Outcomes
<1>9. RowTypes'
  BY <1>1, <1>3 DEF RowTypes
<1>10. TodoTypes'
  BY <1>1, <1>5, <1>6 DEF TodoTypes, CallTypes, RowTypes
<1>11. DirtyInv'
  BY <1>1 DEF DirtyInv, StockTypes
<1>12. StageInv'
  BY <1>1, <1>2, <1>5, <1>6 DEF StageInv, CallTypes, RowTypes, StockTypes
<1>13. FreshInv'
  BY <1>1, <1>4 DEF FreshInv, RowTypes
<1>14. FreedInv'
  BY <1>1, <1>4 DEF FreedInv, RowTypes
<1>15. HeldInv'
  BY <1>1 DEF HeldInv, RowTypes
<1>16. WriteInv'
  BY <1>1, <1>5, <1>6 DEF WriteInv, NextLine, Before, Fits
<1>17. RowsInv'
  <2>1. \A x \in reserved \cup released : x[1] \in Calls /\ x[1] # c
    BY <1>3 DEF RowTypes, Rows
  <2>2. \A d \in Calls \ {c} : outcome'[d] = outcome[d]
    BY <1>1 DEF CallTypes
  <2> QED BY <1>1, <1>4, <2>1, <2>2 DEF RowsInv, RowTypes
<1>18. UniqueInv'
  BY <1>1, <1>4 DEF UniqueInv, RowTypes
<1> QED BY <1>7, <1>8, <1>9, <1>10, <1>11, <1>12,
           <1>13, <1>14, <1>15, <1>16, <1>17, <1>18

-----------------------------------------------------------------------------
(* Steps that move a call without touching the database.                    *)

\* A call that has no transaction is answered: a replay, a release of nothing.
LEMMA AnswerStep ==
    ASSUME IInv, NEW c \in Calls, NEW o \in Outcomes \ {"none"},
           pc[c] \in {"check", "select"}, Finish(c, o),
           UNCHANGED <<database, work, req, todo, claim, seen, ok>>
    PROVE  IInv'
<1> USE DEF IInv, TypeOK, TransactionInv
<1>1. /\ pc' = [pc EXCEPT ![c] = "done"] /\ outcome' = [outcome EXCEPT ![c] = o]
      /\ UNCHANGED <<avail, dirty, lock, reserved, released, fresh, held, freed>>
      /\ UNCHANGED <<req, todo, claim, seen, ok>>
  BY DEF Finish, Goto, database, work
<1>2. outcome[c] = "none"
  BY DEF StageInv
<1>3. Rows' = Rows
  BY <1>1 DEF Rows
<1>4. StockTypes'
  BY <1>1 DEF StockTypes
<1>5. CallTypes'
  BY <1>1 DEF CallTypes, Labels, Outcomes
<1>6. RowTypes'
  BY <1>1, <1>3 DEF RowTypes
<1>7. TodoTypes'
  BY <1>1 DEF TodoTypes, CallTypes, RowTypes
<1>8. DirtyInv'
  BY <1>1 DEF DirtyInv, StockTypes
<1>9. StageInv'
  BY <1>1 DEF StageInv, CallTypes, RowTypes, StockTypes
<1>10. FreshInv'
  BY <1>1, SameArguments DEF FreshInv, RowTypes, TodoTypes, StockTypes
<1>11. FreedInv'
  BY <1>1, SameArguments DEF FreedInv, RowTypes, StockTypes
<1>12. HeldInv'
  BY <1>1 DEF HeldInv, RowTypes
<1>13. WriteInv'
  BY <1>1 DEF WriteInv, CallTypes, TodoTypes, NextLine, Before, Fits, StockTypes
<1>14. RowsInv'
  BY <1>1, <1>2, SameArguments DEF RowsInv, CallTypes
<1>15. UniqueInv'
  BY <1>1, SameArguments DEF UniqueInv, RowTypes
<1> QED BY <1>4, <1>5, <1>6, <1>7, <1>8, <1>9,
           <1>10, <1>11, <1>12, <1>13, <1>14, <1>15

\* reserve_stock enters its loop.
LEMMA BeginStep ==
    ASSUME IInv, NEW c \in Calls, BeginReserve(c)
    PROVE  IInv'
<1> USE DEF IInv, TypeOK, TransactionInv
<1>1. /\ pc[c] = "check" /\ pc' = [pc EXCEPT ![c] = "lines"]
      /\ todo' = [todo EXCEPT ![c] = Lines(req[c])]
      /\ UNCHANGED <<avail, dirty, lock, reserved, released, fresh, held, freed>>
      /\ UNCHANGED <<req, claim, seen, ok, outcome>>
  BY DEF BeginReserve, Goto, database, work
<1>2. fresh[c] = {}
  BY <1>1 DEF StageInv
<1>3. Rows' = Rows
  BY <1>1 DEF Rows
<1>4. StockTypes'
  BY <1>1 DEF StockTypes
<1>5. CallTypes'
  BY <1>1 DEF CallTypes, Labels, Outcomes
<1>6. RowTypes'
  BY <1>1, <1>3 DEF RowTypes
<1>7. TodoTypes'
  BY <1>1 DEF TodoTypes, CallTypes, RowTypes
<1>8. DirtyInv'
  BY <1>1 DEF DirtyInv, StockTypes
<1>9. StageInv'
  BY <1>1 DEF StageInv, CallTypes, RowTypes, StockTypes
<1>10. FreshInv'
  BY <1>1, <1>2, SameArguments DEF FreshInv, RowTypes, TodoTypes, StockTypes
<1>11. FreedInv'
  BY <1>1, SameArguments DEF FreedInv, RowTypes, StockTypes
<1>12. HeldInv'
  BY <1>1 DEF HeldInv, RowTypes
<1>13. WriteInv'
  BY <1>1 DEF WriteInv, CallTypes, TodoTypes, NextLine, Before, Fits, StockTypes
<1>14. RowsInv'
  BY <1>1, SameArguments DEF RowsInv, CallTypes
<1>15. UniqueInv'
  BY <1>1, SameArguments DEF UniqueInv, RowTypes
<1> QED BY <1>4, <1>5, <1>6, <1>7, <1>8, <1>9,
           <1>10, <1>11, <1>12, <1>13, <1>14, <1>15

\* A line with a bad quantity or an unknown product.
LEMMA RejectStep ==
    ASSUME IInv, NEW c \in Calls, NEW i \in todo[c], RejectLine(c, i)
    PROVE  IInv'
<1> USE DEF IInv, TypeOK, TransactionInv
<1>1. /\ pc[c] = "lines"
      /\ todo' = [todo EXCEPT ![c] = @ \ {i}] /\ ok' = [ok EXCEPT ![c] = FALSE]
      /\ UNCHANGED <<avail, dirty, lock, reserved, released, fresh, held, freed>>
      /\ UNCHANGED <<req, pc, claim, seen, outcome>>
  BY DEF RejectLine, database, work
<1>3. Rows' = Rows
  BY <1>1 DEF Rows
<1>4. StockTypes'
  BY <1>1 DEF StockTypes
<1>5. CallTypes'
  BY <1>1 DEF CallTypes, Labels, Outcomes
<1>6. RowTypes'
  BY <1>1, <1>3 DEF RowTypes
<1>7. TodoTypes'
  BY <1>1 DEF TodoTypes, CallTypes, RowTypes
<1>8. DirtyInv'
  BY <1>1 DEF DirtyInv, StockTypes
<1>9. StageInv'
  BY <1>1 DEF StageInv, CallTypes, RowTypes, StockTypes
<1>10. FreshInv'
  BY <1>1, SameArguments DEF FreshInv, RowTypes, TodoTypes, StockTypes
<1>11. FreedInv'
  BY <1>1, SameArguments DEF FreedInv, RowTypes, StockTypes
<1>12. HeldInv'
  BY <1>1 DEF HeldInv, RowTypes
<1>13. WriteInv'
  BY <1>1 DEF WriteInv, CallTypes, TodoTypes, NextLine, Before, Fits, StockTypes
<1>14. RowsInv'
  BY <1>1, SameArguments DEF RowsInv, CallTypes
<1>15. UniqueInv'
  BY <1>1, SameArguments DEF UniqueInv, RowTypes
<1> QED BY <1>4, <1>5, <1>6, <1>7, <1>8, <1>9,
           <1>10, <1>11, <1>12, <1>13, <1>14, <1>15

\* release_stock reads the rows of its order.
LEMMA SelectStep ==
    ASSUME IInv, NEW c \in Calls, Select(c)
    PROVE  IInv'
<1> USE DEF IInv, TypeOK, TransactionInv
<1>1. /\ pc[c] = "select"
      /\ \E found \in SUBSET reserved :
           /\ claim' = [claim EXCEPT ![c] = found]
           /\ todo' = [todo EXCEPT ![c] = found]
           /\ \/ found = {} /\ pc' = [pc EXCEPT ![c] = "done"]
                            /\ outcome' = [outcome EXCEPT ![c] = "nothing"]
              \/ pc' = [pc EXCEPT ![c] = "claim"] /\ outcome' = outcome
      /\ UNCHANGED <<avail, dirty, lock, reserved, released, fresh, held, freed>>
      /\ UNCHANGED <<req, seen, ok>>
  BY DEF Select, Finish, Goto, database, work
<1>2. outcome[c] = "none" /\ held[c] = {} /\ fresh[c] = {}
  BY <1>1 DEF StageInv, RowTypes
<1>3. Rows' = Rows
  BY <1>1 DEF Rows
<1>4. StockTypes'
  BY <1>1 DEF StockTypes
<1>5. CallTypes'
  BY <1>1 DEF CallTypes, Labels, Outcomes
<1>6. RowTypes'
  BY <1>1, <1>2, <1>3 DEF RowTypes
<1>7. TodoTypes'
  <2>1. PICK found \in SUBSET reserved :
          /\ claim' = [claim EXCEPT ![c] = found]
          /\ todo' = [todo EXCEPT ![c] = found]
          /\ \/ found = {} /\ pc' = [pc EXCEPT ![c] = "done"]
             \/ pc' = [pc EXCEPT ![c] = "claim"]
    BY <1>1
  <2>2. claim'[c] = found /\ todo'[c] = found /\ (found = {} \/ pc'[c] = "claim")
    BY <2>1 DEF TodoTypes, CallTypes, RowTypes
  <2>3. pc'[c] \in {"done", "claim"}
    BY <2>1 DEF CallTypes
  <2>4. \A d \in Calls \ {c} :
          pc'[d] = pc[d] /\ claim'[d] = claim[d] /\ todo'[d] = todo[d]
    BY <2>1 DEF TodoTypes, CallTypes, RowTypes
  <2>5. todo' = [d \in Calls |-> todo'[d]]
    BY <2>1 DEF TodoTypes
  <2> QED BY <1>1, <2>2, <2>3, <2>4, <2>5 DEF TodoTypes
<1>8. DirtyInv'
  BY <1>1 DEF DirtyInv, StockTypes
<1>9. StageInv'
  BY <1>1 DEF StageInv, CallTypes, RowTypes, StockTypes
<1>10. FreshInv'
  BY <1>1, <1>2, SameArguments DEF FreshInv, RowTypes, TodoTypes, StockTypes
<1>11. FreedInv'
  BY <1>1, SameArguments DEF FreedInv, RowTypes, StockTypes
<1>12. HeldInv'
  BY <1>1 DEF HeldInv, RowTypes
<1>13. WriteInv'
  BY <1>1 DEF WriteInv, CallTypes, TodoTypes, NextLine, Before, Fits, StockTypes
<1>14. RowsInv'
  <2>1. \A x \in reserved \cup released : x[1] \in Calls /\ x[1] # c
    BY <1>2 DEF RowsInv, RowTypes, Rows
  <2>2. \A d \in Calls \ {c} : outcome'[d] = outcome[d]
    BY <1>1 DEF CallTypes
  <2> QED BY <1>1, <2>1, <2>2, SameArguments DEF RowsInv
<1>15. UniqueInv'
  BY <1>1, SameArguments DEF UniqueInv, RowTypes
<1> QED BY <1>4, <1>5, <1>6, <1>7, <1>8, <1>9,
           <1>10, <1>11, <1>12, <1>13, <1>14, <1>15

-----------------------------------------------------------------------------
(* Steps that take a lock.                                                  *)

\* SELECT ... FOR UPDATE of a product that has enough.
LEMMA EnoughStep ==
    ASSUME IInv, NEW c \in Calls, NEW i \in todo[c], EnoughStock(c, i)
    PROVE  IInv'
<1> USE DEF IInv, TypeOK, TransactionInv
<1> DEFINE p == req[c].items[i].product
<1>1. /\ pc[c] = "lines" /\ NextLine(c, i) /\ pc' = [pc EXCEPT ![c] = "write"]
      /\ p \in Products /\ req[c].items[i].quantity > 0
      /\ lock[p] \in {NoCall, c} /\ lock' = [lock EXCEPT ![p] = c]
      /\ Fits(c, i, dirty[p]) /\ seen' = [seen EXCEPT ![c] = dirty[p]]
      /\ UNCHANGED <<avail, dirty, reserved, released, fresh, held, freed>>
      /\ UNCHANGED <<req, todo, claim, ok, outcome>>
  BY DEF EnoughStock, LockLine, LockFree, Goto, work
<1>2. req[c] \in Requests /\ todo[c] \subseteq Lines(req[c])
  BY <1>1 DEF CallTypes, TodoTypes
<1>3. Rows' = Rows
  BY <1>1 DEF Rows
<1>5. StockTypes'
  BY <1>1, CallsAssumption DEF StockTypes
<1>6. CallTypes'
  BY <1>1 DEF CallTypes, StockTypes, Labels
<1>7. RowTypes'
  BY <1>1, <1>3 DEF RowTypes
<1>8. TodoTypes'
  BY <1>1 DEF TodoTypes, CallTypes, RowTypes
<1>9. DirtyInv'
  BY <1>1, CallsAssumption DEF DirtyInv, StockTypes
<1>10. StageInv'
  BY <1>1 DEF StageInv, CallTypes, RowTypes, StockTypes
<1>11. FreshInv'
  BY <1>1, CallsAssumption, SameArguments DEF FreshInv, RowTypes, TodoTypes, StockTypes
<1>12. FreedInv'
  BY <1>1, CallsAssumption, SameArguments DEF FreedInv, RowTypes, StockTypes
<1>13. HeldInv'
  BY <1>1 DEF HeldInv, RowTypes
<1>14. WriteInv'
    <2> SUFFICES ASSUME NEW d \in Calls, NEW j \in todo[d], pc'[d] = "write", NextLine(d, j)
               PROVE  LET line == req[d].items[j] IN
                      /\ line.product \in Products /\ line.quantity > 0
                      /\ lock'[line.product] = d
                      /\ seen'[d] = dirty[line.product]
                      /\ Fits(d, j, seen'[d])
    BY <1>1 DEF WriteInv, NextLine, Before, Fits
  <2>1. CASE d = c
    <3>1. j = i
      BY <1>1, <1>2, <2>1, NextLineUnique
    <3> QED BY <1>1, <2>1, <3>1 DEF CallTypes, StockTypes
  <2>2. CASE d # c
    BY <1>1, <2>2, CallsAssumption DEF WriteInv, CallTypes, StockTypes
  <2> QED BY <2>1, <2>2
<1>15. RowsInv'
  BY <1>1, SameArguments DEF RowsInv, CallTypes
<1>16. UniqueInv'
  BY <1>1, SameArguments DEF UniqueInv, RowTypes
<1> QED BY <1>5, <1>6, <1>7, <1>8, <1>9, <1>10,
           <1>11, <1>12, <1>13, <1>14, <1>15, <1>16

\* SELECT ... FOR UPDATE of a product that has not.
LEMMA InsufficientStep ==
    ASSUME IInv, NEW c \in Calls, NEW i \in todo[c], InsufficientStock(c, i)
    PROVE  IInv'
<1> USE DEF IInv, TypeOK, TransactionInv
<1> DEFINE p == req[c].items[i].product
<1>1. /\ pc[c] = "lines"
      /\ p \in Products /\ lock[p] \in {NoCall, c} /\ lock' = [lock EXCEPT ![p] = c]
      /\ todo' = [todo EXCEPT ![c] = @ \ {i}] /\ ok' = [ok EXCEPT ![c] = FALSE]
      /\ UNCHANGED <<avail, dirty, reserved, released, fresh, held, freed>>
      /\ UNCHANGED <<req, pc, claim, seen, outcome>>
  BY DEF InsufficientStock, LockLine, LockFree, work
<1>3. Rows' = Rows
  BY <1>1 DEF Rows
<1>4. StockTypes'
  BY <1>1, CallsAssumption DEF StockTypes
<1>5. CallTypes'
  BY <1>1 DEF CallTypes, Labels, Outcomes
<1>6. RowTypes'
  BY <1>1, <1>3 DEF RowTypes
<1>7. TodoTypes'
  BY <1>1 DEF TodoTypes, CallTypes, RowTypes
<1>8. DirtyInv'
  BY <1>1, CallsAssumption DEF DirtyInv, StockTypes
<1>9. StageInv'
  BY <1>1 DEF StageInv, CallTypes, RowTypes, StockTypes
<1>10. FreshInv'
  BY <1>1, CallsAssumption, SameArguments DEF FreshInv, RowTypes, TodoTypes, StockTypes
<1>11. FreedInv'
  BY <1>1, CallsAssumption, SameArguments DEF FreedInv, RowTypes, StockTypes
<1>12. HeldInv'
  BY <1>1 DEF HeldInv, RowTypes
<1>13. WriteInv'
  BY <1>1, CallsAssumption DEF WriteInv, CallTypes, TodoTypes, NextLine, Before, Fits, StockTypes
<1>14. RowsInv'
  BY <1>1, SameArguments DEF RowsInv, CallTypes
<1>15. UniqueInv'
  BY <1>1, SameArguments DEF UniqueInv, RowTypes
<1> QED BY <1>4, <1>5, <1>6, <1>7, <1>8, <1>9,
           <1>10, <1>11, <1>12, <1>13, <1>14, <1>15

\* A release locks the rows of its next product.
LEMMA LockRowsStep ==
    ASSUME IInv, NEW c \in Calls, NEW p \in Products, LockRows(c, p)
    PROVE  IInv'
<1> USE DEF IInv, TypeOK, TransactionInv
<1> DEFINE batch == {x \in todo[c] : Product(x) = p}
<1>1. /\ pc[c] = "claim" /\ \A d \in Calls \ {c} : held[d] \cap batch = {}
      /\ held' = [held EXCEPT ![c] = @ \cup {x \in batch : x \in reserved}]
      /\ todo' = [todo EXCEPT ![c] = @ \ batch]
      /\ \/ todo[c] = batch /\ pc' = [pc EXCEPT ![c] = "release"]
         \/ todo[c] # batch /\ pc' = [pc EXCEPT ![c] = "claim"]
      /\ UNCHANGED <<avail, dirty, lock, reserved, released, fresh, freed>>
      /\ UNCHANGED <<req, claim, seen, ok, outcome>>
  BY DEF LockRows, StillReserved, Goto, database
<1>2. batch \subseteq todo[c] /\ todo[c] \subseteq claim[c]
  BY <1>1 DEF TodoTypes
<1>3. Rows' = Rows
  BY <1>1 DEF Rows
<1>4. fresh[c] = {}
  BY <1>1 DEF StageInv
<1>5. StockTypes'
  BY <1>1 DEF StockTypes
<1>6. CallTypes'
  BY <1>1 DEF CallTypes, Labels, Outcomes
<1>7. RowTypes'
  BY <1>1, <1>2, <1>3 DEF RowTypes
<1>8. TodoTypes'
  BY <1>1, <1>2 DEF TodoTypes, CallTypes, RowTypes
<1>9. DirtyInv'
  BY <1>1 DEF DirtyInv, StockTypes
<1>10. StageInv'
  BY <1>1 DEF StageInv, CallTypes, RowTypes, StockTypes
<1>11. FreshInv'
  BY <1>1, <1>4, SameArguments DEF FreshInv, RowTypes, TodoTypes, StockTypes
<1>12. FreedInv'
  BY <1>1, SameArguments DEF FreedInv, RowTypes, StockTypes
<1>13. HeldInv'
  BY <1>1 DEF HeldInv, RowTypes
<1>14. WriteInv'
  BY <1>1 DEF WriteInv, CallTypes, TodoTypes, NextLine, Before, Fits, StockTypes
<1>15. RowsInv'
  BY <1>1, SameArguments DEF RowsInv, CallTypes
<1>16. UniqueInv'
  BY <1>1, SameArguments DEF UniqueInv, RowTypes
<1> QED BY <1>5, <1>6, <1>7, <1>8, <1>9, <1>10,
           <1>11, <1>12, <1>13, <1>14, <1>15, <1>16

\* A release adds a row's quantity to its product and flips the row.
LEMMA ReleaseRowStep ==
    ASSUME IInv, NEW c \in Calls, NEW x \in held[c], ReleaseRow(c, x)
    PROVE  IInv'
<1> USE DEF IInv, TypeOK, TransactionInv
<1> DEFINE p == Product(x)
<1>1. /\ pc[c] = "release" /\ x \in held[c] \ freed[c] /\ lock[p] \in {NoCall, c}
      /\ lock' = [lock EXCEPT ![p] = c]
      /\ dirty' = [dirty EXCEPT ![p] = @ + Quantity(x)]
      /\ freed' = [freed EXCEPT ![c] = @ \cup {x}]
      /\ UNCHANGED <<avail, reserved, released, fresh, held>>
      /\ UNCHANGED <<req, pc, todo, claim, seen, ok, outcome>>
  BY DEF ReleaseRow, LockFree, frame
<1>2. p \in Products
  BY <1>1 DEF HeldInv, RowsInv
<1>3. Rows' = Rows
  BY <1>1 DEF Rows
<1>4. Quantity(x) \in Nat
  <2>1. x \in Rows /\ Quantity(x) > 0
    BY <1>1 DEF HeldInv, RowsInv, RowTypes
  <2>2. req[x[1]] \in Requests /\ x[2] \in Lines(req[x[1]])
    BY <2>1 DEF Rows, CallTypes
  <2> QED BY <2>1, <2>2, RequestTypes DEF Quantity, Line
<1>5. fresh[c] = {}
  BY <1>1 DEF StageInv
<1>6. StockTypes'
  BY <1>1, <1>2, <1>4 DEF StockTypes
<1>7. CallTypes'
  BY <1>1 DEF CallTypes, Labels, Outcomes
<1>8. RowTypes'
  BY <1>1, <1>3 DEF RowTypes
<1>9. TodoTypes'
  BY <1>1 DEF TodoTypes, CallTypes, RowTypes
<1>10. DirtyInv'
  BY <1>1, <1>2, CallsAssumption DEF DirtyInv, StockTypes
<1>11. StageInv'
  BY <1>1 DEF StageInv, CallTypes, RowTypes, StockTypes
<1>12. FreshInv'
  BY <1>1, <1>2, CallsAssumption, SameArguments DEF FreshInv, RowTypes, TodoTypes, StockTypes
<1>13. FreedInv'
  BY <1>1, <1>2, CallsAssumption, SameArguments DEF FreedInv, RowTypes, StockTypes
<1>14. HeldInv'
  BY <1>1 DEF HeldInv, RowTypes
<1>15. WriteInv'
  BY <1>1, <1>2, CallsAssumption DEF WriteInv, CallTypes, TodoTypes, NextLine, Before, Fits, StockTypes
<1>16. RowsInv'
  BY <1>1, SameArguments DEF RowsInv, CallTypes
<1>17. UniqueInv'
  BY <1>1, SameArguments DEF UniqueInv, RowTypes
<1> QED BY <1>6, <1>7, <1>8, <1>9, <1>10, <1>11,
           <1>12, <1>13, <1>14, <1>15, <1>16, <1>17

-----------------------------------------------------------------------------
(* The invariant and what follows from it.                                  *)

\* The invariant depends on nothing but the variables.
LEMMA StutterStep ==
    ASSUME IInv, UNCHANGED vars
    PROVE  IInv'
<1>1. /\ UNCHANGED <<avail, dirty, lock, reserved, released, fresh, held, freed>>
      /\ UNCHANGED <<req, pc, todo, claim, seen, ok, outcome>>
  BY DEF vars, database, work, frame
<1>2. TypeOK'
  BY <1>1 DEF IInv, TypeOK, StockTypes, CallTypes, RowTypes, TodoTypes, Rows
<1>3. DirtyInv' /\ StageInv' /\ HeldInv'
  BY <1>1 DEF IInv, TransactionInv, DirtyInv, StageInv, HeldInv
<1>4. FreshInv' /\ FreedInv' /\ RowsInv' /\ UniqueInv'
  BY <1>1, SameArguments DEF IInv, TransactionInv, FreshInv, FreedInv, RowsInv, UniqueInv
<1>5. WriteInv'
  BY <1>1 DEF IInv, TransactionInv, WriteInv, NextLine, Before, Fits
<1> QED BY <1>2, <1>3, <1>4, <1>5 DEF IInv, TransactionInv

\* Every step of every call preserves the invariant.
LEMMA NextPreserves ==
    ASSUME IInv, [Next]_vars
    PROVE  IInv'
<1>1. CASE UNCHANGED vars
  BY <1>1, StutterStep
<1>2. ASSUME NEW c \in Calls, Arrive(c)
      PROVE  IInv'
  BY <1>2, ArriveStep DEF Arrive
<1>3. ASSUME NEW c \in Calls, Crash(c)
      PROVE  IInv'
  BY <1>3, AbortStep DEF Crash, Outcomes
<1>4. ASSUME NEW c \in Calls, ReserveStep(c)
      PROVE  IInv'
  <2>1. CASE Replay(c)
    BY <2>1, AnswerStep DEF Replay, Outcomes
  <2>2. CASE BeginReserve(c)
    BY <2>2, BeginStep
  <2>3. ASSUME NEW i \in todo[c], RejectLine(c, i)
        PROVE  IInv'
    BY <2>3, RejectStep
  <2>4. ASSUME NEW i \in todo[c], EnoughStock(c, i)
        PROVE  IInv'
    BY <2>4, EnoughStep
  <2>5. ASSUME NEW i \in todo[c], InsufficientStock(c, i)
        PROVE  IInv'
    BY <2>5, InsufficientStep
  <2>6. ASSUME NEW i \in todo[c], WriteLine(c, i)
        PROVE  IInv'
    BY <2>6, WriteStep
  <2>7. ASSUME NEW i \in todo[c], LoseUniqueRace(c, i)
        PROVE  IInv'
    BY <2>7, AbortStep DEF LoseUniqueRace, Active, Outcomes
  <2>8. CASE Commit(c)
    BY <2>8, CommitStep DEF Commit, Outcomes
  <2>9. CASE Rollback(c)
    BY <2>9, AbortStep DEF Rollback, Active, Outcomes
  <2> QED BY <1>4, <2>1, <2>2, <2>3, <2>4, <2>5, <2>6, <2>7, <2>8, <2>9 DEF ReserveStep
<1>5. ASSUME NEW c \in Calls, ReleaseStep(c)
      PROVE  IInv'
  <2>1. CASE Select(c)
    BY <2>1, SelectStep
  <2>2. ASSUME NEW p \in Products, LockRows(c, p)
        PROVE  IInv'
    BY <2>2, LockRowsStep
  <2>3. ASSUME NEW x \in held[c], ReleaseRow(c, x)
        PROVE  IInv'
    BY <2>3, ReleaseRowStep
  <2>4. CASE CommitRelease(c)
    <3> DEFINE o == IF held[c] = {} THEN "nothing" ELSE "released"
    <3>1. o \in Outcomes \ {"none"}
      BY DEF Outcomes
    <3>2. pc[c] = "release" /\ Publish(c) /\ EndTransaction(c) /\ Finish(c, o)
      BY <2>4 DEF CommitRelease
    <3> HIDE DEF o
    <3> QED BY <3>1, <3>2, CommitStep
  <2> QED BY <1>5, <2>1, <2>2, <2>3, <2>4 DEF ReleaseStep
<1> QED BY <1>1, <1>2, <1>3, <1>4, <1>5 DEF Next, Step

\* IInv is an invariant of the specification.
LEMMA Invariance == Spec => []IInv
<1>1. Init => IInv
  BY InitType, InitTransaction DEF IInv
<1>2. IInv /\ [Next]_vars => IInv'
  BY NextPreserves
<1> QED BY <1>1, <1>2, PTL DEF Spec

\* reserve_stock never oversells: every version of every available_quantity is
\* a natural number, however calls interleave and crash, without the help of
\* the column's CHECK constraint.
THEOREM TypeCorrect == Spec => []TypeOK
<1>1. IInv => TypeOK
  BY DEF IInv
<1> QED BY <1>1, Invariance, PTL

\* What a transaction in flight owns, what it has read and what it has locked.
THEOREM TransactionCorrect == Spec => []TransactionInv
<1>1. IInv => TransactionInv
  BY DEF IInv
<1> QED BY <1>1, Invariance, PTL

\* A key never holds a product twice, so a retried ReserveStock cannot
\* decrement stock twice.
THEOREM UniqueActiveCorrect == Spec => []UniqueActive
<1>1. IInv => UniqueActive
  <2> SUFFICES ASSUME IInv, NEW x \in reserved, NEW y \in reserved,
                      x # y, Key(x) = Key(y), Key(x) # NoKey
               PROVE  Product(x) # Product(y)
    BY DEF UniqueActive
  <2>1. x[1] \in Calls
    BY DEF IInv, TypeOK, RowTypes, Rows
  <2> QED BY <2>1 DEF IInv, TransactionInv, UniqueInv
<1> QED BY <1>1, Invariance, PTL

\* Whoever has an uncommitted row of a product holds its lock, and so does whoever
\* is about to insert one.
LEMMA IndexFree == IInv => NoIndexWait
<1> SUFFICES ASSUME IInv, NEW c \in Calls, NEW i \in todo[c],
                    pc[c] = "write", NextLine(c, i), IndexBusy(c, i)
             PROVE  FALSE
  BY DEF NoIndexWait
<1>1. PICK d \in Calls \ {c} : \E x \in fresh[d] \cup freed[d] :
                                 Product(x) = req[c].items[i].product
  BY DEF IndexBusy, Unsettled, Clashing
<1>2. lock[req[c].items[i].product] = d
  BY <1>1 DEF IInv, TransactionInv, FreshInv, FreedInv
<1>3. lock[req[c].items[i].product] = c
  BY DEF IInv, TransactionInv, WriteInv
<1> QED BY <1>1, <1>2, <1>3

\* The insert of a StockReservation never waits on the unique index: taking the
\* product's row lock first has already decided the race.
THEOREM NoIndexWaitCorrect == Spec => []NoIndexWait
BY IndexFree, Invariance, PTL

-----------------------------------------------------------------------------
(***************************************************************************)
(* NoWaitCycle, for every instance.  A call takes its locks in product     *)
(* order: what it has is not above what it still wants (OrderAt).  A call  *)
(* that waits for a product waits for one that, if it waits at all, waits  *)
(* for a higher product; a release that waits for a reservation waits for  *)
(* a release that wants reservations of a higher product or products, and  *)
(* who has products locked never goes back to waiting for reservations.    *)
(* Of finitely many calls one is therefore last.                           *)
(***************************************************************************)

\* What d has locked is not above what it still has to lock.
OrderAt(d) ==
    /\ pc[d] \in {"lines", "write"} =>
         \A p \in Products : lock[p] = d =>
           \A i \in todo[d] : p <= req[d].items[i].product
    /\ pc[d] = "claim" =>
         \A x \in held[d], y \in todo[d] : Product(x) < Product(y)
    /\ pc[d] = "release" =>
         \A p \in Products : lock[p] = d =>
           \A x \in held[d] \ freed[d] : p <= Product(x)

\* The inductive invariant.
OInv == IInv /\ \A d \in Calls : OrderAt(d)

-----------------------------------------------------------------------------

\* Of finitely many one has the highest rank.
LEMMA Highest ==
    ASSUME NEW S, IsFiniteSet(S), S # {}, NEW w, \A c \in S : w[c] \in Int
    PROVE  \E c \in S : \A d \in S : w[d] <= w[c]
<1> SUFFICES ASSUME \A c \in S : \E d \in S : ~(w[d] <= w[c])
             PROVE  FALSE
  OBVIOUS
<1> DEFINE Endless == {T \in SUBSET S : T # {} /\ \A c \in T : \E d \in T : w[d] > w[c]}
<1>1. S \in Endless
  OBVIOUS
<1>2. IsWellFoundedOn(StrictSubsetOrdering(S), SUBSET S)
  BY FS_StrictSubsetOrderingWellFounded, FS_FiniteSubsetsOfFinite
<1>3. PICK T \in Endless : \A U \in Endless : <<U, T>> \notin StrictSubsetOrdering(S)
  <2> HIDE DEF Endless
  <2>1. Endless \subseteq SUBSET S
    BY DEF Endless
  <2> QED BY <1>1, <1>2, <2>1, WFMin
<1>4. PICK x \in T : TRUE
  OBVIOUS
<1>5. T \ {x} \notin Endless
  <2>1. <<T \ {x}, T>> \in StrictSubsetOrdering(S)
    BY <1>4 DEF StrictSubsetOrdering
  <2> QED BY <1>3, <2>1
<1>6. PICK y \in T : w[y] > w[x]
  BY <1>3, <1>4
<1>7. T \subseteq S /\ y # x
  BY <1>4, <1>6
<1>8. PICK c \in T \ {x} : \A d \in T \ {x} : ~(w[d] > w[c])
  BY <1>5, <1>6, <1>7
<1>9. PICK d \in T : w[d] > w[c]
  BY <1>8
<1>10. d = x
  BY <1>8, <1>9
<1>11. w[y] \in Int /\ w[x] \in Int /\ w[c] \in Int
  BY <1>4, <1>6, <1>7, <1>8
<1>12. w[y] > w[c]
  BY <1>6, <1>9, <1>10, <1>11
<1> QED BY <1>6, <1>7, <1>8, <1>12

\* Products of lines and of rows are integers.
LEMMA ProductTypes ==
    ASSUME IInv
    PROVE  /\ \A x \in Rows : Product(x) \in Int
           /\ \A c \in Calls : pc[c] \in {"lines", "write"} =>
                \A i \in todo[c] : req[c].items[i].product \in Int
<1>1. ASSUME NEW x \in Rows
      PROVE  Product(x) \in Int
  <2>1. req[x[1]] \in Requests /\ x[2] \in Lines(req[x[1]])
    BY DEF Rows, IInv, TypeOK, CallTypes
  <2> QED BY <2>1, RequestTypes DEF Product, Line
<1>2. ASSUME NEW c \in Calls, pc[c] \in {"lines", "write"}, NEW i \in todo[c]
      PROVE  req[c].items[i].product \in Int
  <2>1. req[c] \in Requests /\ i \in Lines(req[c])
    BY <1>2 DEF IInv, TypeOK, CallTypes, TodoTypes
  <2> QED BY <2>1, RequestTypes
<1> QED BY <1>1, <1>2

-----------------------------------------------------------------------------
(* OrderAt is preserved.                                                    *)

\* What a step of c leaves true of the other calls.
LEMMA OthersOrdered ==
    ASSUME OInv, NEW c \in Calls,
           \A d \in Calls \ {c} :
             /\ pc'[d] = pc[d] /\ todo'[d] = todo[d] /\ req'[d] = req[d]
             /\ held'[d] = held[d] /\ freed'[d] = freed[d]
             /\ \A p \in Products : lock'[p] = d => lock[p] = d,
           \A x \in Rows : Product(x)' = Product(x)
    PROVE  \A d \in Calls \ {c} : OrderAt(d)'
<1>1. TAKE d \in Calls \ {c}
<1>2. OrderAt(d) /\ held[d] \subseteq Rows /\ (pc[d] = "claim" => todo[d] \subseteq Rows)
  BY DEF OInv, IInv, TypeOK, RowTypes, TodoTypes
<1>3. \A x \in held[d] : Product(x)' = Product(x)
  BY <1>2
<1>4. pc[d] = "claim" => \A y \in todo[d] : Product(y)' = Product(y)
  BY <1>2
<1> QED BY <1>2, <1>3, <1>4 DEF OrderAt

\* A call that waits for nothing more: it has ended, or has not begun.
LEMMA EndOrdered ==
    ASSUME OInv, NEW c \in Calls, EndTransaction(c), NEW o, Finish(c, o)
    PROVE  \A d \in Calls : OrderAt(d)'
<1> USE DEF IInv, TypeOK, CallTypes, RowTypes, TodoTypes, StockTypes
<1>1. /\ UNCHANGED req /\ pc'[c] = "done"
      /\ \A d \in Calls \ {c} :
           /\ pc'[d] = pc[d] /\ todo'[d] = todo[d]
           /\ held'[d] = held[d] /\ freed'[d] = freed[d]
           /\ \A p \in Products : lock'[p] = d => lock[p] = d
  BY CallsAssumption DEF OInv, EndTransaction, Unlock, Finish, Goto
<1>2. \A d \in Calls \ {c} : OrderAt(d)'
  BY <1>1, SameArguments, OthersOrdered
<1>3. OrderAt(c)'
  BY <1>1 DEF OrderAt
<1> QED BY <1>2, <1>3

\* A request arrives.
LEMMA ArriveOrdered ==
    ASSUME OInv, NEW c \in Calls, Arrive(c)
    PROVE  \A d \in Calls : OrderAt(d)'
<1> USE DEF IInv, TypeOK, CallTypes, RowTypes, TodoTypes
<1>1. PICK r \in Requests : req' = [req EXCEPT ![c] = r]
  BY DEF Arrive, Accept, Abort
<1>2. /\ pc[c] = "idle" /\ pc'[c] \in {"check", "select", "done"}
      /\ UNCHANGED <<lock, held, freed, todo>>
      /\ \A d \in Calls \ {c} : pc'[d] = pc[d] /\ req'[d] = req[d]
  BY <1>1 DEF OInv, Arrive, Accept, Abort, Finish, Goto, database, work
<1>3. req[c] = NoRequest
  BY <1>2 DEF OInv, TransactionInv, StageInv
<1>4. \A x \in Rows : Product(x)' = Product(x)
  BY <1>2, <1>3 DEF Rows, Product, Line
<1>5. \A d \in Calls \ {c} : OrderAt(d)'
  BY <1>2, <1>4, OthersOrdered
<1>6. OrderAt(c)'
  BY <1>2 DEF OrderAt
<1> QED BY <1>5, <1>6

\* A reserve takes the lines in product order.
LEMMA LinesOrdered ==
    ASSUME OInv, NEW c \in Calls,
           \/ Replay(c) \/ BeginReserve(c)
           \/ \E i \in todo[c] : \/ RejectLine(c, i) \/ EnoughStock(c, i)
                                  \/ InsufficientStock(c, i) \/ WriteLine(c, i)
    PROVE  \A d \in Calls : OrderAt(d)'
<1> USE DEF IInv, TypeOK, CallTypes, RowTypes, TodoTypes, StockTypes
<1>1. /\ UNCHANGED <<req, held, freed>>
      /\ \A d \in Calls \ {c} :
           /\ pc'[d] = pc[d] /\ todo'[d] = todo[d]
           /\ \A p \in Products : lock'[p] = d => lock[p] = d
      /\ pc'[c] \in {"lines", "write", "done"}
  BY DEF OInv, Replay, BeginReserve, RejectLine, EnoughStock, InsufficientStock, LockLine,
         WriteLine, Finish, Goto, database, work
<1>2. \A d \in Calls \ {c} : OrderAt(d)'
  BY <1>1, SameArguments, OthersOrdered
<1>3. OrderAt(c) /\ Products \subseteq Int
  BY ProductsAssumption DEF OInv
<1>4. ASSUME NEW i \in todo[c], pc[c] \in {"lines", "write"}, NextLine(c, i)
      PROVE  \A j \in todo[c] : req[c].items[i].product <= req[c].items[j].product
  BY <1>4, ProductTypes DEF OInv, NextLine, Before
<1>5. OrderAt(c)'
  <2>1. CASE Replay(c)
    BY <2>1 DEF OInv, Replay, Finish, Goto, OrderAt
  <2>2. CASE BeginReserve(c)
    <3>1. (\A p \in Products : lock'[p] # c) /\ pc'[c] = "lines"
      BY <2>2 DEF OInv, BeginReserve, TransactionInv, StageInv, Goto, database
    <3> QED BY <3>1 DEF OrderAt
  <2>3. ASSUME NEW i \in todo[c], RejectLine(c, i) \/ WriteLine(c, i)
        PROVE  OrderAt(c)'
    <3>1. /\ pc[c] \in {"lines", "write"} /\ pc'[c] = "lines" /\ UNCHANGED <<lock, req>>
          /\ todo'[c] \subseteq todo[c]
      BY <2>3 DEF OInv, RejectLine, WriteLine, Goto, database
    <3> QED BY <1>3, <3>1 DEF OrderAt
  <2>4. ASSUME NEW i \in todo[c], EnoughStock(c, i) \/ InsufficientStock(c, i)
        PROVE  OrderAt(c)'
    <3>1. /\ pc[c] = "lines" /\ UNCHANGED req /\ NextLine(c, i)
          /\ lock' = [lock EXCEPT ![req[c].items[i].product] = c]
      BY <2>4 DEF EnoughStock, InsufficientStock, LockLine
    <3>2. pc'[c] \in {"lines", "write"} /\ todo'[c] \subseteq todo[c]
      BY <2>4, <3>1 DEF OInv, EnoughStock, InsufficientStock, Goto
    <3>3. \A p \in Products :
            lock'[p] = c => lock[p] = c \/ p = req[c].items[i].product
      BY <3>1 DEF OInv
    <3> QED BY <1>3, <1>4, <3>1, <3>2, <3>3 DEF OrderAt
  <2> QED BY <2>1, <2>2, <2>3, <2>4
<1> QED BY <1>2, <1>5

\* A release takes rows, and then products, in product order.
LEMMA ReleaseOrdered ==
    ASSUME OInv, NEW c \in Calls,
           \/ Select(c)
           \/ \E p \in Products : LockRows(c, p)
           \/ \E x \in held[c] : ReleaseRow(c, x)
    PROVE  \A d \in Calls : OrderAt(d)'
<1> USE DEF IInv, TypeOK, CallTypes, RowTypes, TodoTypes, StockTypes
<1>1. /\ UNCHANGED req
      /\ \A d \in Calls \ {c} :
           /\ pc'[d] = pc[d] /\ todo'[d] = todo[d]
           /\ held'[d] = held[d] /\ freed'[d] = freed[d]
           /\ \A p \in Products : lock'[p] = d => lock[p] = d
  BY DEF OInv, Select, LockRows, ReleaseRow, Finish, Goto, database, work, frame
<1>2. \A d \in Calls \ {c} : OrderAt(d)'
  BY <1>1, SameArguments, OthersOrdered
<1>3. OrderAt(c) /\ Products \subseteq Int /\ held[c] \subseteq Rows
  BY ProductsAssumption DEF OInv
<1>4. \A x : Product(x)' = Product(x)
  BY <1>1, SameArguments
<1>5. OrderAt(c)'
  <2>1. CASE Select(c)
    <3>1. pc[c] = "select" /\ pc'[c] \in {"claim", "done"} /\ held'[c] = held[c]
      BY <2>1 DEF OInv, Select, Finish, Goto, work
    <3>2. held[c] = {}
      BY <3>1 DEF OInv, TransactionInv, StageInv
    <3> QED BY <3>1, <3>2 DEF OrderAt
  <2>2. ASSUME NEW p \in Products, LockRows(c, p)
        PROVE  OrderAt(c)'
    <3>1. /\ pc[c] = "claim" /\ pc'[c] \in {"claim", "release"} /\ UNCHANGED lock
          /\ FirstProduct(todo[c], p)
          /\ todo'[c] = todo[c] \ {x \in todo[c] : Product(x) = p}
          /\ held'[c] \subseteq held[c] \cup {x \in todo[c] : Product(x) = p}
      BY <2>2 DEF OInv, LockRows, Goto, database
    <3>2. \A q \in Products : lock[q] # c
      BY <3>1 DEF OInv, TransactionInv, StageInv
    <3>3. \A x \in held'[c], y \in todo'[c] : Product(x) < Product(y)
      <4>1. todo[c] \subseteq Rows
        BY <3>1 DEF OInv
      <4>2. \A y \in todo'[c] : p < Product(y)
        BY <1>3, <3>1, <4>1, ProductTypes DEF OInv, FirstProduct
      <4>3. \A x \in held[c], y \in todo'[c] : Product(x) < Product(y)
        BY <1>3, <3>1 DEF OrderAt
      <4> QED BY <3>1, <4>2, <4>3
    <3> QED BY <1>4, <3>1, <3>2, <3>3 DEF OrderAt
  <2>3. ASSUME NEW x \in held[c], ReleaseRow(c, x)
        PROVE  OrderAt(c)'
    <3>1. /\ pc[c] = "release" /\ pc'[c] = "release" /\ UNCHANGED held
          /\ FirstProduct(held[c] \ freed[c], Product(x))
          /\ freed[c] \subseteq freed'[c]
          /\ \A p \in Products : lock'[p] = c => lock[p] = c \/ p = Product(x)
      BY <2>3 DEF OInv, ReleaseRow, frame
    <3> QED BY <1>3, <1>4, <3>1 DEF OrderAt, FirstProduct
  <2> QED BY <2>1, <2>2, <2>3
<1> QED BY <1>2, <1>5

\* Every step preserves the invariant.
LEMMA OrderPreserved ==
    ASSUME OInv, [Next]_vars
    PROVE  OInv'
<1>1. IInv'
  BY NextPreserves DEF OInv
<1> DEFINE Goal == \A d \in Calls : OrderAt(d)'
<1>2. CASE UNCHANGED vars
  <2>1. UNCHANGED <<lock, held, freed, req, pc, todo>>
    BY <1>2 DEF vars, database, work, frame
  <2>2. Goal
    BY <2>1, SameArguments DEF OInv, OrderAt
  <2> QED BY <1>1, <2>2 DEF OInv
<1>3. ASSUME NEW c \in Calls, Arrive(c) \/ Step(c) \/ Crash(c)
      PROVE  Goal
  <2>1. CASE Arrive(c)
    BY <2>1, ArriveOrdered
  <2>2. CASE Crash(c)
    BY <2>2, EndOrdered DEF Crash
  <2>3. CASE ReserveStep(c)
    <3>1. CASE Commit(c) \/ Rollback(c)
      BY <3>1, EndOrdered DEF Commit, Rollback
    <3>2. ASSUME NEW i \in todo[c], LoseUniqueRace(c, i)
          PROVE  Goal
      BY <3>2, EndOrdered DEF LoseUniqueRace
    <3>3. CASE \/ Replay(c) \/ BeginReserve(c)
               \/ \E i \in todo[c] : \/ RejectLine(c, i) \/ EnoughStock(c, i)
                                      \/ InsufficientStock(c, i) \/ WriteLine(c, i)
      BY <3>3, LinesOrdered
    <3> QED BY <2>3, <3>1, <3>2, <3>3 DEF ReserveStep
  <2>4. CASE ReleaseStep(c)
    <3>1. CASE CommitRelease(c)
      BY <3>1, EndOrdered DEF CommitRelease
    <3> QED BY <2>4, <3>1, ReleaseOrdered DEF ReleaseStep
  <2> QED BY <1>3, <2>1, <2>2, <2>3, <2>4 DEF Step
<1> QED BY <1>1, <1>2, <1>3 DEF OInv, Next

\* Nobody has a lock at the start.
LEMMA InitOrdered == Init => OInv
<1> SUFFICES ASSUME Init
             PROVE  OInv
  OBVIOUS
<1>1. IInv
  BY InitType, InitTransaction DEF IInv
<1>2. \A d \in Calls : pc[d] = "idle"
  BY DEF Init
<1> QED BY <1>1, <1>2 DEF OInv, OrderAt

-----------------------------------------------------------------------------
(* Waiting goes up.                                                         *)

\* p is the product of the lock c has to take next.
Wants(c, p) ==
    \/ /\ pc[c] = "lines"
       /\ \E i \in todo[c] : NextLine(c, i) /\ p = req[c].items[i].product
    \/ /\ pc[c] = "claim"
       /\ \E x \in todo[c] : FirstProduct(todo[c], Product(x)) /\ p = Product(x)
    \/ /\ pc[c] = "release"
       /\ \E x \in held[c] \ freed[c] :
            FirstProduct(held[c] \ freed[c], Product(x)) /\ p = Product(x)

\* d holds what c has to take next: a product's lock, or a reservation's.
Blocks(d, c) ==
    \/ /\ pc[c] \in {"lines", "release"}
       /\ \E p \in Products : Wants(c, p) /\ lock[p] = d
    \/ /\ pc[c] = "claim"
       /\ \E x \in todo[c] : Wants(c, Product(x)) /\ x \in held[d]

\* Nothing else makes a call wait: the index does not.
LEMMA WaitsBlocked ==
    ASSUME OInv, NEW c \in Calls, NEW d \in WaitsFor(c)
    PROVE  d \in Calls /\ d # c /\ Blocks(d, c)
<1> USE DEF IInv, TypeOK, CallTypes, RowTypes, TodoTypes, StockTypes
<1>1. CASE pc[c] = "lines"
  BY <1>1 DEF WaitsFor, Blocks, Wants
<1>2. CASE pc[c] = "write"
  <2>1. PICK i \in todo[c] : NextLine(c, i) /\ Clashing(c, i, fresh[d] \cup freed[d]) # {}
    BY <1>2 DEF WaitsFor
  <2>2. d \in Calls \ {c}
    BY <1>2 DEF WaitsFor
  <2>3. IndexBusy(c, i)
    BY <2>1, <2>2 DEF IndexBusy, Unsettled, Clashing
  <2> QED BY <1>2, <2>1, <2>3, IndexFree DEF OInv, NoIndexWait
<1>3. CASE pc[c] = "claim"
  BY <1>3 DEF WaitsFor, Blocks, Wants
<1>4. CASE pc[c] = "release"
  <2>1. PICK x \in held[c] \ freed[c] :
          FirstProduct(held[c] \ freed[c], Product(x)) /\ lock[Product(x)] = d
    BY <1>4 DEF WaitsFor
  <2>2. Product(x) \in Products
    BY <2>1 DEF OInv, TransactionInv, HeldInv, RowsInv
  <2>3. d \in Calls \ {c}
    BY <1>4 DEF WaitsFor
  <2> QED BY <1>4, <2>1, <2>2, <2>3 DEF Blocks, Wants
<1>5. CASE pc[c] \notin {"lines", "write", "claim", "release"}
  BY <1>5 DEF WaitsFor
<1> QED BY <1>1, <1>2, <1>3, <1>4, <1>5

\* A call wants one product at a time.
LEMMA WantsOne ==
    ASSUME OInv, NEW c \in Calls, NEW p, NEW q, Wants(c, p), Wants(c, q)
    PROVE  p \in Int /\ p = q
<1> USE DEF IInv, TypeOK, CallTypes, RowTypes, TodoTypes
<1>1. CASE pc[c] = "lines"
  <2>1. PICK i \in todo[c] : NextLine(c, i) /\ p = req[c].items[i].product
    BY <1>1 DEF Wants
  <2>2. PICK j \in todo[c] : NextLine(c, j) /\ q = req[c].items[j].product
    BY <1>1 DEF Wants
  <2>3. req[c] \in Requests /\ todo[c] \subseteq Lines(req[c])
    BY <1>1 DEF OInv
  <2>4. i = j
    BY <2>1, <2>2, <2>3, NextLineUnique
  <2> QED BY <1>1, <2>1, <2>2, <2>4, ProductTypes DEF OInv
<1>2. CASE pc[c] = "claim"
  <2>1. todo[c] \subseteq Rows
    BY <1>2 DEF OInv
  <2> QED BY <1>2, <2>1, ProductTypes DEF OInv, Wants, FirstProduct
<1>3. CASE pc[c] = "release"
  <2>1. held[c] \ freed[c] \subseteq Rows
    BY DEF OInv
  <2> QED BY <1>3, <2>1, ProductTypes DEF OInv, Wants, FirstProduct
<1> QED BY <1>1, <1>2, <1>3 DEF Wants

\* Who blocks a call and is blocked itself wants more, or is one stage further.
LEMMA BlockedAbove ==
    ASSUME OInv, NEW c \in Calls, NEW d \in Calls, NEW e \in Calls,
           c # d, d # e, Blocks(d, c), Blocks(e, d),
           NEW p, NEW q, Wants(c, p), Wants(d, q)
    PROVE  /\ pc[c] \in {"lines", "release"} => pc[d] \in {"lines", "release"} /\ p < q
           /\ pc[c] = "claim" => pc[d] = "release" \/ (pc[d] = "claim" /\ p < q)
<1> USE DEF IInv, TypeOK, CallTypes, RowTypes, TodoTypes, StockTypes
<1>1. p \in Int /\ q \in Int /\ pc[d] \in {"lines", "release", "claim"}
  <2>1. p \in Int /\ q \in Int
    BY WantsOne
  <2>2. pc[d] \in {"lines", "release", "claim"}
    BY DEF Wants
  <2> QED BY <2>1, <2>2
<1>2. CASE pc[c] \in {"lines", "release"}
  <2>1. p \in Products /\ lock[p] = d
    BY <1>2, WantsOne DEF Blocks
  <2>2. pc[d] \in {"lines", "release"}
    BY <1>1, <2>1 DEF OInv, TransactionInv, StageInv
  <2>3. q \in Products /\ lock[q] = e
    BY <2>2, WantsOne DEF Blocks
  <2>4. p <= q
    BY <2>1, <2>2 DEF OInv, OrderAt, Wants
  <2> QED BY <1>1, <1>2, <2>1, <2>2, <2>3, <2>4
<1>3. CASE pc[c] = "claim"
  <2>1. PICK x \in todo[c] : Wants(c, Product(x)) /\ x \in held[d]
    BY <1>3 DEF Blocks
  <2>2. p = Product(x)
    BY <2>1, WantsOne
  <2>3. pc[d] \in {"claim", "release"}
    <3>1. claim[d] # {}
      BY <2>1 DEF OInv
    <3> QED BY <3>1 DEF OInv, TransactionInv, StageInv
  <2>4. pc[d] = "claim" => p < q
    BY <2>1, <2>2 DEF OInv, OrderAt, Wants
  <2> QED BY <1>3, <2>3, <2>4
<1> QED BY <1>2, <1>3

\* Reserves and releases, retried and crashing in any order, never deadlock in the
\* database: of any group of transactions one waits for none of the others.
THEOREM NoWaitCycleCorrect == Spec => []NoWaitCycle
<1>1. OInv => NoWaitCycle
  <2> SUFFICES ASSUME OInv, NEW S \in SUBSET Calls, S # {},
                      \A c \in S : WaitsFor(c) \cap S # {}
               PROVE  FALSE
    BY DEF NoWaitCycle
  <2>1. \A c \in S : \E d \in S : d # c /\ Blocks(d, c)
    BY WaitsBlocked
  <2>2. \A c \in S : \E p : Wants(c, p)
    BY <2>1 DEF Blocks
  <2> DEFINE w == [c \in S |-> CHOOSE p : Wants(c, p)]
  <2>3. \A c \in S : Wants(c, w[c]) /\ w[c] \in Int
    <3>1. \A c \in S : Wants(c, w[c])
      BY <2>2
    <3> HIDE DEF w
    <3> QED BY <3>1, WantsOne
  <2> HIDE DEF w
  <2> DEFINE L == {c \in S : pc[c] \in {"lines", "release"}}
  <2>4. \A T \in SUBSET S : IsFiniteSet(T)
    BY CallsAssumption, FS_Subset
  <2>5. CASE L # {}
    <3>1. L \subseteq S /\ IsFiniteSet(L)
      BY <2>4
    <3>2. PICK c \in L : \A d \in L : w[d] <= w[c]
      BY <2>3, <2>5, <3>1, Highest
    <3>3. PICK d \in S : d # c /\ Blocks(d, c)
      BY <2>1, <3>2
    <3>4. PICK e \in S : e # d /\ Blocks(e, d)
      BY <2>1
    <3>5. d \in L /\ w[c] < w[d]
      BY <2>3, <3>2, <3>3, <3>4, BlockedAbove
    <3> QED BY <2>3, <3>2, <3>5
  <2>6. CASE L = {}
    <3>1. \A c \in S : pc[c] = "claim"
      BY <2>3, <2>6 DEF Wants
    <3>2. PICK c \in S : \A d \in S : w[d] <= w[c]
      BY <2>3, <2>4, Highest
    <3>3. PICK d \in S : d # c /\ Blocks(d, c)
      BY <2>1
    <3>4. PICK e \in S : e # d /\ Blocks(e, d)
      BY <2>1
    <3>5. w[c] < w[d]
      BY <2>3, <3>1, <3>3, <3>4, BlockedAbove
    <3> QED BY <2>3, <3>2, <3>5
  <2> QED BY <2>5, <2>6
<1> QED BY <1>1, InitOrdered, OrderPreserved, PTL DEF Spec
=============================================================================
