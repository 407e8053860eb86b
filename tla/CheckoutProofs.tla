-------------------------- MODULE CheckoutProofs ---------------------------
(***************************************************************************)
(* Checkout.tla for any number of requests, products, customers, keys and  *)
(* carts.  IInv is inductive: it says what each open transaction holds, so  *)
(* that no two of them can publish the same key or the same stock, and the *)
(* safety properties and the refinement of OrderLedger follow from it.     *)
(***************************************************************************)
EXTENDS Checkout, FiniteSetTheorems, SequenceTheorems, TLAPS

\* Every lock the statements take is on a row that exists.
LEMMA RowsTyped ==
  /\ \A e \in Email : CustomerRow(e) \in Row
  /\ CouponRow \in Row
  /\ \A k \in Key : KeyRow(k) \in Row
  /\ \A p \in Product : ProductRow(p) \in Row
  /\ \A s \in Session : CartRow(s) \in Row
  BY DEF Row, CustomerRow, CouponRow, KeyRow, ProductRow, CartRow

\* Locks on different tables, on different products, or on different keys are different.
LEMMA RowsDiffer ==
  /\ \A e, p : CustomerRow(e) # ProductRow(p)
  /\ \A e, k : CustomerRow(e) # KeyRow(k)
  /\ \A p : CouponRow # ProductRow(p)
  /\ \A k : CouponRow # KeyRow(k)
  /\ \A k, p : KeyRow(k) # ProductRow(p)
  /\ \A s, p : CartRow(s) # ProductRow(p)
  /\ \A s, k : CartRow(s) # KeyRow(k)
  /\ \A p, q : ProductRow(p) = ProductRow(q) => p = q
  /\ \A k, l : KeyRow(k) = KeyRow(l) => k = l
  BY DEF CustomerRow, CouponRow, KeyRow, ProductRow, CartRow

\* The inputs of a request are what the handlers parse.
LEMMA RequestTyped ==
  ASSUME TypeOK, NEW r \in Req
  PROVE  /\ request[r].key \in Key \cup {NoKey}
         /\ request[r].email \in Email
         /\ request[r].session \in Session \cup {NoSession}
  BY DEF TypeOK, Request

\* Whatever the source of the items, they are order lines.
LEMMA ItemsTyped == ASSUME TypeOK, NEW r \in Req PROVE ItemsOf(r) \in Seq(Line)
<1>1. request[r].payload \in Seq(Line) /\ request[r].session \in Session \cup {NoSession}
  BY DEF TypeOK, Request
<1>2. <<>> \in Seq(Line) /\ \A s \in Session : carts[s] \in Seq(Line)
  BY DEF TypeOK
<1> QED
  BY <1>1, <1>2 DEF ItemsOf

\* An order found under a key is a committed order of that key.
LEMMA PlacedTyped ==
  ASSUME TypeOK, NEW k, NEW o \in Placed(k)
  PROVE  o \in orders /\ o.id \in Req /\ o.payment \in PaymentColumns /\ o.key = k /\ k # NoKey
  BY DEF TypeOK, Placed, Placeable

\* Each gateway decision writes payment columns an order can have.
LEMMA ColumnsTyped ==
  \A d \in {"authorized", "declined", "timeout"} : ColumnsFor(d) \in PaymentColumns
  BY DEF ColumnsFor, PaymentColumns

\* The lines of a cart, with one line changed, added or taken out, are lines.
LEMMA LinesTyped ==
  ASSUME NEW cart \in Seq(Line), NEW line \in Line
  PROVE  /\ Append(cart, line) \in Seq(Line)
         /\ \A i \in 1 .. Len(cart) :
              /\ [cart EXCEPT ![i].quantity = @ + line.quantity] \in Seq(Line)
              /\ SubSeq(cart, 1, i - 1) \o SubSeq(cart, i + 1, Len(cart)) \in Seq(Line)
<1>1. Append(cart, line) \in Seq(Line)
  OBVIOUS
<1>2. ASSUME NEW i \in 1 .. Len(cart)
      PROVE  [cart EXCEPT ![i].quantity = @ + line.quantity] \in Seq(Line)
  <2>1. cart[i] \in Line
    OBVIOUS
  <2>2. [cart[i] EXCEPT !.quantity = @ + line.quantity] \in Line
    BY <2>1 DEF Line
  <2> QED
    BY <2>2
<1>3. ASSUME NEW i \in 1 .. Len(cart)
      PROVE  SubSeq(cart, 1, i - 1) \o SubSeq(cart, i + 1, Len(cart)) \in Seq(Line)
  <2>1. SubSeq(cart, 1, i - 1) \in Seq(Line)
    BY SubSeqProperties
  <2>2. SubSeq(cart, i + 1, Len(cart)) \in Seq(Line)
    BY SubSeqProperties
  <2> QED
    BY <2>1, <2>2
<1> QED
  BY <1>1, <1>2, <1>3

\* A line whose quantity is raised is still there, and so are the others.
LEMMA LineRaised ==
  ASSUME NEW cart \in Seq(Line), NEW line \in Line, NEW i \in 1 .. Len(cart)
  PROVE  Kept(cart, [cart EXCEPT ![i].quantity = @ + line.quantity])
<1> DEFINE later == [cart EXCEPT ![i].quantity = @ + line.quantity]
<1>1. Len(later) = Len(cart)
  OBVIOUS
<1>2. ASSUME NEW j \in 1 .. Len(cart)
      PROVE  later[j].product = cart[j].product /\ later[j].quantity >= cart[j].quantity
  <2>1. cart[j] \in Line
    OBVIOUS
  <2>2. CASE j = i
    <3>1. later[j] = [cart[i] EXCEPT !.quantity = @ + line.quantity]
      BY <2>2
    <3> QED
      BY <2>1, <2>2, <3>1 DEF Line
  <2>3. CASE j # i
    <3>1. later[j] = cart[j]
      BY <2>3
    <3> QED
      BY <2>1, <3>1 DEF Line
  <2> QED
    BY <2>2, <2>3
<1> QED
  BY <1>1, <1>2 DEF Kept

\* A cart that does not change keeps its lines, and one with a line more as well.
LEMMA CartKept ==
  ASSUME NEW cart \in Seq(Line), NEW line \in Line
  PROVE  Kept(cart, cart) /\ Kept(cart, Append(cart, line))
<1>1. \A i \in 1 .. Len(cart) : cart[i] \in Line
  OBVIOUS
<1>2. \A i \in 1 .. Len(cart) : cart[i].quantity \in Nat
  BY <1>1 DEF Line
<1>3. /\ Len(Append(cart, line)) = Len(cart) + 1
      /\ \A i \in 1 .. Len(cart) : Append(cart, line)[i] = cart[i]
  OBVIOUS
<1> QED
  BY <1>2, <1>3 DEF Kept

\* What a commit leaves of a cart are lines of it.
LEMMA RestTyped ==
  ASSUME NEW cart \in Seq(Line), NEW n \in Nat
  PROVE  SubSeq(cart, n + 1, Len(cart)) \in Seq(Line)
<1>1. \A i \in n + 1 .. Len(cart) : cart[i] \in Line
  OBVIOUS
<1> QED
  BY <1>1, SubSeqProperties

----------------------------------------------------------------------------
\* Frames: what a step of one request leaves to the others.

\* Uncommitted stock stays held when nothing of it moves and no lock on a product is
\* taken away.
LEMMA StockKept ==
  ASSUME StockHeld, TypeOK, UNCHANGED <<stock, taken>>,
         \A p \in Product :
           owner[ProductRow(p)] # NoReq => owner'[ProductRow(p)] = owner[ProductRow(p)]
  PROVE  StockHeld'
  BY ConstantsAssumption DEF ConstantsAssumption, StockHeld, TypeOK

\* Uncommitted keys stay held when nothing is inserted and no lock on a key is taken
\* away.
LEMMA KeyKept ==
  ASSUME KeyHeld, TypeOK, UNCHANGED <<request, orders, inserted>>,
         \A k \in Key :
           owner[KeyRow(k)] # NoReq => owner'[KeyRow(k)] = owner[KeyRow(k)]
  PROVE  KeyHeld'
<1> SUFFICES ASSUME NEW r \in Req, inserted[r], request[r].key # NoKey
    PROVE owner'[KeyRow(request[r].key)] = r /\ Placed(request[r].key)' = {}
  BY DEF KeyHeld
<1>1. request[r].key \in Key
  BY DEF TypeOK, Request
<1>2. owner[KeyRow(request[r].key)] = r /\ r # NoReq
  BY ConstantsAssumption DEF ConstantsAssumption, KeyHeld
<1> QED
  BY <1>1, <1>2 DEF KeyHeld, Placed

\* A replay about to answer is not disturbed by the step of another request that commits
\* nothing.
LEMMA ReplayKept ==
  ASSUME ReplaySeen, NEW r \in Req, UNCHANGED <<request, orders>>,
         pc'[r] = "commit" => inserted'[r],
         \A q \in Req \ {r} :
           /\ pc'[q] = pc[q] /\ inserted'[q] = inserted[q]
           /\ answer'[q] = answer[q] /\ payment'[q] = payment[q]
  PROVE  ReplaySeen'
<1> SUFFICES ASSUME NEW q \in Req, pc'[q] = "commit", ~inserted'[q]
             PROVE  \E o \in orders : /\ o.id = answer'[q] /\ o.key = request[q].key
                                      /\ o.payment = payment'[q] /\ o.key # NoKey
  BY DEF ReplaySeen
<1> q # r
  OBVIOUS
<1> QED
  BY DEF ReplaySeen

\* Answers given are not disturbed by the step of a request that answers nothing.
LEMMA AnswersKept ==
  ASSUME AnsweredOrderExists, NEW r \in Req, UNCHANGED request, orders \subseteq orders',
         pc'[r] \notin {"crm", "done"},
         \A q \in Req \ {r} :
           pc'[q] = pc[q] /\ answer'[q] = answer[q] /\ payment'[q] = payment[q]
  PROVE  AnsweredOrderExists'
<1> SUFFICES ASSUME NEW q \in Req, pc'[q] \in {"crm", "done"}
             PROVE  \E o \in orders' : /\ o.id = answer'[q] /\ o.key = request[q].key
                                       /\ o.payment = payment'[q]
                                       /\ o.id = q \/ o.key # NoKey
  BY DEF AnsweredOrderExists
<1>1. q # r
  OBVIOUS
<1>2. PICK o \in orders : /\ o.id = answer[q] /\ o.key = request[q].key
                          /\ o.payment = payment[q]
                          /\ o.id = q \/ o.key # NoKey
  BY <1>1 DEF AnsweredOrderExists
<1> QED
  BY <1>1, <1>2

\* Dropping the uncommitted writes of one transaction leaves those of the others held.
LEMMA DiscardKeeps ==
  ASSUME IInv, NEW r \in Req, Discard(r), UNCHANGED <<request, orders, stock>>
  PROVE  StockHeld' /\ KeyHeld'
<1>1. StockHeld'
  <2> SUFFICES ASSUME NEW q \in Req, NEW p \in Product
               PROVE  /\ taken'[q][p] <= stock[p]
                      /\ taken'[q][p] # 0 => owner'[ProductRow(p)] = q
    BY DEF StockHeld
  <2>1. CASE q = r
    BY <2>1 DEF IInv, TypeOK, Discard, Nothing
  <2>2. CASE q # r
    BY <2>2, RowsTyped DEF IInv, TypeOK, StockHeld, Discard, Released
  <2> QED
    BY <2>1, <2>2
<1>2. KeyHeld'
  <2> SUFFICES ASSUME NEW q \in Req, inserted'[q], request[q].key # NoKey
               PROVE  owner'[KeyRow(request[q].key)] = q /\ Placed(request[q].key) = {}
    BY DEF KeyHeld, Placed
  <2>1. q # r /\ inserted[q]
    BY DEF IInv, TypeOK, Discard
  <2>2. KeyRow(request[q].key) \in Row
    BY RowsTyped, RequestTyped DEF IInv
  <2> QED
    BY <2>1, <2>2 DEF IInv, KeyHeld, Discard, Released
<1> QED
  BY <1>1, <1>2

----------------------------------------------------------------------------
\* The tables and the requests start well typed.
LEMMA InitTyped == Init => TypeOK
<1> SUFFICES ASSUME Init PROVE TypeOK
  OBVIOUS
<1> USE ConstantsAssumption DEF ConstantsAssumption, Init
<1>1. request \in [Req -> Request] /\ carts \in [Session -> Seq(Line)] 
  OBVIOUS
<1>2. pc \in [Req -> InTransaction \cup {"idle", "crm"} \cup Finished]
  OBVIOUS
<1>3. lines \in [Req -> Seq(Line)] /\ nextLine \in [Req -> Nat \ {0}]
  OBVIOUS
<1>4. taken \in [Req -> [Product -> Nat]]
  BY DEF Nothing
<1>5. payment \in [Req -> PaymentColumns]
  BY DEF Unpaid, PaymentColumns
<1> QED
  BY <1>1, <1>2, <1>3, <1>4, <1>5 DEF TypeOK

\* The invariant holds before any request runs.
LEMMA InitInvariant == Init => IInv
<1> SUFFICES ASSUME Init PROVE IInv
  OBVIOUS
<1>1. TypeOK
  BY InitTyped
<1>2. WritesFollowInsert /\ LinesLeft /\ KeyHeld /\ ReplaySeen
  BY DEF Init, WritesFollowInsert, LinesLeft, KeyHeld, ReplaySeen
<1>3. StockHeld
  BY ConstantsAssumption DEF Init, StockHeld, Nothing, ConstantsAssumption
<1>4. OrdersOfEnded /\ OneOrderPerKey /\ AnsweredOrderExists /\ LocksFollowItems
  BY DEF Init, OrdersOfEnded, OneOrderPerKey, AnsweredOrderExists, LocksFollowItems
<1> QED
  BY <1>1, <1>2, <1>3, <1>4 DEF IInv

----------------------------------------------------------------------------
\* One lemma per operation: its step keeps each part of the invariant.

\* Refreshing the customers from the CRM keeps the invariant.
LEMMA SyncCustomersKeeps == ASSUME IInv, NEW r \in Req, SyncCustomers(r) PROVE IInv'
<1>1. TypeOK'
  BY ConstantsAssumption DEF IInv, SyncCustomers, TypeOK, Goto, writes, outside, Finished,
       InTransaction, ConstantsAssumption
<1>2. WritesFollowInsert'
  BY DEF IInv, SyncCustomers, TypeOK, WritesFollowInsert, Goto, writes
<1>3. LinesLeft'
  BY DEF IInv, SyncCustomers, TypeOK, LinesLeft, Goto
<1>4. StockHeld'
  BY StockKept DEF IInv, SyncCustomers, writes
<1>5. KeyHeld'
  BY KeyKept DEF IInv, SyncCustomers, writes
<1>6. OrdersOfEnded'
  BY DEF IInv, SyncCustomers, TypeOK, OrdersOfEnded, Placeable, Goto
<1>7. ReplaySeen'
  BY ReplayKept DEF IInv, SyncCustomers, TypeOK, Goto, writes
<1>8. OneOrderPerKey'
  BY DEF IInv, SyncCustomers, OneOrderPerKey
<1>9. AnsweredOrderExists'
  BY AnswersKept DEF IInv, SyncCustomers, TypeOK, Goto, writes
<1>10. LocksFollowItems'
  BY ConstantsAssumption DEF IInv, SyncCustomers, TypeOK, LocksFollowItems, Goto,
       InTransaction, ConstantsAssumption
<1> QED
  BY <1>1, <1>2, <1>3, <1>4, <1>5, <1>6, <1>7, <1>8, <1>9, <1>10 DEF IInv

\* Resolving the items keeps the invariant: the lines of an order are never empty.
LEMMA ResolveItemsKeeps == ASSUME IInv, NEW r \in Req, ResolveItems(r) PROVE IInv'
<1>a. ItemsOf(r) \in Seq(Line)
  BY ItemsTyped DEF IInv
<1>1. TypeOK'
  BY <1>a DEF IInv, ResolveItems, TypeOK, data, writes, outside, Finished, InTransaction
<1>2. WritesFollowInsert'
  BY <1>a DEF IInv, ResolveItems, TypeOK, WritesFollowInsert, data, writes
<1>3. LinesLeft'
  BY <1>a DEF IInv, ResolveItems, TypeOK, LinesLeft, data
<1>4. StockHeld'
  BY StockKept, <1>a DEF IInv, ResolveItems, data, writes
<1>5. KeyHeld'
  BY KeyKept, <1>a DEF IInv, ResolveItems, data, writes
<1>6. OrdersOfEnded'
  BY DEF IInv, ResolveItems, TypeOK, OrdersOfEnded, Placeable, data
<1>7. ReplaySeen'
  BY ReplayKept DEF IInv, ResolveItems, TypeOK, data, writes
<1>8. OneOrderPerKey'
  BY DEF IInv, ResolveItems, OneOrderPerKey, data
<1>9. AnsweredOrderExists'
  BY AnswersKept DEF IInv, ResolveItems, TypeOK, data, writes
<1>10. LocksFollowItems'
  BY <1>a, ConstantsAssumption DEF IInv, ResolveItems, TypeOK, LocksFollowItems,
       InTransaction, ConstantsAssumption
<1> QED
  BY <1>1, <1>2, <1>3, <1>4, <1>5, <1>6, <1>7, <1>8, <1>9, <1>10 DEF IInv

\* Looking the customer up keeps the invariant.
LEMMA SelectCustomerKeeps == ASSUME IInv, NEW r \in Req, SelectCustomer(r) PROVE IInv'
<1>1. TypeOK'
  BY DEF IInv, SelectCustomer, TypeOK, data, writes, outside, Finished, InTransaction
<1>2. WritesFollowInsert'
  BY DEF IInv, SelectCustomer, TypeOK, WritesFollowInsert, data, writes
<1>3. LinesLeft'
  BY DEF IInv, SelectCustomer, TypeOK, LinesLeft, data
<1>4. StockHeld'
  BY StockKept DEF IInv, SelectCustomer, data, writes
<1>5. KeyHeld'
  BY KeyKept DEF IInv, SelectCustomer, data, writes
<1>6. OrdersOfEnded'
  BY DEF IInv, SelectCustomer, TypeOK, OrdersOfEnded, Placeable, data
<1>7. ReplaySeen'
  BY ReplayKept DEF IInv, SelectCustomer, TypeOK, data, writes
<1>8. OneOrderPerKey'
  BY DEF IInv, SelectCustomer, OneOrderPerKey, data
<1>9. AnsweredOrderExists'
  BY AnswersKept DEF IInv, SelectCustomer, TypeOK, data, writes
<1>10. LocksFollowItems'
  BY ConstantsAssumption DEF IInv, SelectCustomer, TypeOK, LocksFollowItems,
       InTransaction, ConstantsAssumption
<1> QED
  BY <1>1, <1>2, <1>3, <1>4, <1>5, <1>6, <1>7, <1>8, <1>9, <1>10 DEF IInv

\* Updating the customer row keeps the invariant: its lock is no product and no key.
LEMMA UpdateCustomerKeeps == ASSUME IInv, NEW r \in Req, UpdateCustomer(r) PROVE IInv'
<1>a. CustomerRow(request[r].email) \in Row
  BY RequestTyped, RowsTyped DEF IInv
<1>1. TypeOK'
  BY <1>a DEF IInv, UpdateCustomer, TypeOK, Goto, Free, Lock, data, writes, outside,
       Finished, InTransaction
<1>2. WritesFollowInsert'
  BY <1>a DEF IInv, UpdateCustomer, TypeOK, WritesFollowInsert, Goto, data, writes
<1>3. LinesLeft'
  BY <1>a DEF IInv, UpdateCustomer, TypeOK, LinesLeft, Goto, data
<1>4. StockHeld'
  BY StockKept, <1>a, RowsTyped, RowsDiffer DEF IInv, UpdateCustomer, TypeOK, Free, Lock,
       data, writes
<1>5. KeyHeld'
  BY KeyKept, <1>a, RowsTyped, RowsDiffer DEF IInv, UpdateCustomer, TypeOK, Free, Lock,
       data, writes
<1>6. OrdersOfEnded'
  BY DEF IInv, UpdateCustomer, TypeOK, OrdersOfEnded, Placeable, Goto, data
<1>7. ReplaySeen'
  BY ReplayKept DEF IInv, UpdateCustomer, TypeOK, Goto, data, writes
<1>8. OneOrderPerKey'
  BY DEF IInv, UpdateCustomer, OneOrderPerKey, data
<1>9. AnsweredOrderExists'
  BY AnswersKept DEF IInv, UpdateCustomer, TypeOK, Goto, data, writes
<1>10. LocksFollowItems'
  BY <1>a, ConstantsAssumption DEF IInv, UpdateCustomer, TypeOK, LocksFollowItems, Goto,
       Free, Lock, InTransaction, ConstantsAssumption
<1> QED
  BY <1>1, <1>2, <1>3, <1>4, <1>5, <1>6, <1>7, <1>8, <1>9, <1>10 DEF IInv

\* Inserting the customer row keeps the invariant.
LEMMA InsertCustomerKeeps == ASSUME IInv, NEW r \in Req, InsertCustomer(r) PROVE IInv'
<1>a. CustomerRow(request[r].email) \in Row
  BY RequestTyped, RowsTyped DEF IInv
<1>1. TypeOK'
  BY <1>a DEF IInv, InsertCustomer, TypeOK, Goto, Free, Lock, data, outside, Finished,
       InTransaction
<1>2. WritesFollowInsert'
  BY <1>a DEF IInv, InsertCustomer, TypeOK, WritesFollowInsert, Goto, data
<1>3. LinesLeft'
  BY <1>a DEF IInv, InsertCustomer, TypeOK, LinesLeft, Goto, data
<1>4. StockHeld'
  BY StockKept, <1>a, RowsTyped, RowsDiffer DEF IInv, InsertCustomer, TypeOK, Free, Lock,
       data
<1>5. KeyHeld'
  BY KeyKept, <1>a, RowsTyped, RowsDiffer DEF IInv, InsertCustomer, TypeOK, Free, Lock,
       data
<1>6. OrdersOfEnded'
  BY DEF IInv, InsertCustomer, TypeOK, OrdersOfEnded, Placeable, Goto, data
<1>7. ReplaySeen'
  BY ReplayKept DEF IInv, InsertCustomer, TypeOK, Goto, data
<1>8. OneOrderPerKey'
  BY DEF IInv, InsertCustomer, OneOrderPerKey, data
<1>9. AnsweredOrderExists'
  BY AnswersKept DEF IInv, InsertCustomer, TypeOK, Goto, data
<1>10. LocksFollowItems'
  BY <1>a, ConstantsAssumption DEF IInv, InsertCustomer, TypeOK, LocksFollowItems, Goto,
       Free, Lock, InTransaction, ConstantsAssumption
<1> QED
  BY <1>1, <1>2, <1>3, <1>4, <1>5, <1>6, <1>7, <1>8, <1>9, <1>10 DEF IInv

\* Looking the key up keeps the invariant: a replay has a committed order to answer
\* with.
LEMMA LookupKeeps == ASSUME IInv, NEW r \in Req, Lookup(r) PROVE IInv'
<1>a. CASE \E o \in Placed(request[r].key) : Replay(r, o) /\ pc' = [pc EXCEPT ![r] = "commit"]
  <2>1. PICK o \in Placed(request[r].key) : Replay(r, o) /\ pc' = [pc EXCEPT ![r] = "commit"]
    BY <1>a
  <2>2. o \in orders /\ o.id \in Req /\ o.payment \in PaymentColumns /\ o.key = request[r].key /\ o.key # NoKey
    BY PlacedTyped DEF IInv
  <2>4. TypeOK'
    BY <2>1, <2>2 DEF IInv, TypeOK, Lookup, Replay, data, outside, InTransaction, Finished
  <2>5. WritesFollowInsert'
    BY <2>1, <2>2 DEF IInv, TypeOK, Lookup, Replay, data, outside, WritesFollowInsert, InTransaction
  <2>6. LinesLeft'
    BY <2>1, <2>2 DEF IInv, TypeOK, Lookup, Replay, data, outside, LinesLeft
  <2>7. StockHeld'
    BY StockKept DEF IInv, Lookup, data
  <2>8. KeyHeld'
    BY KeyKept DEF IInv, Lookup, data
  <2>9. OrdersOfEnded'
    BY <2>1 DEF IInv, Lookup, OrdersOfEnded, TypeOK, data, Placeable
  <2>10. ReplaySeen'
    <3> SUFFICES ASSUME NEW q \in Req, pc'[q] = "commit", ~inserted'[q]
             PROVE  \E x \in orders' : /\ x.id = answer'[q] /\ x.key = request'[q].key
                                      /\ x.payment = payment'[q] /\ x.key # NoKey
       BY DEF ReplaySeen
    <3>1. CASE q = r
      BY <3>1, <2>1, <2>2 DEF Lookup, Replay, data, IInv, TypeOK
    <3>2. CASE q # r
      BY <3>2, <2>1 DEF Lookup, Replay, data, IInv, TypeOK, ReplaySeen
    <3> QED BY <3>1, <3>2
  <2>11. OneOrderPerKey'
    BY DEF IInv, Lookup, OneOrderPerKey, data
  <2>12. AnsweredOrderExists'
    BY <2>1, AnswersKept DEF IInv, TypeOK, Lookup, Replay, data
  <2>13. LocksFollowItems'
    BY <2>1, ConstantsAssumption DEF IInv, TypeOK, Lookup, ConstantsAssumption, LocksFollowItems, InTransaction
  <2> QED BY <2>4, <2>5, <2>6, <2>7, <2>8, <2>9, <2>10, <2>11, <2>12, <2>13 DEF IInv
<1>b. CASE pc' = [pc EXCEPT ![r] = IF request[r].coupon THEN "coupon" ELSE "insert"] /\ UNCHANGED <<answer, payment>>
  <2>4. TypeOK'
    BY <1>b DEF IInv, TypeOK, Lookup, data, outside, InTransaction, Finished
  <2>5. WritesFollowInsert'
    BY <1>b DEF IInv, TypeOK, Lookup, data, outside, WritesFollowInsert
  <2>6. LinesLeft'
    BY <1>b DEF IInv, TypeOK, Lookup, data, outside, LinesLeft
  <2>7. StockHeld'
    BY StockKept DEF IInv, Lookup, data
  <2>8. KeyHeld'
    BY KeyKept DEF IInv, Lookup, data
  <2>9. OrdersOfEnded'
    BY <1>b DEF IInv, Lookup, OrdersOfEnded, TypeOK, data, Placeable
  <2>10. ReplaySeen'
    BY <1>b, ReplayKept DEF IInv, TypeOK, Lookup, data
  <2>11. OneOrderPerKey'
    BY DEF IInv, Lookup, OneOrderPerKey, data
  <2>12. AnsweredOrderExists'
    BY <1>b, AnswersKept DEF IInv, TypeOK, Lookup, data
  <2>13. LocksFollowItems'
    BY <1>b, ConstantsAssumption DEF IInv, TypeOK, Lookup, ConstantsAssumption, LocksFollowItems, InTransaction
  <2> QED BY <2>4, <2>5, <2>6, <2>7, <2>8, <2>9, <2>10, <2>11, <2>12, <2>13 DEF IInv
<1> QED BY <1>a, <1>b DEF Lookup

\* Reading the coupon keeps the invariant.
LEMMA ReadCouponKeeps == ASSUME IInv, NEW r \in Req, ReadCoupon(r) PROVE IInv'
<1>1. TypeOK'
  BY DEF IInv, ReadCoupon, TypeOK, data, writes, outside, Finished, InTransaction
<1>2. WritesFollowInsert'
  BY DEF IInv, ReadCoupon, TypeOK, WritesFollowInsert, data, writes
<1>3. LinesLeft'
  BY DEF IInv, ReadCoupon, TypeOK, LinesLeft, data
<1>4. StockHeld'
  BY StockKept DEF IInv, ReadCoupon, data, writes
<1>5. KeyHeld'
  BY KeyKept DEF IInv, ReadCoupon, data, writes
<1>6. OrdersOfEnded'
  BY DEF IInv, ReadCoupon, TypeOK, OrdersOfEnded, Placeable, data
<1>7. ReplaySeen'
  BY ReplayKept DEF IInv, ReadCoupon, TypeOK, data, writes
<1>8. OneOrderPerKey'
  BY DEF IInv, ReadCoupon, OneOrderPerKey, data
<1>9. AnsweredOrderExists'
  BY AnswersKept DEF IInv, ReadCoupon, TypeOK, data, writes
<1>10. LocksFollowItems'
  BY ConstantsAssumption DEF IInv, ReadCoupon, TypeOK, LocksFollowItems, InTransaction,
       ConstantsAssumption
<1> QED
  BY <1>1, <1>2, <1>3, <1>4, <1>5, <1>6, <1>7, <1>8, <1>9, <1>10 DEF IInv

\* Counting the coupon use keeps the invariant.
LEMMA BumpCouponKeeps == ASSUME IInv, NEW r \in Req, BumpCoupon(r) PROVE IInv'
<1>a. CouponRow \in Row
  BY RequestTyped, RowsTyped DEF IInv
<1>1. TypeOK'
  BY <1>a DEF IInv, BumpCoupon, TypeOK, Goto, Free, Lock, data, outside, Finished,
       InTransaction
<1>2. WritesFollowInsert'
  BY <1>a DEF IInv, BumpCoupon, TypeOK, WritesFollowInsert, Goto, data
<1>3. LinesLeft'
  BY <1>a DEF IInv, BumpCoupon, TypeOK, LinesLeft, Goto, data
<1>4. StockHeld'
  BY StockKept, <1>a, RowsTyped, RowsDiffer DEF IInv, BumpCoupon, TypeOK, Free, Lock, data
<1>5. KeyHeld'
  BY KeyKept, <1>a, RowsTyped, RowsDiffer DEF IInv, BumpCoupon, TypeOK, Free, Lock, data
<1>6. OrdersOfEnded'
  BY DEF IInv, BumpCoupon, TypeOK, OrdersOfEnded, Placeable, Goto, data
<1>7. ReplaySeen'
  BY ReplayKept DEF IInv, BumpCoupon, TypeOK, Goto, data
<1>8. OneOrderPerKey'
  BY DEF IInv, BumpCoupon, OneOrderPerKey, data
<1>9. AnsweredOrderExists'
  BY AnswersKept DEF IInv, BumpCoupon, TypeOK, Goto, data
<1>10. LocksFollowItems'
  BY <1>a, ConstantsAssumption DEF IInv, BumpCoupon, TypeOK, LocksFollowItems, Goto, Free,
       Lock, InTransaction, ConstantsAssumption
<1> QED
  BY <1>1, <1>2, <1>3, <1>4, <1>5, <1>6, <1>7, <1>8, <1>9, <1>10 DEF IInv

\* The INSERT keeps the invariant, whether the key is free or refused.
LEMMA InsertOrderKeeps == ASSUME IInv, NEW r \in Req, InsertOrder(r) PROVE IInv'
<1> DEFINE k == request[r].key
<1>0. k \in Key \cup {NoKey}
  BY RequestTyped DEF IInv
<1>1. CASE /\ Placed(k) = {}
           /\ inserted' = [inserted EXCEPT ![r] = TRUE]
           /\ owner' = IF k = NoKey THEN owner ELSE [owner EXCEPT ![KeyRow(k)] = r]
           /\ answer' = [answer EXCEPT ![r] = r]
           /\ pc' = [pc EXCEPT ![r] = "items"]
           /\ UNCHANGED <<taken, couponHeld, newCustomer, payment>>
  <2>0. /\ pc[r] = "insert"
        /\ k # NoKey => KeyRow(k) \in Row /\ owner[KeyRow(k)] \in {NoReq, r}
    BY <1>0, RowsTyped DEF InsertOrder, Free
  <2>1. TypeOK'
    <3>1. owner' \in [Row -> Req \cup {NoReq}]
      BY <1>1, <2>0 DEF IInv, TypeOK
    <3> QED
      BY <1>1, <3>1 DEF IInv, TypeOK, InsertOrder, data, outside, InTransaction, Finished
  <2>2. WritesFollowInsert'
    BY <1>1 DEF IInv, TypeOK, WritesFollowInsert, InsertOrder
  <2>3. LinesLeft'
    <3>1. Len(lines[r]) >= 1
      BY <2>0 DEF IInv, TypeOK, LinesLeft
    <3> QED
      BY <1>1, <2>0, <3>1 DEF IInv, TypeOK, LinesLeft, InsertOrder, data
  <2>4. StockHeld'
    BY <1>1, <2>0, <1>0, RowsTyped, RowsDiffer, StockKept DEF IInv, TypeOK, InsertOrder, data
  <2>5. KeyHeld'
    <3> SUFFICES ASSUME NEW q \in Req, inserted'[q], request[q].key # NoKey
                 PROVE  owner'[KeyRow(request[q].key)] = q /\ Placed(request[q].key) = {}
      BY DEF KeyHeld, Placed, InsertOrder, data
    <3>1. CASE q = r
      BY <3>1, <1>1, <2>0 DEF IInv, TypeOK
    <3>2. CASE q # r
      <4>1. owner[KeyRow(request[q].key)] = q /\ Placed(request[q].key) = {}
        BY <3>2, <1>1 DEF IInv, TypeOK, KeyHeld
      <4>2. k # NoKey => KeyRow(k) # KeyRow(request[q].key)
        BY <3>2, <4>1, <2>0, ConstantsAssumption DEF ConstantsAssumption
      <4>3. KeyRow(request[q].key) \in Row
        BY RowsTyped, RequestTyped DEF IInv
      <4> QED
        BY <1>1, <2>0, <4>1, <4>2, <4>3 DEF IInv, TypeOK
    <3> QED
      BY <3>1, <3>2
  <2>6. OrdersOfEnded'
    BY <1>1, <2>0 DEF IInv, TypeOK, OrdersOfEnded, Placeable, InsertOrder, data
  <2>7. ReplaySeen'
    BY <1>1, ReplayKept DEF IInv, TypeOK, InsertOrder, data
  <2>8. OneOrderPerKey'
    BY DEF IInv, OneOrderPerKey, InsertOrder, data
  <2>9. AnsweredOrderExists'
    BY <1>1, AnswersKept DEF IInv, TypeOK, InsertOrder, data
  <2>10. LocksFollowItems'
    BY <1>1, <2>0, ConstantsAssumption
       DEF IInv, TypeOK, LocksFollowItems, InTransaction, ConstantsAssumption
  <2> QED
    BY <2>1, <2>2, <2>3, <2>4, <2>5, <2>6, <2>7, <2>8, <2>9, <2>10 DEF IInv
<1>2. CASE Discard(r) /\ pc' = [pc EXCEPT ![r] = "relookup"] /\ UNCHANGED answer
  <2>1. TypeOK'
    BY <1>2, ConstantsAssumption DEF IInv, TypeOK, InsertOrder, Discard, Released, Nothing,
       Unpaid, PaymentColumns, InTransaction, Finished, data, outside
  <2>2. WritesFollowInsert'
    BY <1>2 DEF IInv, TypeOK, WritesFollowInsert, Discard
  <2>3. LinesLeft'
    BY <1>2 DEF IInv, TypeOK, LinesLeft, InsertOrder, data
  <2>4. StockHeld' /\ KeyHeld'
    BY <1>2, DiscardKeeps DEF InsertOrder, data
  <2>6. OrdersOfEnded'
    BY <1>2 DEF IInv, TypeOK, OrdersOfEnded, Placeable, InsertOrder, data
  <2>7. ReplaySeen'
    BY <1>2, ReplayKept DEF IInv, TypeOK, InsertOrder, Discard, data
  <2>8. OneOrderPerKey'
    BY DEF IInv, OneOrderPerKey, InsertOrder, data
  <2>9. AnsweredOrderExists'
    BY <1>2, AnswersKept DEF IInv, TypeOK, InsertOrder, Discard, data
  <2>10. LocksFollowItems'
    BY <1>2, ConstantsAssumption DEF IInv, TypeOK, LocksFollowItems, Discard, Released,
       InTransaction, ConstantsAssumption
  <2> QED
    BY <2>1, <2>2, <2>3, <2>4, <2>6, <2>7, <2>8, <2>9, <2>10 DEF IInv
<1> QED
  BY <1>1, <1>2 DEF InsertOrder

\* The lookup after a refused INSERT keeps the invariant.
LEMMA RelookupKeeps == ASSUME IInv, NEW r \in Req, Relookup(r) PROVE IInv'
<1>a. PICK o \in Placed(request[r].key) : Replay(r, o)
  BY DEF Relookup
<1>b. /\ o \in orders /\ o.id \in Req /\ o.payment \in PaymentColumns
      /\ o.key = request[r].key /\ o.key # NoKey
  BY PlacedTyped DEF IInv
<1>1. TypeOK'
  BY <1>a, <1>b DEF IInv, TypeOK, Relookup, Replay, Goto, data, outside, InTransaction, Finished
<1>2. WritesFollowInsert'
  BY <1>a, <1>b DEF IInv, TypeOK, WritesFollowInsert, Relookup, Replay, Goto, data
<1>3. LinesLeft'
  BY DEF IInv, TypeOK, LinesLeft, Relookup, Goto, data
<1>4. StockHeld'
  BY StockKept DEF IInv, Relookup, data
<1>5. KeyHeld'
  BY KeyKept DEF IInv, Relookup, data
<1>6. OrdersOfEnded'
  BY DEF IInv, TypeOK, OrdersOfEnded, Placeable, Relookup, Goto, data
<1>7. ReplaySeen'
  <2> SUFFICES ASSUME NEW q \in Req, pc'[q] = "commit", ~inserted'[q]
               PROVE  \E x \in orders' : /\ x.id = answer'[q] /\ x.key = request'[q].key
                                         /\ x.payment = payment'[q] /\ x.key # NoKey
    BY DEF ReplaySeen
  <2>1. CASE q = r
    BY <2>1, <1>a, <1>b DEF IInv, TypeOK, Relookup, Replay, data
  <2>2. CASE q # r
    BY <2>2, <1>a DEF IInv, TypeOK, ReplaySeen, Relookup, Replay, Goto, data
  <2> QED
    BY <2>1, <2>2
<1>8. OneOrderPerKey'
  BY DEF IInv, OneOrderPerKey, Relookup, data
<1>9. AnsweredOrderExists'
  BY <1>a, AnswersKept DEF IInv, TypeOK, Relookup, Replay, Goto, data
<1>10. LocksFollowItems'
  BY ConstantsAssumption
     DEF IInv, TypeOK, LocksFollowItems, Relookup, Goto, InTransaction, ConstantsAssumption
<1> QED
  BY <1>1, <1>2, <1>3, <1>4, <1>5, <1>6, <1>7, <1>8, <1>9, <1>10 DEF IInv

\* Writing a line keeps the invariant: it takes stock that is there, under the row's
\* lock.
LEMMA WriteLineKeeps == ASSUME IInv, NEW r \in Req, WriteLine(r) PROVE IInv'
<1> DEFINE line == lines[r][nextLine[r]]
           row  == ProductRow(line.product)
<1>a. line \in Line
  <2>1. lines[r] \in Seq(Line) /\ nextLine[r] \in 1 .. Len(lines[r])
    BY DEF IInv, TypeOK, LinesLeft, WriteLine
  <2> QED
    BY <2>1
<1>b. line.product \in Product /\ line.quantity \in Nat
  BY <1>a, ConstantsAssumption DEF Line, ConstantsAssumption
<1>c. row \in Row
  BY <1>b, RowsTyped
<1>d. TakenBy(r, line) \in Nat /\ TakenBy(r, line) <= stock[line.product] - taken[r][line.product]
  BY <1>b DEF IInv, TypeOK, StockHeld, TakenBy
<1>e. /\ owner[row] \in {NoReq, r}
      /\ owner' = [owner EXCEPT ![row] = r]
      /\ taken' = [taken EXCEPT ![r] = [taken[r] EXCEPT ![line.product] = @ + TakenBy(r, line)]]
  BY DEF WriteLine, Free, Lock
<1> HIDE DEF line, row
<1>1. TypeOK'
  <2>1. taken' \in [Req -> [Product -> Nat]]
    BY <1>b, <1>d, <1>e DEF IInv, TypeOK
  <2>2. owner' \in [Row -> Req \cup {NoReq}]
    BY <1>c, <1>e DEF IInv, TypeOK
  <2> QED
    BY <2>1, <2>2 DEF IInv, TypeOK, WriteLine, data, outside, InTransaction, Finished
<1>2. WritesFollowInsert'
  BY <1>e DEF IInv, TypeOK, WritesFollowInsert, WriteLine, data
<1>3. LinesLeft'
  BY DEF IInv, TypeOK, LinesLeft, WriteLine, data
<1>4. StockHeld'
  <2> SUFFICES ASSUME NEW q \in Req, NEW p \in Product
               PROVE  /\ taken'[q][p] <= stock[p]
                      /\ taken'[q][p] # 0 => owner'[ProductRow(p)] = q
    BY DEF StockHeld, WriteLine, data
  <2>0. ProductRow(p) \in Row
    BY RowsTyped
  <2>1. CASE q = r /\ p = line.product
    BY <2>0, <2>1, <1>b, <1>c, <1>d, <1>e DEF IInv, TypeOK, row
  <2>2. CASE q = r /\ p # line.product
    BY <2>0, <2>2, <1>b, <1>c, <1>e, RowsDiffer DEF IInv, TypeOK, StockHeld, row
  <2>3. CASE q # r
    <3>1. taken'[q][p] = taken[q][p]
      BY <2>3, <1>e DEF IInv, TypeOK
    <3>2. taken[q][p] # 0 => ProductRow(p) # row
      BY <2>3, <1>e, ConstantsAssumption DEF IInv, StockHeld, ConstantsAssumption
    <3> QED
      BY <2>0, <3>1, <3>2, <1>c, <1>e DEF IInv, TypeOK, StockHeld
  <2> QED
    BY <2>1, <2>2, <2>3
<1>5. KeyHeld'
  BY <1>c, <1>e, RowsTyped, RowsDiffer, KeyKept DEF IInv, TypeOK, WriteLine, data, row
<1>6. OrdersOfEnded'
  BY DEF IInv, TypeOK, OrdersOfEnded, Placeable, WriteLine, data
<1>7. ReplaySeen'
  BY ReplayKept DEF IInv, TypeOK, WriteLine, data
<1>8. OneOrderPerKey'
  BY DEF IInv, OneOrderPerKey, WriteLine, data
<1>9. AnsweredOrderExists'
  BY AnswersKept DEF IInv, TypeOK, WriteLine, data
<1>10. LocksFollowItems'
  BY <1>c, <1>e, ConstantsAssumption
     DEF IInv, TypeOK, LocksFollowItems, WriteLine, InTransaction, ConstantsAssumption
<1> QED
  BY <1>1, <1>2, <1>3, <1>4, <1>5, <1>6, <1>7, <1>8, <1>9, <1>10 DEF IInv

\* Deleting the cart keeps the invariant.
LEMMA ClearCartKeeps == ASSUME IInv, NEW r \in Req, ClearCart(r) PROVE IInv'
<1>1. TypeOK'
  <2>1. pc' \in [Req -> InTransaction \cup {"idle", "crm"} \cup Finished]
    BY DEF IInv, TypeOK, ClearCart, InTransaction
  <2>2. owner' \in [Row -> Req \cup {NoReq}]
    BY DEF IInv, TypeOK, ClearCart, Lock
  <2>3. cleared' \in [Req -> Nat]
    BY RequestTyped DEF IInv, TypeOK, ClearCart
  <2>4. UNCHANGED <<request, data, lines, nextLine, taken, couponHeld, newCustomer, inserted,
                    payment, answer, outside>>
    BY DEF ClearCart
  <2> QED
    BY <2>1, <2>2, <2>3, <2>4 DEF IInv, TypeOK, data, outside
<1>2. WritesFollowInsert'
  BY DEF IInv, ClearCart, TypeOK, WritesFollowInsert, data, writes
<1>3. LinesLeft'
  BY DEF IInv, ClearCart, TypeOK, LinesLeft, data
<1>4. StockHeld'
  BY StockKept, RowsTyped, RowsDiffer DEF IInv, ClearCart, TypeOK, Free, Lock, data,
       writes
<1>5. KeyHeld'
  BY KeyKept, RowsTyped, RowsDiffer DEF IInv, ClearCart, TypeOK, Free, Lock, data, writes
<1>6. OrdersOfEnded'
  BY DEF IInv, ClearCart, TypeOK, OrdersOfEnded, Placeable, data
<1>7. ReplaySeen'
  BY ReplayKept DEF IInv, ClearCart, TypeOK, data, writes, WritesFollowInsert
<1>8. OneOrderPerKey'
  BY DEF IInv, ClearCart, OneOrderPerKey, data
<1>9. AnsweredOrderExists'
  BY AnswersKept DEF IInv, ClearCart, TypeOK, data, writes
<1>10. LocksFollowItems'
  <2> SUFFICES ASSUME NEW row \in Row, owner'[row] # NoReq
               PROVE  pc'[owner'[row]] \in InTransaction \ {"cart", "raise", "append"}
    BY DEF LocksFollowItems
  <2>1. pc'[r] \in InTransaction \ {"cart", "raise", "append"}
    BY DEF IInv, ClearCart, TypeOK, InTransaction
  <2>2. CASE owner'[row] = r
    BY <2>1, <2>2
  <2>3. CASE owner'[row] # r
    <3>1. owner'[row] = owner[row]
      BY <2>3, RequestTyped, RowsTyped DEF IInv, TypeOK, ClearCart, Lock
    <3> QED
      BY <2>3, <3>1 DEF IInv, TypeOK, ClearCart, LocksFollowItems
  <2> QED
    BY <2>2, <2>3
<1> QED
  BY <1>1, <1>2, <1>3, <1>4, <1>5, <1>6, <1>7, <1>8, <1>9, <1>10 DEF IInv

\* The gateway call keeps the invariant.
LEMMA AuthorizeKeeps == ASSUME IInv, NEW r \in Req, Authorize(r) PROVE IInv'
<1>1. TypeOK'
  <2>1. payment' \in [Req -> PaymentColumns] /\ authorized' \subseteq Req
    BY ColumnsTyped DEF IInv, TypeOK, Authorize
  <2> QED
    BY <2>1 DEF IInv, TypeOK, Authorize, Goto, data, Finished, InTransaction
<1>2. WritesFollowInsert'
  BY DEF IInv, Authorize, TypeOK, WritesFollowInsert, Goto, data
<1>3. LinesLeft'
  BY DEF IInv, Authorize, TypeOK, LinesLeft, Goto, data
<1>4. StockHeld'
  BY StockKept DEF IInv, Authorize, data
<1>5. KeyHeld'
  BY KeyKept DEF IInv, Authorize, data
<1>6. OrdersOfEnded'
  BY DEF IInv, Authorize, TypeOK, OrdersOfEnded, Placeable, Goto, data
<1>7. ReplaySeen'
  BY ReplayKept DEF IInv, Authorize, TypeOK, Goto, data, WritesFollowInsert
<1>8. OneOrderPerKey'
  BY DEF IInv, Authorize, OneOrderPerKey, data
<1>9. AnsweredOrderExists'
  BY AnswersKept DEF IInv, Authorize, TypeOK, Goto, data
<1>10. LocksFollowItems'
  BY ConstantsAssumption DEF IInv, Authorize, TypeOK, LocksFollowItems, Goto,
       InTransaction, ConstantsAssumption
<1> QED
  BY <1>1, <1>2, <1>3, <1>4, <1>5, <1>6, <1>7, <1>8, <1>9, <1>10 DEF IInv

\* The call of the sidecar keeps the invariant.
LEMMA AskSidecarKeeps == ASSUME IInv, NEW r \in Req, AskSidecar(r) PROVE IInv'
<1>1. TypeOK'
  <2>1. payment' \in [Req -> PaymentColumns] /\ authorized' \subseteq Req
    BY ColumnsTyped DEF IInv, TypeOK, AskSidecar
  <2> QED
    BY <2>1 DEF IInv, TypeOK, AskSidecar, Goto, data, Finished, InTransaction
<1>2. WritesFollowInsert'
  BY DEF IInv, AskSidecar, TypeOK, WritesFollowInsert, Goto, data
<1>3. LinesLeft'
  BY DEF IInv, AskSidecar, TypeOK, LinesLeft, Goto, data
<1>4. StockHeld'
  BY StockKept DEF IInv, AskSidecar, data
<1>5. KeyHeld'
  BY KeyKept DEF IInv, AskSidecar, data
<1>6. OrdersOfEnded'
  BY DEF IInv, AskSidecar, TypeOK, OrdersOfEnded, Placeable, Goto, data
<1>7. ReplaySeen'
  BY ReplayKept DEF IInv, AskSidecar, TypeOK, Goto, data, WritesFollowInsert
<1>8. OneOrderPerKey'
  BY DEF IInv, AskSidecar, OneOrderPerKey, data
<1>9. AnsweredOrderExists'
  BY AnswersKept DEF IInv, AskSidecar, TypeOK, Goto, data
<1>10. LocksFollowItems'
  BY ConstantsAssumption DEF IInv, AskSidecar, TypeOK, LocksFollowItems, Goto,
       InTransaction, ConstantsAssumption
<1> QED
  BY <1>1, <1>2, <1>3, <1>4, <1>5, <1>6, <1>7, <1>8, <1>9, <1>10 DEF IInv

\* The commit keeps the invariant: no other transaction holds the stock or the key it
\* publishes.
LEMMA CommitKeeps == ASSUME IInv, NEW r \in Req, Commit(r) PROVE IInv'
<1>a. pc[r] = "commit" /\ pc' = [pc EXCEPT ![r] = "crm"]
  BY DEF Commit, Goto
<1>b. OrderOf(r) \in Placeable
  BY RequestTyped DEF IInv, TypeOK, OrderOf, Placeable
<1>c. inserted[r] => answer[r] = r
  BY DEF IInv, WritesFollowInsert
<1>1. TypeOK'
  <2>1. orders' \subseteq Placeable
    BY <1>b DEF IInv, TypeOK, Commit
  <2>2. stock' \in [Product -> Nat]
    BY DEF IInv, TypeOK, StockHeld, Commit
  <2>3. customers' \subseteq Email /\ couponUsed' \in Nat
    BY RequestTyped DEF IInv, TypeOK, Commit
  <2>4. carts' \in [Session -> Seq(Line)]
    BY RequestTyped, RestTyped DEF IInv, TypeOK, Commit, CartsAfter
  <2>5. owner' \in [Row -> Req \cup {NoReq}]
    BY DEF IInv, TypeOK, Commit, Released
  <2>6. taken' \in [Req -> [Product -> Nat]]
    BY DEF IInv, TypeOK, Commit, Nothing
  <2> QED
    BY <2>1, <2>2, <2>3, <2>4, <2>5, <2>6
       DEF IInv, TypeOK, Commit, Goto, outside, InTransaction, Finished
<1>2. WritesFollowInsert'
  BY DEF IInv, TypeOK, WritesFollowInsert, Commit, Goto
<1>3. LinesLeft'
  BY DEF IInv, TypeOK, LinesLeft, Commit, Goto
<1>4. StockHeld'
  <2> SUFFICES ASSUME NEW q \in Req, NEW p \in Product
               PROVE  /\ taken'[q][p] <= stock'[p]
                      /\ taken'[q][p] # 0 => owner'[ProductRow(p)] = q
    BY DEF StockHeld
  <2>0. /\ stock'[p] = stock[p] - taken[r][p]
        /\ stock[p] \in Nat /\ taken[r][p] \in Nat /\ taken[q][p] \in Nat
    BY DEF IInv, TypeOK, Commit
  <2>1. CASE q = r
    BY <2>0, <2>1 DEF IInv, TypeOK, StockHeld, Commit, Nothing
  <2>2. CASE q # r
    <3>1. taken'[q][p] = taken[q][p]
      BY <2>2 DEF IInv, TypeOK, Commit
    <3>2. taken[q][p] # 0 => taken[r][p] = 0
      BY <2>2 DEF IInv, StockHeld
    <3> QED
      BY <2>0, <2>2, <3>1, <3>2, RowsTyped DEF IInv, TypeOK, StockHeld, Commit, Released
  <2> QED
    BY <2>1, <2>2
<1>5. KeyHeld'
  <2> SUFFICES ASSUME NEW q \in Req, inserted'[q], request[q].key # NoKey
               PROVE  owner'[KeyRow(request[q].key)] = q /\ Placed(request[q].key)' = {}
    BY DEF KeyHeld, Placed, Commit
  <2>1. q # r /\ inserted[q]
    BY DEF IInv, TypeOK, Commit
  <2>2. owner[KeyRow(request[q].key)] = q /\ Placed(request[q].key) = {}
    BY <2>1 DEF IInv, KeyHeld
  <2>3. inserted[r] => request[r].key # request[q].key
    BY <2>1, <2>2 DEF IInv, KeyHeld
  <2>4. Placed(request[q].key)' = {}
    BY <2>2, <2>3 DEF Commit, Placed, OrderOf
  <2>5. KeyRow(request[q].key) \in Row
    BY RowsTyped, RequestTyped DEF IInv
  <2> QED
    BY <2>1, <2>2, <2>4, <2>5 DEF Commit, Released
<1>6. OrdersOfEnded'
  BY DEF IInv, TypeOK, OrdersOfEnded, Placeable, OrderOf, Commit, Goto
<1>7. ReplaySeen'
  <2> SUFFICES ASSUME NEW q \in Req, pc'[q] = "commit", ~inserted'[q]
               PROVE  \E x \in orders' : /\ x.id = answer'[q] /\ x.key = request'[q].key
                                         /\ x.payment = payment'[q] /\ x.key # NoKey
    BY DEF ReplaySeen
  <2>1. q # r
    BY <1>a DEF IInv, TypeOK
  <2> QED
    BY <2>1, <1>a DEF IInv, TypeOK, ReplaySeen, Commit
<1>8. OneOrderPerKey'
  <2>1. inserted[r] /\ request[r].key # NoKey => \A o \in orders : o.key # request[r].key
    BY DEF IInv, KeyHeld, Placed
  <2> QED
    BY <2>1 DEF IInv, OneOrderPerKey, Commit, OrderOf
<1>9. AnsweredOrderExists'
  <2> SUFFICES ASSUME NEW q \in Req, pc'[q] \in {"crm", "done"}
               PROVE  \E o \in orders' : /\ o.id = answer[q] /\ o.key = request[q].key
                                         /\ o.payment = payment[q]
                                         /\ o.id = q \/ o.key # NoKey
    BY DEF AnsweredOrderExists, Commit
  <2>1. CASE q = r /\ inserted[r]
    <3>1. OrderOf(r) \in orders'
      BY <2>1 DEF Commit
    <3> QED
      BY <2>1, <3>1, <1>c DEF OrderOf
  <2>2. CASE q = r /\ ~inserted[r]
    BY <2>2, <1>a DEF IInv, ReplaySeen, Commit
  <2>3. CASE q # r
    <3>1. PICK o \in orders : /\ o.id = answer[q] /\ o.key = request[q].key
                              /\ o.payment = payment[q]
                              /\ o.id = q \/ o.key # NoKey
      BY <2>3, <1>a DEF IInv, TypeOK, AnsweredOrderExists
    <3> QED
      BY <3>1 DEF Commit
  <2> QED
    BY <2>1, <2>2, <2>3
<1>10. LocksFollowItems'
  BY <1>a, ConstantsAssumption
     DEF IInv, TypeOK, LocksFollowItems, Commit, Released, InTransaction, ConstantsAssumption
<1> QED
  BY <1>1, <1>2, <1>3, <1>4, <1>5, <1>6, <1>7, <1>8, <1>9, <1>10 DEF IInv

\* Telling the CRM keeps the invariant.
LEMMA SyncOrderKeeps == ASSUME IInv, NEW r \in Req, SyncOrder(r) PROVE IInv'
<1>a. PICK o \in orders : /\ o.id = answer[r] /\ o.key = request[r].key /\ o.payment = payment[r]
                          /\ o.id = r \/ o.key # NoKey
  BY DEF IInv, SyncOrder, Goto, AnsweredOrderExists
<1>1. TypeOK'
  <2>1. [id |-> answer[r], payment_status |-> payment[r].payment_status]
          \in [id: Req, payment_status: {"pending", "paid", "failed"}]
    BY <1>a DEF IInv, TypeOK, Placeable, PaymentColumns
  <2> QED
    BY <2>1 DEF IInv, SyncOrder, TypeOK, Goto, data, writes, Finished, InTransaction
<1>2. WritesFollowInsert'
  BY DEF IInv, SyncOrder, TypeOK, WritesFollowInsert, Goto, data, writes
<1>3. LinesLeft'
  BY DEF IInv, SyncOrder, TypeOK, LinesLeft, Goto, data
<1>4. StockHeld'
  BY StockKept DEF IInv, SyncOrder, data, writes
<1>5. KeyHeld'
  BY KeyKept DEF IInv, SyncOrder, data, writes
<1>6. OrdersOfEnded'
  BY DEF IInv, SyncOrder, TypeOK, OrdersOfEnded, Placeable, Goto, data
<1>7. ReplaySeen'
  BY ReplayKept DEF IInv, SyncOrder, TypeOK, Goto, data, writes
<1>8. OneOrderPerKey'
  BY DEF IInv, SyncOrder, OneOrderPerKey, data
<1>9. AnsweredOrderExists'
  BY DEF IInv, TypeOK, SyncOrder, Goto, data, writes, AnsweredOrderExists
<1>10. LocksFollowItems'
  BY ConstantsAssumption DEF IInv, SyncOrder, TypeOK, LocksFollowItems, Goto,
       InTransaction, ConstantsAssumption
<1> QED
  BY <1>1, <1>2, <1>3, <1>4, <1>5, <1>6, <1>7, <1>8, <1>9, <1>10 DEF IInv

\* A cart's request is about a session and a line.
LEMMA CartRequestTyped ==
  ASSUME IInv, NEW r \in Req, OfCart(r)
  PROVE  /\ request[r].session \in Session /\ request[r].payload[1] \in Line
         /\ carts[request[r].session] \in Seq(Line)
<1>1. request[r].session \in Session /\ request[r].payload \in Seq(Line) \ {<<>>}
  BY DEF IInv, TypeOK, Request, OfCart
<1>2. request[r].payload[1] \in Line
  BY <1>1
<1> QED
  BY <1>1, <1>2 DEF IInv, TypeOK

\* The end of a cart's request keeps the invariant: it touches nothing but the cart.
LEMMA BecomesKeeps ==
  ASSUME IInv, NEW r \in Req, NEW c \in Seq(Line), Becomes(r, c), OfCart(r),
         pc[r] \in {"idle", "raise", "append"}
  PROVE  IInv'
<1>a. request[r].session \in Session
  BY CartRequestTyped
<1>1. TypeOK'
  BY <1>a DEF IInv, Becomes, TypeOK, writes, outside, Finished, InTransaction
<1>2. WritesFollowInsert'
  BY DEF IInv, Becomes, TypeOK, WritesFollowInsert, writes
<1>3. LinesLeft'
  BY DEF IInv, Becomes, TypeOK, LinesLeft
<1>4. StockHeld'
  BY StockKept DEF IInv, Becomes, writes
<1>5. KeyHeld'
  BY KeyKept DEF IInv, Becomes, writes
<1>6. OrdersOfEnded'
  BY DEF IInv, Becomes, TypeOK, OrdersOfEnded, Placeable
<1>7. ReplaySeen'
  BY ReplayKept DEF IInv, Becomes, TypeOK, writes
<1>8. OneOrderPerKey'
  BY DEF IInv, Becomes, OneOrderPerKey
<1>9. AnsweredOrderExists'
  BY AnswersKept DEF IInv, Becomes, TypeOK, writes
<1>10. LocksFollowItems'
  <2> SUFFICES ASSUME NEW row \in Row, owner[row] # NoReq
               PROVE  pc'[owner[row]] \in InTransaction \ {"cart", "raise", "append"}
    BY DEF LocksFollowItems, Becomes
  <2>1. /\ owner[row] \in Req
        /\ pc[owner[row]] \in InTransaction \ {"cart", "raise", "append"}
    BY DEF IInv, TypeOK, LocksFollowItems
  <2>2. owner[row] # r
    BY <2>1 DEF InTransaction
  <2> QED
    BY <2>1, <2>2 DEF IInv, TypeOK, Becomes
<1> QED
  BY <1>1, <1>2, <1>3, <1>4, <1>5, <1>6, <1>7, <1>8, <1>9, <1>10 DEF IInv

\* Looking for the product's line keeps the invariant.
LEMMA FindLineKeeps == ASSUME IInv, NEW r \in Req, FindLine(r) PROVE IInv'
<1>1. TypeOK'
  BY DEF IInv, FindLine, TypeOK, data, writes, outside, Finished, InTransaction
<1>2. WritesFollowInsert'
  BY DEF IInv, FindLine, TypeOK, WritesFollowInsert, data, writes
<1>3. LinesLeft'
  BY DEF IInv, FindLine, TypeOK, LinesLeft, data
<1>4. StockHeld'
  BY StockKept DEF IInv, FindLine, data, writes
<1>5. KeyHeld'
  BY KeyKept DEF IInv, FindLine, data, writes
<1>6. OrdersOfEnded'
  BY DEF IInv, FindLine, TypeOK, OrdersOfEnded, Placeable, data
<1>7. ReplaySeen'
  BY ReplayKept DEF IInv, FindLine, TypeOK, data, writes
<1>8. OneOrderPerKey'
  BY DEF IInv, FindLine, OneOrderPerKey, data
<1>9. AnsweredOrderExists'
  BY AnswersKept DEF IInv, FindLine, TypeOK, data, writes
<1>10. LocksFollowItems'
  <2> SUFFICES ASSUME NEW row \in Row, owner[row] # NoReq
               PROVE  pc'[owner[row]] \in InTransaction \ {"cart", "raise", "append"}
    BY DEF LocksFollowItems, FindLine
  <2>1. /\ owner[row] \in Req
        /\ pc[owner[row]] \in InTransaction \ {"cart", "raise", "append"}
    BY DEF IInv, TypeOK, LocksFollowItems
  <2>2. owner[row] # r
    BY <2>1 DEF InTransaction, FindLine
  <2> QED
    BY <2>1, <2>2 DEF IInv, TypeOK, FindLine
<1> QED
  BY <1>1, <1>2, <1>3, <1>4, <1>5, <1>6, <1>7, <1>8, <1>9, <1>10 DEF IInv

\* What the last step of a cart's request makes of the cart: a cart with no line of
\* it lost, unless the request takes one out.
LEMMA CartStep ==
  ASSUME IInv, NEW r \in Req, RaiseLine(r) \/ AppendLine(r) \/ RemoveLine(r)
  PROVE  /\ OfCart(r) /\ pc[r] \in {"idle", "raise", "append"}
         /\ \E c \in Seq(Line) :
              /\ Becomes(r, c)
              /\ RemoveLine(r) \/ Kept(carts[request[r].session], c)
<1> DEFINE cart == carts[request[r].session]
           line == request[r].payload[1]
<1>1. OfCart(r) /\ pc[r] \in {"idle", "raise", "append"}
  BY DEF IInv, LinesLeft, OfCart, RaiseLine, AppendLine, RemoveLine
<1>2. cart \in Seq(Line) /\ line \in Line
  BY <1>1, CartRequestTyped
<1> HIDE DEF cart, line
<1>3. Kept(cart, cart)
  BY <1>2, CartKept
<1>4. CASE RaiseLine(r)
  <2>1. CASE Becomes(r, cart)
    BY <1>1, <1>2, <1>3, <2>1 DEF cart
  <2>2. ASSUME NEW i \in 1 .. Len(cart), Becomes(r, [cart EXCEPT ![i].quantity = @ + line.quantity])
        PROVE  \E c \in Seq(Line) : Becomes(r, c) /\ Kept(cart, c)
    <3>1. [cart EXCEPT ![i].quantity = @ + line.quantity] \in Seq(Line)
      BY <1>2, LinesTyped
    <3>2. Kept(cart, [cart EXCEPT ![i].quantity = @ + line.quantity])
      BY <1>2, LineRaised
    <3> QED
      BY <2>2, <3>1, <3>2
  <2> QED
    BY <1>1, <1>4, <2>1, <2>2 DEF RaiseLine, cart, line
<1>5. CASE AppendLine(r)
  <2>1. Append(cart, line) \in Seq(Line) /\ Kept(cart, Append(cart, line))
    BY <1>2, CartKept
  <2> QED
    BY <1>1, <1>5, <2>1 DEF AppendLine, cart, line
<1>6. CASE RemoveLine(r)
  <2>1. CASE Becomes(r, cart)
    BY <1>1, <1>2, <1>3, <2>1 DEF cart
  <2>2. ASSUME NEW i \in 1 .. Len(cart),
               Becomes(r, SubSeq(cart, 1, i - 1) \o SubSeq(cart, i + 1, Len(cart)))
        PROVE  \E c \in Seq(Line) : Becomes(r, c)
    BY <1>2, <2>2, LinesTyped
  <2> QED
    BY <1>1, <1>6, <2>1, <2>2 DEF RemoveLine, cart
<1> QED
  BY <1>4, <1>5, <1>6

\* A cart's request keeps the invariant.
LEMMA CartStepKeeps ==
  ASSUME IInv, NEW r \in Req, RaiseLine(r) \/ AppendLine(r) \/ RemoveLine(r)
  PROVE  IInv'
  BY CartStep, BecomesKeeps

\* A rollback keeps the invariant, at whatever operation it happens.
LEMMA RollBackKeeps == ASSUME IInv, NEW r \in Req, RollBack(r) PROVE IInv'
<1>1. TypeOK'
  BY ConstantsAssumption DEF IInv, TypeOK, RollBack, Discard, Released, Nothing, Unpaid,
     PaymentColumns, InTransaction, Finished, data, outside
<1>2. WritesFollowInsert'
  BY DEF IInv, TypeOK, WritesFollowInsert, RollBack, Discard, data
<1>3. LinesLeft'
  BY DEF IInv, TypeOK, LinesLeft, RollBack, data
<1>4. StockHeld' /\ KeyHeld'
  BY DiscardKeeps DEF RollBack, data
<1>6. OrdersOfEnded'
  BY DEF IInv, TypeOK, OrdersOfEnded, Placeable, RollBack, data
<1>7. ReplaySeen'
  BY ReplayKept DEF IInv, TypeOK, RollBack, Discard, data
<1>8. OneOrderPerKey'
  BY DEF IInv, OneOrderPerKey, RollBack, data
<1>9. AnsweredOrderExists'
  BY AnswersKept DEF IInv, TypeOK, RollBack, Discard, data
<1>10. LocksFollowItems'
  BY ConstantsAssumption DEF IInv, TypeOK, LocksFollowItems, RollBack, Discard, Released,
     InTransaction, ConstantsAssumption
<1> QED
  BY <1>1, <1>2, <1>3, <1>4, <1>6, <1>7, <1>8, <1>9, <1>10 DEF IInv

\* Dying after the commit keeps the invariant.
LEMMA DieAfterCommitKeeps == ASSUME IInv, NEW r \in Req, DieAfterCommit(r) PROVE IInv'
<1>1. TypeOK'
  BY DEF IInv, DieAfterCommit, TypeOK, Goto, data, writes, outside, Finished,
       InTransaction
<1>2. WritesFollowInsert'
  BY DEF IInv, DieAfterCommit, TypeOK, WritesFollowInsert, Goto, data, writes
<1>3. LinesLeft'
  BY DEF IInv, DieAfterCommit, TypeOK, LinesLeft, Goto, data
<1>4. StockHeld'
  BY StockKept DEF IInv, DieAfterCommit, data, writes
<1>5. KeyHeld'
  BY KeyKept DEF IInv, DieAfterCommit, data, writes
<1>6. OrdersOfEnded'
  BY DEF IInv, DieAfterCommit, TypeOK, OrdersOfEnded, Placeable, Goto, data
<1>7. ReplaySeen'
  BY ReplayKept DEF IInv, DieAfterCommit, TypeOK, Goto, data, writes
<1>8. OneOrderPerKey'
  BY DEF IInv, DieAfterCommit, OneOrderPerKey, data
<1>9. AnsweredOrderExists'
  BY AnswersKept DEF IInv, DieAfterCommit, TypeOK, Goto, data, writes
<1>10. LocksFollowItems'
  BY ConstantsAssumption DEF IInv, DieAfterCommit, TypeOK, LocksFollowItems, Goto,
       InTransaction, ConstantsAssumption
<1> QED
  BY <1>1, <1>2, <1>3, <1>4, <1>5, <1>6, <1>7, <1>8, <1>9, <1>10 DEF IInv

----------------------------------------------------------------------------
\* Every step keeps the invariant.
LEMMA NextKeeps == IInv /\ [Next]_vars => IInv'
<1> SUFFICES ASSUME IInv, [Next]_vars PROVE IInv'
  OBVIOUS
<1>1. CASE UNCHANGED vars
  BY <1>1 DEF vars, IInv, TypeOK, WritesFollowInsert, LinesLeft, StockHeld, KeyHeld, Placed,
     OrdersOfEnded, ReplaySeen, OneOrderPerKey, AnsweredOrderExists, LocksFollowItems
<1>2. ASSUME NEW r \in Req, Step(r) PROVE IInv'
  BY <1>2, SyncCustomersKeeps, ResolveItemsKeeps, SelectCustomerKeeps, UpdateCustomerKeeps,
     InsertCustomerKeeps, RollBackKeeps, LookupKeeps, ReadCouponKeeps, BumpCouponKeeps,
     InsertOrderKeeps, RelookupKeeps, WriteLineKeeps, ClearCartKeeps, AuthorizeKeeps,
     AskSidecarKeeps, CommitKeeps, SyncOrderKeeps, FindLineKeeps, CartStepKeeps
     DEF Step, CustomerRefused
<1>3. ASSUME NEW r \in Req, Fail(r) PROVE IInv'
  BY <1>3, RollBackKeeps, DieAfterCommitKeeps DEF Fail, DeadlockVictim
<1> QED
  BY <1>1, <1>2, <1>3 DEF Next, AllFinished

\* The inductive invariant: locks and uncommitted writes belong together.
THEOREM Invariant == Spec => []IInv
  BY InitInvariant, NextKeeps, PTL DEF Spec

\* Every table and every transaction keeps its type: in particular the stock,
\* reduced without a check when a line is committed, never becomes negative.
THEOREM TypeCorrect == Spec => []TypeOK
  BY Invariant, PTL DEF IInv

\* At most one order is ever placed under an idempotency key, however many
\* deliveries of the checkout race.
THEOREM OneOrder == Spec => []OneOrderPerKey
  BY Invariant, PTL DEF IInv

\* A response never names an order that is not in the tables.
THEOREM AnswersAreOrders == Spec => []AnsweredOrderExists
  BY Invariant, PTL DEF IInv

\* Transactions that are over hold no lock.
THEOREM NoLockLeft == Spec => []LocksReleased
<1>1. IInv => LocksReleased
  BY DEF IInv, LocksFollowItems, LocksReleased
<1> QED
  BY <1>1, Invariant, PTL
----------------------------------------------------------------------------
\* A step that changes a table of orders, a stock or a coupon count is a commit
\* of an order.
LEMMA TablesChange ==
  ASSUME IInv, [Next]_vars, ~UNCHANGED <<orders, stock, couponUsed>>
  PROVE  \E r \in Req : Commit(r) /\ inserted[r]
<1>1. CASE UNCHANGED vars
  BY <1>1 DEF vars
<1>2. ASSUME NEW r \in Req, Step(r) PROVE Commit(r)
  BY <1>2 DEF Step, SyncCustomers, ResolveItems, SelectCustomer, UpdateCustomer,
     InsertCustomer, CustomerRefused, RollBack, Lookup, ReadCoupon, BumpCoupon, InsertOrder,
     Relookup, WriteLine, ClearCart, Authorize, AskSidecar, SyncOrder, FindLine, RaiseLine,
     AppendLine, RemoveLine, Becomes, data
<1>3. ASSUME NEW r \in Req, Fail(r) PROVE FALSE
  BY <1>3 DEF Fail, DeadlockVictim, RollBack, DieAfterCommit, data
<1>4. ASSUME NEW r \in Req, Commit(r), ~inserted[r] PROVE FALSE
  <2>1. taken[r] = Nothing /\ ~couponHeld[r]
    BY <1>4 DEF IInv, WritesFollowInsert, Commit, Goto
  <2>2. stock' = stock
    BY <1>4, <2>1 DEF IInv, TypeOK, Commit, Nothing
  <2>3. couponUsed' = couponUsed
    BY <1>4, <2>1 DEF IInv, TypeOK, Commit
  <2> QED
    BY <1>4, <2>2, <2>3 DEF Commit
<1> QED
  BY <1>1, <1>2, <1>3, <1>4 DEF Next, AllFinished

\* The commit of an order is the ledger's step: its id and its key are new, the
\* stock it took is there, and its coupon use is counted with it.
LEMMA CommitPlaces ==
  ASSUME IInv, NEW r \in Req, Commit(r), inserted[r]
  PROVE  OrderOf(r) \in orders' /\ Ledger!Place(OrderOf(r))
<1> DEFINE o == OrderOf(r)
<1>1. o.id = r /\ o.key = request[r].key /\ o.taken = taken[r] /\ o.coupon = couponHeld[r]
  BY DEF OrderOf
<1>2. \A other \in orders : other.id # r /\ (o.key # NoKey => other.key # o.key)
  <2>1. \A other \in orders : other.id # r
    BY DEF IInv, OrdersOfEnded, Commit, Goto
  <2>2. o.key # NoKey => \A other \in orders : other.key # o.key
    BY <1>1 DEF IInv, KeyHeld, Placed
  <2> QED
    BY <2>1, <2>2
<1>3. \A p \in Product : taken[r][p] \in 0 .. stock[p]
  BY DEF IInv, TypeOK, StockHeld
<1>4. /\ orders' = orders \cup {o}
      /\ stock' = [p \in Product |-> stock[p] - taken[r][p]]
      /\ couponUsed' = couponUsed + (IF couponHeld[r] THEN 1 ELSE 0)
  BY DEF Commit
<1> HIDE DEF o
<1> QED
  BY <1>1, <1>2, <1>3, <1>4 DEF Ledger!Place, o

\* The checkout implements the ledger: orders, stock and coupon uses change
\* together, one order at a time.
THEOREM ImplementsLedger == Spec => LedgerSpec
<1>1. Init => Ledger!Init
  BY DEF Init, Ledger!Init
<1>2. IInv /\ [Next]_vars => [Ledger!Next]_Ledger!ledgerVars
  <2> SUFFICES ASSUME IInv, [Next]_vars, ~UNCHANGED Ledger!ledgerVars PROVE Ledger!Next
    OBVIOUS
  <2>1. PICK r \in Req : Commit(r) /\ inserted[r]
    BY TablesChange DEF Ledger!ledgerVars
  <2>2. OrderOf(r) \in orders' /\ Ledger!Place(OrderOf(r))
    BY <2>1, CommitPlaces
  <2> QED
    BY <2>2 DEF Ledger!Next
<1> QED
  BY <1>1, <1>2, Invariant, PTL DEF Spec, LedgerSpec, Ledger!Spec

\* What a step may do to the cart of a session.
LEMMA CartChange ==
  ASSUME IInv, [Next]_vars, NEW s \in Session
  PROVE  \/ Kept(carts[s], carts'[s])
         \/ \E o \in orders' \ orders :
              /\ request[o.id].session = s
              /\ carts'[s] = SubSeq(carts[s], cleared[o.id] + 1, Len(carts[s]))
         \/ \E r \in Req : request[r].via = "remove" /\ request[r].session = s
                           /\ pc[r] = "idle" /\ pc'[r] = "updated"
<1>1. CASE carts'[s] = carts[s]
  <2>1. carts[s] \in Seq(Line)
    BY DEF IInv, TypeOK
  <2>2. \A i \in 1 .. Len(carts[s]) : carts[s][i] \in Line
    BY <2>1
  <2>3. \A i \in 1 .. Len(carts[s]) : carts[s][i].quantity \in Nat
    BY <2>2 DEF Line
  <2> QED
    BY <1>1, <2>1, <2>3 DEF Kept
<1>2. CASE carts'[s] # carts[s]
  <2>1. PICK r \in Req : Commit(r) \/ RaiseLine(r) \/ AppendLine(r) \/ RemoveLine(r)
    <3>1. CASE UNCHANGED vars
      BY <3>1, <1>2 DEF vars
    <3>2. ASSUME NEW r \in Req, Step(r)
          PROVE  Commit(r) \/ RaiseLine(r) \/ AppendLine(r) \/ RemoveLine(r)
      BY <3>2, <1>2 DEF Step, SyncCustomers, ResolveItems, SelectCustomer, UpdateCustomer,
         InsertCustomer, CustomerRefused, RollBack, Lookup, ReadCoupon, BumpCoupon,
         InsertOrder, Relookup, WriteLine, ClearCart, Authorize, AskSidecar, SyncOrder,
         FindLine, data
    <3>3. ASSUME NEW r \in Req, Fail(r) PROVE FALSE
      BY <3>3, <1>2 DEF Fail, DeadlockVictim, RollBack, DieAfterCommit, data
    <3> QED
      BY <3>1, <3>2, <3>3 DEF Next, AllFinished
  <2>2. CASE Commit(r)
    <3>1. /\ inserted[r] /\ request[r].session = s
          /\ carts'[s] = SubSeq(carts[s], cleared[r] + 1, Len(carts[s]))
      BY <1>2, <2>2 DEF IInv, TypeOK, Commit, CartsAfter
    <3>2. OrderOf(r) \in orders' /\ OrderOf(r).id = r
      BY <2>2, <3>1 DEF Commit, OrderOf
    <3>3. OrderOf(r) \notin orders
      BY <2>2, <3>2 DEF IInv, OrdersOfEnded, Commit, Goto
    <3> QED
      BY <3>1, <3>2, <3>3
  <2>3. CASE RaiseLine(r) \/ AppendLine(r) \/ RemoveLine(r)
    <3>1. PICK c \in Seq(Line) : /\ Becomes(r, c)
                                 /\ RemoveLine(r) \/ Kept(carts[request[r].session], c)
      BY <2>3, CartStep
    <3>2. request[r].session \in Session
      BY <2>3, CartStep, CartRequestTyped
    <3>3. request[r].session = s /\ carts'[s] = c
      BY <1>2, <3>1, <3>2 DEF IInv, TypeOK, Becomes
    <3>4. pc'[r] = "updated"
      BY <3>1 DEF IInv, TypeOK, Becomes
    <3> QED
      BY <3>1, <3>3, <3>4 DEF RemoveLine
  <2> QED
    BY <2>1, <2>2, <2>3
<1> QED
  BY <1>1, <1>2

\* A cart loses lines only to the request that takes one out and to the commit of an
\* order from its session, and to that only the lines its DELETE found.
THEOREM CartsConsumed == Spec => CartConsumedByOrder
<1>1. IInv /\ [Next]_vars
        => [\A s \in Session :
              \/ Kept(carts[s], carts'[s])
              \/ \E o \in orders' \ orders :
                   /\ request[o.id].session = s
                   /\ carts'[s] = SubSeq(carts[s], cleared[o.id] + 1, Len(carts[s]))
              \/ \E r \in Req : request[r].via = "remove" /\ request[r].session = s
                                /\ pc[r] = "idle" /\ pc'[r] = "updated"]_vars
  BY CartChange
<1> QED
  BY <1>1, Invariant, PTL DEF Spec, CartConsumedByOrder

\* The CRM hears the truth: what it is told is copied from an answer, and orders
\* in the tables do not change.
THEOREM CrmIsTold == Spec => []CrmToldTheTruth
<1>1. Init => CrmToldTheTruth
  BY DEF Init, CrmToldTheTruth
<1>2. ASSUME IInv, CrmToldTheTruth, [Next]_vars PROVE CrmToldTheTruth'
  <2>1. orders \subseteq orders'
    <3>1. CASE UNCHANGED orders
      BY <3>1
    <3>2. CASE ~UNCHANGED orders
      <4>1. PICK r \in Req : Commit(r)
        BY <1>2, <3>2, TablesChange
      <4> QED
        BY <4>1 DEF Commit
    <3> QED
      BY <3>1, <3>2
  <2>2. ASSUME NEW m \in crm', m \notin crm
        PROVE  \E o \in orders : o.id = m.id /\ o.payment.payment_status = m.payment_status
    <3>1. PICK r \in Req : SyncOrder(r)
      <4>1. ~UNCHANGED vars
        BY <2>2 DEF vars
      <4>2. ASSUME NEW r \in Req, Step(r) PROVE SyncOrder(r)
        BY <4>2, <2>2 DEF Step, SyncCustomers, ResolveItems, SelectCustomer, UpdateCustomer,
           InsertCustomer, CustomerRefused, RollBack, Lookup, ReadCoupon, BumpCoupon,
           InsertOrder, Relookup, WriteLine, ClearCart, Authorize, AskSidecar, Commit,
           FindLine, RaiseLine, AppendLine, RemoveLine, Becomes, outside
      <4>3. ASSUME NEW r \in Req, Fail(r) PROVE FALSE
        BY <4>3, <2>2 DEF Fail, DeadlockVictim, RollBack, DieAfterCommit, outside
      <4> QED
        BY <1>2, <4>1, <4>2, <4>3 DEF Next, AllFinished
    <3>2. m = [id |-> answer[r], payment_status |-> payment[r].payment_status]
      BY <2>2, <3>1 DEF SyncOrder
    <3> QED
      BY <1>2, <3>1, <3>2 DEF IInv, AnsweredOrderExists, SyncOrder, Goto
  <2> QED
    BY <1>2, <2>1, <2>2 DEF CrmToldTheTruth
<1> QED
  BY <1>1, <1>2, Invariant, PTL DEF Spec
----------------------------------------------------------------------------
\* The payment columns written by an open transaction are its own decision's.
LEMMA PaymentsFollow ==
  ASSUME IInv, PaymentsFollowGateway, [Next]_vars
  PROVE  PaymentsFollowGateway'
<1>1. CASE UNCHANGED vars
  BY <1>1 DEF vars, PaymentsFollowGateway
<1>2. ASSUME NEW r \in Req, Step(r) PROVE PaymentsFollowGateway'
  <2> SUFFICES ASSUME NEW q \in Req
               PROVE  /\ pc'[q] \in {"idle"} \cup (InTransaction \ {"commit"}) =>
                           payment'[q] = Unpaid /\ q \notin authorized'
                      /\ inserted'[q] =>
                           /\ payment'[q].status = "paid" <=> q \in authorized'
                           /\ payment'[q].status = "paid" <=> payment'[q].payment_required = 0
    BY DEF PaymentsFollowGateway
  <2> USE DEF IInv, TypeOK, PaymentsFollowGateway, InTransaction, data, writes, outside
  <2>1. CASE SyncCustomers(r) \/ ResolveItems(r) \/ SelectCustomer(r) \/ UpdateCustomer(r)
    BY <2>1 DEF SyncCustomers, ResolveItems, SelectCustomer, UpdateCustomer, Goto
  <2>2. CASE InsertCustomer(r) \/ ReadCoupon(r) \/ BumpCoupon(r)
    BY <2>2 DEF InsertCustomer, ReadCoupon, BumpCoupon, Goto
  <2>10. CASE WriteLine(r)
    <3>1. /\ pc[r] = "items" /\ pc'[r] \in {"items", "clear_cart"}
          /\ \A x \in Req \ {r} : pc'[x] = pc[x]
          /\ UNCHANGED <<payment, inserted, authorized>>
      BY <2>10 DEF WriteLine
    <3> QED
      BY <3>1
  <2>3. CASE CustomerRefused(r)
    BY <2>3 DEF CustomerRefused, RollBack, Discard
  <2>4. CASE Lookup(r)
    <3>1. /\ pc[r] = "lookup" /\ ~inserted[r] /\ \A x \in Req \ {r} : pc'[x] = pc[x]
          /\ UNCHANGED <<inserted, authorized>>
      BY <2>4 DEF Lookup, WritesFollowInsert
    <3>2. CASE \E o \in Placed(request[r].key) : Replay(r, o) /\ pc'[r] = "commit"
      BY <3>1, <3>2 DEF Replay
    <3>3. CASE pc'[r] \in {"coupon", "insert"} /\ UNCHANGED payment
      BY <3>1, <3>3
    <3> QED
      BY <2>4, <3>2, <3>3 DEF Lookup
  <2>5. CASE InsertOrder(r)
    <3>1. /\ pc[r] = "insert" /\ payment[r] = Unpaid /\ r \notin authorized
          /\ \A x \in Req \ {r} : pc'[x] = pc[x]
          /\ UNCHANGED authorized
      BY <2>5 DEF InsertOrder
    <3>2. CASE /\ pc'[r] = "items" /\ UNCHANGED payment
               /\ inserted' = [inserted EXCEPT ![r] = TRUE]
      BY <3>1, <3>2 DEF Unpaid
    <3>3. CASE pc'[r] = "relookup" /\ Discard(r)
      BY <3>1, <3>3 DEF Discard
    <3> QED
      BY <2>5, <3>2, <3>3 DEF InsertOrder
  <2>6. CASE Relookup(r)
    BY <2>6 DEF Relookup, Replay, Goto, WritesFollowInsert
  <2>7. CASE ClearCart(r)
    BY <2>7 DEF ClearCart, Unpaid
  <2>8. CASE Authorize(r)
    BY <2>8 DEF Authorize, Goto, ColumnsFor, Unpaid
  <2>11. CASE AskSidecar(r)
    BY <2>11 DEF AskSidecar, Goto, ColumnsFor, Unpaid
  <2>12. CASE FindLine(r)
    BY <2>12 DEF FindLine
  <2>13. CASE RaiseLine(r) \/ AppendLine(r) \/ RemoveLine(r)
    <3>1. /\ pc'[r] = "updated" /\ \A x \in Req \ {r} : pc'[x] = pc[x]
          /\ UNCHANGED <<payment, inserted, authorized>>
      BY <2>13 DEF RaiseLine, AppendLine, RemoveLine, Becomes
    <3> QED
      BY <3>1
  <2>9. CASE Commit(r) \/ SyncOrder(r)
    BY <2>9 DEF Commit, SyncOrder, Goto, WritesFollowInsert
  <2> QED
    BY <1>2, <2>1, <2>2, <2>10, <2>3, <2>4, <2>5, <2>6, <2>7, <2>8, <2>9, <2>11,
       <2>12, <2>13 DEF Step
<1>3. ASSUME NEW r \in Req, Fail(r) PROVE PaymentsFollowGateway'
  BY <1>3 DEF Fail, DeadlockVictim, RollBack, Discard, DieAfterCommit, Goto, IInv, TypeOK,
     PaymentsFollowGateway, InTransaction, Finished, data, writes, outside
<1> QED
  BY <1>1, <1>2, <1>3 DEF Next, AllFinished

\* An order in the tables shows paid exactly when the gateway authorized it.
THEOREM PaidMeansAuthorized == Spec => []PaidIffAuthorized
<1> DEFINE Inv == IInv /\ PaymentsFollowGateway /\ PaidIffAuthorized
<1>1. Init => PaymentsFollowGateway /\ PaidIffAuthorized
  BY DEF Init, PaymentsFollowGateway, PaidIffAuthorized, Unpaid
<1>2. ASSUME IInv, PaymentsFollowGateway, PaidIffAuthorized, [Next]_vars
      PROVE  PaidIffAuthorized'
  <2>1. CASE UNCHANGED <<orders, authorized>>
    BY <1>2, <2>1 DEF PaidIffAuthorized
  <2>2. CASE ~UNCHANGED orders
    <3>1. PICK r \in Req : Commit(r) /\ inserted[r]
      BY <1>2, <2>2, TablesChange
    <3>2. orders' = orders \cup {OrderOf(r)} /\ authorized' = authorized
      BY <3>1 DEF Commit, outside
    <3> QED
      BY <1>2, <3>1, <3>2 DEF PaidIffAuthorized, PaymentsFollowGateway, OrderOf
  <2>3. CASE UNCHANGED orders /\ ~UNCHANGED authorized
    <3>1. PICK r \in Req : Authorize(r) \/ AskSidecar(r)
      <4>1. ~UNCHANGED vars
        BY <2>3 DEF vars
      <4>2. ASSUME NEW r \in Req, Step(r) PROVE Authorize(r) \/ AskSidecar(r)
        BY <4>2, <2>3 DEF Step, SyncCustomers, ResolveItems, SelectCustomer, UpdateCustomer,
           InsertCustomer, CustomerRefused, RollBack, Lookup, ReadCoupon, BumpCoupon,
           InsertOrder, Relookup, WriteLine, ClearCart, Commit, SyncOrder, FindLine,
           RaiseLine, AppendLine, RemoveLine, Becomes, outside
      <4>3. ASSUME NEW r \in Req, Fail(r) PROVE FALSE
        BY <4>3, <2>3 DEF Fail, DeadlockVictim, RollBack, DieAfterCommit, outside
      <4> QED
        BY <1>2, <4>1, <4>2, <4>3 DEF Next, AllFinished
    <3>2. \A o \in orders : o.id # r
      BY <1>2, <3>1 DEF IInv, OrdersOfEnded, Authorize, AskSidecar, Goto
    <3>3. \A o \in orders : o.id \in authorized' <=> o.id \in authorized
      BY <3>1, <3>2 DEF Authorize, AskSidecar
    <3> QED
      BY <1>2, <2>3, <3>3 DEF PaidIffAuthorized
  <2> QED
    BY <2>1, <2>2, <2>3
<1> QED
  BY <1>1, <1>2, PaymentsFollow, Invariant, PTL DEF Spec
----------------------------------------------------------------------------
\* The books: what the orders took, counted unit by unit.

\* The first n numbers are n.
LEMMA UpToCounted == ASSUME NEW n \in Nat PROVE IsFiniteSet(1 .. n) /\ Cardinality(1 .. n) = n
<1>1. 1 \in Int /\ n \in Int
  OBVIOUS
<1>2. IsFiniteSet(1 .. n)
  BY <1>1, FS_Interval
<1>3. Cardinality(1 .. n) = IF 1 > n THEN 0 ELSE n - 1 + 1
  BY <1>1, FS_Interval
<1> QED
  BY <1>2, <1>3

\* Sets that share nothing are counted one after the other.
LEMMA DisjointCounted ==
  ASSUME NEW S, NEW T, IsFiniteSet(S), IsFiniteSet(T), S \cap T = {}
  PROVE  IsFiniteSet(S \cup T) /\ Cardinality(S \cup T) = Cardinality(S) + Cardinality(T)
<1>1. IsFiniteSet(S \cup T)
  BY FS_Union, Zenon
<1>2. Cardinality(S \cup T) = Cardinality(S) + Cardinality(T) - Cardinality(S \cap T)
  BY FS_Union, Zenon
<1>3. Cardinality(S \cap T) = 0
  BY FS_EmptySet
<1>4. Cardinality(S) \in Nat /\ Cardinality(T) \in Nat
  BY FS_CardinalityType
<1> QED
  BY <1>1, <1>2, <1>3, <1>4

\* An order that is new adds as many units of p as it took, and each of them once.
LEMMA UnitsAdded ==
  ASSUME NEW p \in Product, NEW o, o \notin orders, orders' = orders \cup {o},
         o.taken[p] \in Nat, IsFiniteSet(UnitsTaken(p))
  PROVE  /\ IsFiniteSet(UnitsTaken(p)')
         /\ Cardinality(UnitsTaken(p)') = Cardinality(UnitsTaken(p)) + o.taken[p]
<1> DEFINE numbers == 1 .. o.taken[p]
           units   == {o} \X numbers
<1>1. UnitsTaken(p)' = UnitsTaken(p) \cup units
  BY DEF UnitsTaken
<1>2. UnitsTaken(p) \cap units = {}
  BY DEF UnitsTaken
<1>3. IsFiniteSet({o}) /\ Cardinality({o}) = 1
  BY FS_Singleton
<1>4. IsFiniteSet(numbers) /\ Cardinality(numbers) = o.taken[p]
  BY UpToCounted
<1> HIDE DEF numbers
<1>5. IsFiniteSet(units) /\ Cardinality(units) = Cardinality({o}) * Cardinality(numbers)
  BY <1>3, <1>4, FS_Product, Zenon
<1>6. Cardinality(units) = o.taken[p]
  BY <1>3, <1>4, <1>5
<1> HIDE DEF units
<1> QED
  BY <1>1, <1>2, <1>5, <1>6, DisjointCounted

\* An order that is new adds one to the coupon's orders if it used the coupon.
LEMMA CouponOrdersAdded ==
  ASSUME NEW o, o \notin orders, orders' = orders \cup {o}, o.coupon \in BOOLEAN,
         IsFiniteSet(CouponOrders)
  PROVE  /\ IsFiniteSet(CouponOrders')
         /\ Cardinality(CouponOrders') = Cardinality(CouponOrders) + (IF o.coupon THEN 1 ELSE 0)
<1>1. CASE o.coupon
  <2>1. o \notin CouponOrders /\ CouponOrders' = CouponOrders \cup {o}
    BY <1>1 DEF CouponOrders
  <2> QED
    BY <1>1, <2>1, FS_AddElement
<1>2. CASE ~o.coupon
  <2>1. CouponOrders' = CouponOrders /\ Cardinality(CouponOrders) \in Nat
    BY <1>2, FS_CardinalityType DEF CouponOrders
  <2> QED
    BY <1>2, <2>1
<1> QED
  BY <1>1, <1>2

\* Nothing is ordered at the start, and all the stock is there.
LEMMA InitCounted == Init => BooksCounted
<1> SUFFICES ASSUME Init PROVE BooksCounted
  OBVIOUS
<1>1. CouponOrders = {} /\ \A p \in Product : UnitsTaken(p) = {}
  BY DEF Init, CouponOrders, UnitsTaken
<1>2. \A p \in Product : stock[p] \in Nat /\ stock[p] = InitialStock[p]
  BY ConstantsAssumption DEF ConstantsAssumption, Init
<1>3. IsFiniteSet({}) /\ Cardinality({}) = 0
  BY FS_EmptySet
<1>4. IsFiniteSet(CouponOrders) /\ couponUsed = Cardinality(CouponOrders)
  BY <1>1, <1>3 DEF Init
<1>5. \A p \in Product : IsFiniteSet(UnitsTaken(p)) /\ Cardinality(UnitsTaken(p)) = 0
  BY <1>1, <1>3
<1> QED
  BY <1>2, <1>4, <1>5 DEF BooksCounted, BooksBalance

\* The commit of an order moves both sides of each account by the same amount.
LEMMA CommitCounted ==
  ASSUME IInv, BooksCounted, NEW r \in Req, Commit(r), inserted[r]
  PROVE  BooksCounted'
<1> DEFINE o == OrderOf(r)
<1>1. /\ \A other \in orders : other.id # o.id
      /\ orders' = orders \cup {o}
      /\ stock' = [p \in Product |-> stock[p] - o.taken[p]]
      /\ couponUsed' = couponUsed + (IF o.coupon THEN 1 ELSE 0)
  BY CommitPlaces DEF Ledger!Place
<1>2. o.coupon \in BOOLEAN /\ \A p \in Product : o.taken[p] \in Nat
  BY DEF IInv, TypeOK, OrderOf
<1> HIDE DEF o
<1>3. o \notin orders
  BY <1>1
<1>4. ASSUME NEW p \in Product
      PROVE  /\ IsFiniteSet(UnitsTaken(p)')
             /\ stock'[p] + Cardinality(UnitsTaken(p)') = InitialStock[p]
  <2>1. /\ IsFiniteSet(UnitsTaken(p)')
        /\ Cardinality(UnitsTaken(p)') = Cardinality(UnitsTaken(p)) + o.taken[p]
    BY <1>1, <1>2, <1>3, UnitsAdded DEF BooksCounted
  <2>2. stock'[p] = stock[p] - o.taken[p] /\ stock[p] \in Int /\ o.taken[p] \in Int
    BY <1>1, <1>2 DEF IInv, TypeOK
  <2>3. Cardinality(UnitsTaken(p)) \in Nat
    BY FS_CardinalityType DEF BooksCounted
  <2>4. stock[p] + Cardinality(UnitsTaken(p)) = InitialStock[p]
    BY DEF BooksCounted, BooksBalance
  <2> QED
    BY <2>1, <2>2, <2>3, <2>4
<1>5. IsFiniteSet(CouponOrders') /\ couponUsed' = Cardinality(CouponOrders')
  BY <1>1, <1>2, <1>3, CouponOrdersAdded DEF BooksCounted, BooksBalance
<1> QED
  BY <1>4, <1>5 DEF BooksCounted, BooksBalance

\* Every step keeps the books counted: what does not place an order moves nothing.
LEMMA CountedKept == IInv /\ BooksCounted /\ [Next]_vars => BooksCounted'
<1> SUFFICES ASSUME IInv, BooksCounted, [Next]_vars PROVE BooksCounted'
  OBVIOUS
<1>1. CASE UNCHANGED <<orders, stock, couponUsed>>
  BY <1>1 DEF BooksCounted, BooksBalance, UnitsTaken, CouponOrders
<1>2. CASE ~UNCHANGED <<orders, stock, couponUsed>>
  BY <1>2, TablesChange, CommitCounted
<1> QED
  BY <1>1, <1>2

\* The stock that is gone is what the orders took, to the unit, and the coupon's
\* count is the number of the orders that used it, whatever was rolled back.
THEOREM BooksBalanced == Spec => []BooksBalance
<1>1. BooksCounted => BooksBalance
  BY DEF BooksCounted
<1> QED
  BY <1>1, InitCounted, CountedKept, Invariant, PTL DEF Spec
----------------------------------------------------------------------------
\* Deadlocks: rows are locked in the order of the tables.

\* What a step does to the locks, when it takes none from another request and moves
\* only its own: it is enough to look at where it leaves its own request.
LEMMA OrderKept ==
  ASSUME TypeOK, LocksFollowOrder, NEW r \in Req,
         \A q \in Req \ {r} : pc'[q] = pc[q],
         \A row \in Row : owner'[row] \in {owner[row], r, NoReq},
         \A row \in Row : owner'[row] = r => pc'[r] \in HeldDuring(row.table)
  PROVE  LocksFollowOrder'
<1> SUFFICES ASSUME NEW row \in Row, owner'[row] # NoReq
             PROVE  pc'[owner'[row]] \in HeldDuring(row.table)
  BY DEF LocksFollowOrder
<1>1. CASE owner'[row] = r
  BY <1>1
<1>2. CASE owner'[row] # r
  <2>1. owner'[row] = owner[row] /\ owner[row] \in Req \ {r}
    BY <1>2 DEF TypeOK
  <2> QED
    BY <2>1 DEF LocksFollowOrder
<1> QED
  BY <1>1, <1>2

\* A step that touches no lock and goes on along the same row of tables.
LEMMA OrderKeptOn ==
  ASSUME TypeOK, LocksFollowOrder, NEW r \in Req, UNCHANGED owner,
         \A q \in Req \ {r} : pc'[q] = pc[q],
         \A row \in Row : pc[r] \in HeldDuring(row.table) => pc'[r] \in HeldDuring(row.table)
  PROVE  LocksFollowOrder'
<1>1. \A row \in Row : owner'[row] = r => pc'[r] \in HeldDuring(row.table)
  BY ConstantsAssumption DEF ConstantsAssumption, LocksFollowOrder
<1> QED
  BY <1>1, OrderKept

\* A step that locks one row more.
LEMMA OrderKeptLocking ==
  ASSUME TypeOK, LocksFollowOrder, NEW r \in Req, NEW mine \in Row, Lock(mine, r),
         Free(mine, r), \A q \in Req \ {r} : pc'[q] = pc[q],
         \A row \in Row : pc[r] \in HeldDuring(row.table) => pc'[r] \in HeldDuring(row.table),
         pc'[r] \in HeldDuring(mine.table)
  PROVE  LocksFollowOrder'
<1>1. \A row \in Row : owner'[row] = IF row = mine THEN r ELSE owner[row]
  BY DEF TypeOK, Lock
<1>2. \A row \in Row : owner'[row] = r => pc'[r] \in HeldDuring(row.table)
  BY <1>1, ConstantsAssumption DEF ConstantsAssumption, LocksFollowOrder
<1> QED
  BY <1>1, <1>2, OrderKept

\* A transaction that ends, one way or the other, holds nothing.
LEMMA OrderKeptReleasing ==
  ASSUME TypeOK, LocksFollowOrder, NEW r \in Req, owner' = Released(r),
         \A q \in Req \ {r} : pc'[q] = pc[q]
  PROVE  LocksFollowOrder'
<1>1. \A row \in Row : owner'[row] \in {owner[row], NoReq} /\ owner'[row] # r
  BY ConstantsAssumption DEF ConstantsAssumption, Released
<1> QED
  BY <1>1, OrderKept

\* The tables of the rows.
LEMMA RowTables ==
  /\ \A row \in Row : row.table \in {"customers", "coupons", "orders", "products", "cart_items"}
  /\ \A x : CustomerRow(x).table = "customers" /\ KeyRow(x).table = "orders"
  /\ \A x : ProductRow(x).table = "products" /\ CartRow(x).table = "cart_items"
  /\ CouponRow.table = "coupons"
  BY DEF Row, CustomerRow, CouponRow, KeyRow, ProductRow, CartRow

\* Where the holders of locks are, table by table.
LEMMA HeldWhere ==
  /\ HeldDuring("customers") = {"lookup", "coupon", "bump", "insert", "items", "clear_cart",
                                "pay", "commit"}
  /\ HeldDuring("coupons") = {"insert", "items", "clear_cart", "pay", "commit"}
  /\ HeldDuring("orders") = {"items", "clear_cart", "pay", "commit"}
  /\ HeldDuring("products") = {"items", "clear_cart", "pay", "commit"}
  /\ HeldDuring("cart_items") = {"pay", "commit"}
  BY DEF HeldDuring

\* The statements that lock nothing leave the order of the locks alone.
LEMMA OrderKeptReading ==
  ASSUME TypeOK, LocksFollowOrder, NEW r \in Req,
         \/ SyncCustomers(r) \/ ResolveItems(r) \/ SelectCustomer(r) \/ Lookup(r)
         \/ ReadCoupon(r) \/ Relookup(r) \/ Authorize(r) \/ AskSidecar(r) \/ SyncOrder(r)
         \/ FindLine(r) \/ RaiseLine(r) \/ AppendLine(r) \/ RemoveLine(r) \/ DieAfterCommit(r)
  PROVE  LocksFollowOrder'
<1>1. UNCHANGED owner
  BY DEF SyncCustomers, ResolveItems, SelectCustomer, Lookup, ReadCoupon, Relookup, Authorize,
     AskSidecar, SyncOrder, FindLine, RaiseLine, AppendLine, RemoveLine, Becomes, DieAfterCommit
<1>2. \A q \in Req \ {r} : pc'[q] = pc[q]
  BY DEF TypeOK, SyncCustomers, ResolveItems, SelectCustomer, Lookup, ReadCoupon, Relookup,
     Authorize, AskSidecar, SyncOrder, FindLine, RaiseLine, AppendLine, RemoveLine, Becomes,
     DieAfterCommit, Goto
<1>3. \/ pc[r] \notin {"lookup", "coupon", "bump", "insert", "items", "clear_cart", "pay", "commit"}
      \/ pc[r] \in {"lookup", "coupon"} /\ pc'[r] \in {"coupon", "bump", "insert", "commit"}
      \/ pc[r] = "pay" /\ pc'[r] = "commit"
  BY DEF TypeOK, SyncCustomers, ResolveItems, SelectCustomer, Lookup, ReadCoupon, Relookup,
     Authorize, AskSidecar, SyncOrder, FindLine, RaiseLine, AppendLine, RemoveLine, Becomes,
     DieAfterCommit, Goto
<1>4. \A row \in Row : pc[r] \in HeldDuring(row.table) => pc'[r] \in HeldDuring(row.table)
  BY <1>3, RowTables, HeldWhere
<1> QED
  BY <1>1, <1>2, <1>4, OrderKeptOn

\* The statements that lock a row come in the order of the tables.
LEMMA OrderKeptWriting ==
  ASSUME IInv, LocksFollowOrder, NEW r \in Req,
         \/ UpdateCustomer(r) \/ InsertCustomer(r) \/ BumpCoupon(r) \/ InsertOrder(r)
         \/ WriteLine(r) \/ ClearCart(r)
  PROVE  LocksFollowOrder'
<1> TypeOK
  BY DEF IInv
<1>0. \A q \in Req \ {r} : pc'[q] = pc[q]
  BY DEF TypeOK, UpdateCustomer, InsertCustomer, BumpCoupon, InsertOrder, WriteLine, ClearCart,
     Goto
<1>1. CASE UpdateCustomer(r) \/ InsertCustomer(r)
  <2> DEFINE mine == CustomerRow(request[r].email)
  <2>1. mine \in Row /\ Free(mine, r) /\ Lock(mine, r) /\ mine.table = "customers"
    BY <1>1, RequestTyped, RowsTyped, RowTables DEF UpdateCustomer, InsertCustomer
  <2>2. pc[r] \in {"update_customer", "insert_customer"} /\ pc'[r] = "lookup"
    BY <1>1 DEF UpdateCustomer, InsertCustomer, Goto, TypeOK
  <2> HIDE DEF mine
  <2> QED
    BY <1>0, <2>1, <2>2, RowTables, HeldWhere, OrderKeptLocking
<1>2. CASE BumpCoupon(r)
  <2>1. CouponRow \in Row /\ Free(CouponRow, r) /\ Lock(CouponRow, r) /\ CouponRow.table = "coupons"
    BY <1>2, RowsTyped, RowTables DEF BumpCoupon
  <2>2. pc[r] = "bump" /\ pc'[r] = "insert"
    BY <1>2 DEF BumpCoupon, Goto, TypeOK
  <2> QED
    BY <1>0, <2>1, <2>2, RowTables, HeldWhere, OrderKeptLocking
<1>3. CASE InsertOrder(r)
  <2> DEFINE mine == KeyRow(request[r].key)
  <2>1. CASE owner' = Released(r)
    BY <1>0, <2>1, OrderKeptReleasing
  <2>2. CASE pc[r] = "insert" /\ pc'[r] = "items" /\ UNCHANGED owner
    <3>1. \A row \in Row : pc[r] \in HeldDuring(row.table) => pc'[r] \in HeldDuring(row.table)
      BY <2>2, RowTables, HeldWhere
    <3> QED
      BY <1>0, <2>2, <3>1, OrderKeptOn
  <2>3. CASE pc[r] = "insert" /\ pc'[r] = "items" /\ request[r].key # NoKey /\ Lock(mine, r)
             /\ Free(mine, r)
    <3>1. mine \in Row /\ mine.table = "orders"
      BY <2>3, RequestTyped, RowsTyped, RowTables
    <3> HIDE DEF mine
    <3> QED
      BY <1>0, <2>3, <3>1, RowTables, HeldWhere, OrderKeptLocking
  <2> QED
    BY <1>3, <2>1, <2>2, <2>3 DEF InsertOrder, Discard, Lock, TypeOK
<1>4. CASE WriteLine(r)
  <2> DEFINE mine == ProductRow(lines[r][nextLine[r]].product)
  <2>1. lines[r][nextLine[r]] \in Line
    BY <1>4 DEF IInv, TypeOK, LinesLeft, WriteLine
  <2>2. mine \in Row /\ mine.table = "products"
    BY <2>1, RowsTyped, RowTables DEF Line
  <2>3. Free(mine, r) /\ Lock(mine, r)
    BY <1>4 DEF WriteLine
  <2>4. pc[r] = "items" /\ pc'[r] \in {"items", "clear_cart"}
    BY <1>4 DEF WriteLine, TypeOK
  <2> HIDE DEF mine
  <2> QED
    BY <1>0, <2>2, <2>3, <2>4, RowTables, HeldWhere, OrderKeptLocking
<1>5. CASE ClearCart(r)
  <2> DEFINE mine == CartRow(request[r].session)
  <2>1. pc[r] = "clear_cart" /\ pc'[r] \in {"commit", "pay"}
    BY <1>5 DEF ClearCart, TypeOK
  <2>2. \A row \in Row : pc[r] \in HeldDuring(row.table) => pc'[r] \in HeldDuring(row.table)
    BY <2>1, RowTables, HeldWhere
  <2>3. CASE UNCHANGED owner
    BY <1>0, <2>2, <2>3, OrderKeptOn
  <2>4. CASE request[r].session # NoSession /\ Free(mine, r) /\ Lock(mine, r)
    <3>1. mine \in Row /\ mine.table = "cart_items"
      BY <2>4, RequestTyped, RowsTyped, RowTables
    <3> HIDE DEF mine
    <3>2. pc'[r] \in HeldDuring(mine.table)
      BY <2>1, <3>1, HeldWhere
    <3> QED
      BY <1>0, <2>2, <2>4, <3>1, <3>2, OrderKeptLocking
  <2> QED
    BY <1>5, <2>3, <2>4 DEF ClearCart
<1> QED
  BY <1>1, <1>2, <1>3, <1>4, <1>5

\* Every step keeps the order of the locks.
LEMMA OrderOfLocksKept == IInv /\ LocksFollowOrder /\ [Next]_vars => LocksFollowOrder'
<1> SUFFICES ASSUME IInv, LocksFollowOrder, [Next]_vars PROVE LocksFollowOrder'
  OBVIOUS
<1> TypeOK
  BY DEF IInv
<1>1. CASE UNCHANGED vars
  BY <1>1 DEF vars, LocksFollowOrder
<1>2. ASSUME NEW r \in Req, RollBack(r) \/ Commit(r) PROVE LocksFollowOrder'
  <2>1. owner' = Released(r) /\ \A q \in Req \ {r} : pc'[q] = pc[q]
    BY <1>2 DEF RollBack, Commit, Discard, Goto, TypeOK
  <2> QED
    BY <2>1, OrderKeptReleasing
<1>3. ASSUME NEW r \in Req, Step(r) \/ Fail(r), ~RollBack(r), ~Commit(r) PROVE LocksFollowOrder'
  BY <1>3, OrderKeptReading, OrderKeptWriting DEF Step, Fail, CustomerRefused, DeadlockVictim
<1> QED
  BY <1>1, <1>2, <1>3 DEF Next, AllFinished

\* A request that waits for another is at a statement that locks, and the other holds
\* a row of that statement's table.
LEMMA WaitingWhere ==
  ASSUME TypeOK, LocksFollowOrder, NEW r \in Req, NEW q \in WaitsFor(r), q \in Req
  PROVE  \/ pc[r] \in {"update_customer", "insert_customer"} /\ pc[q] \in HeldDuring("customers")
         \/ pc[r] = "bump" /\ pc[q] \in HeldDuring("coupons")
         \/ pc[r] = "insert" /\ pc[q] \in HeldDuring("orders")
         \/ pc[r] = "items"
         \/ pc[r] = "clear_cart" /\ pc[q] \in HeldDuring("cart_items")
<1>1. PICK row \in Wanted(r) : owner[row] = q
  BY DEF WaitsFor
<1>2. q # NoReq
  BY DEF WaitsFor
<1>3. row \in Row => pc[q] \in HeldDuring(row.table)
  BY <1>1, <1>2 DEF LocksFollowOrder
<1>4. CASE pc[r] \in {"update_customer", "insert_customer"}
  <2>1. row = CustomerRow(request[r].email)
    BY <1>1, <1>4 DEF Wanted
  <2> QED
    BY <1>3, <1>4, <2>1, RequestTyped, RowsTyped, RowTables
<1>5. CASE pc[r] = "bump"
  <2>1. row = CouponRow
    BY <1>1, <1>5 DEF Wanted
  <2> QED
    BY <1>3, <1>5, <2>1, RowsTyped, RowTables
<1>6. CASE pc[r] = "insert"
  <2>1. request[r].key # NoKey /\ row = KeyRow(request[r].key)
    BY <1>1, <1>6 DEF Wanted
  <2> QED
    BY <1>3, <1>6, <2>1, RequestTyped, RowsTyped, RowTables
<1>7. CASE pc[r] = "clear_cart"
  <2>1. request[r].session # NoSession /\ row = CartRow(request[r].session)
    BY <1>1, <1>7 DEF Wanted
  <2> QED
    BY <1>3, <1>7, <2>1, RequestTyped, RowsTyped, RowTables
<1>8. pc[r] \in {"update_customer", "insert_customer", "bump", "insert", "items", "clear_cart"}
  BY <1>1 DEF Wanted
<1> QED
  BY <1>4, <1>5, <1>6, <1>7, <1>8

\* Requests wait for one another in a circle only over products: whoever waits at
\* another statement waits for a request that is further along the tables.
THEOREM DeadlocksAtProducts == Spec => []DeadlockOnlyOnProducts
<1>1. Init => LocksFollowOrder
  BY DEF Init, LocksFollowOrder
<1>2. TypeOK /\ LocksFollowOrder => DeadlockOnlyOnProducts
  <2> SUFFICES ASSUME TypeOK, LocksFollowOrder, NEW S \in SUBSET Req, Waiting(S),
                      \A r \in S : pc[r] # "items"
               PROVE  FALSE
    BY DEF DeadlockOnlyOnProducts
  <2>1. \A r \in S : \E q \in S : q \in WaitsFor(r)
    BY DEF Waiting
  <2>2. \A r \in S : pc[r] \in {"update_customer", "insert_customer", "bump", "insert", "clear_cart"}
    BY <2>1, WaitingWhere
  <2>3. \A r \in S : pc[r] # "clear_cart"
    BY <2>1, <2>2, WaitingWhere, HeldWhere
  <2>4. \A r \in S : pc[r] # "insert"
    BY <2>1, <2>2, <2>3, WaitingWhere, HeldWhere
  <2>5. \A r \in S : pc[r] # "bump"
    BY <2>1, <2>2, <2>3, <2>4, WaitingWhere, HeldWhere
  <2>6. \A r \in S : pc[r] \notin {"update_customer", "insert_customer"}
    BY <2>1, <2>2, <2>3, <2>4, <2>5, WaitingWhere, HeldWhere
  <2> QED
    BY <2>2, <2>3, <2>4, <2>5, <2>6 DEF Waiting
<1>3. IInv => TypeOK
  BY DEF IInv
<1> QED
  BY <1>1, <1>2, <1>3, OrderOfLocksKept, Invariant, PTL DEF Spec
=============================================================================
