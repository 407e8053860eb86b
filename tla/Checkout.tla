----------------------------- MODULE Checkout ------------------------------
(***************************************************************************)
(* Concurrent checkouts over the shop's database.                          *)
(*                                                                         *)
(* Every POST /api/shop/checkout, POST /api/orders and guided journey      *)
(* (POST /api/shop/demo/storyboard) runs one database transaction          *)
(* (server/database.py, get_db): it resolves its items, makes sure of the  *)
(* customer row, places the order (server/store_service.py) and, but for   *)
(* the orders API, has the payment decided before it commits.  Next to     *)
(* them other requests add lines to the carts and take them out.  The      *)
(* database runs at READ COMMITTED: a statement reads committed data and   *)
(* the transaction's own writes, a write keeps its row locked until the    *)
(* transaction ends, and a unique index makes an INSERT wait for an        *)
(* uncommitted row with the same value.                                    *)
(*                                                                         *)
(* Committed data are variables of their own; what a transaction has       *)
(* written and not committed is kept per request and merged by Commit.     *)
(***************************************************************************)
EXTENDS Integers, Sequences, FiniteSets

CONSTANTS
  Req,            \* requests in flight: each is one delivery of a POST
  Key, NoKey,     \* checkout idempotency keys, and "no key given"
  Email,          \* customers, by e-mail address
  Session, NoSession, \* shopping sessions, and "no session"
  Product,
  InitialStock,   \* [Product -> Nat]
  CouponMaxUses,  \* coupons.max_uses of the one coupon, 0 = unlimited
  InitialCustomers, \* the customer rows there at the start
  CrmCustomers,   \* the customers the CRM would import
  Scenarios,      \* the sets of requests explored: a set of [Req -> Request]
  InitialCarts,   \* the carts explored: a set of [Session -> Seq(Line)]
  NoReq           \* nobody

Line == [product: Product, quantity: Nat \ {0}]

\* A request places an order, or adds a line to a cart or takes one out.
Request ==
  [via: {"shop", "orders_api", "storyboard"}, key: Key \cup {NoKey}, email: Email,
   session: Session \cup {NoSession}, coupon: BOOLEAN, payload: Seq(Line)]
  \cup
  [via: {"add", "remove"}, key: {NoKey}, email: Email,
   session: Session, coupon: {FALSE}, payload: Seq(Line) \ {<<>>}]

ASSUME ConstantsAssumption ==
  /\ IsFiniteSet(Req)
  /\ NoKey \notin Key /\ NoSession \notin Session /\ NoReq \notin Req
  /\ InitialStock \in [Product -> Nat]
  /\ CouponMaxUses \in Nat
  /\ InitialCustomers \subseteq Email /\ CrmCustomers \subseteq Email
  /\ InitialCarts \subseteq [Session -> Seq(Line)]
  /\ Scenarios \subseteq [Req -> Request]

\* What a write locks: a row, or the entry of a unique index.
Row == [table: {"customers"}, id: Email] \cup [table: {"coupons"}, id: {"coupon"}]
         \cup [table: {"orders"}, id: Key] \cup [table: {"products"}, id: Product]
         \cup [table: {"cart_items"}, id: Session]

CustomerRow(e) == [table |-> "customers", id |-> e]
CouponRow      == [table |-> "coupons", id |-> "coupon"]
KeyRow(k)      == [table |-> "orders", id |-> k]
ProductRow(p)  == [table |-> "products", id |-> p]
CartRow(s)     == [table |-> "cart_items", id |-> s]

VARIABLES
  request,     \* [Req -> Request]: the inputs, chosen at the start
  \* committed data
  orders, stock, couponUsed, customers, carts,
  \* the transactions
  pc,          \* the next operation of each request
  lines,       \* the items resolved
  nextLine,    \* the next item to write
  taken,       \* stock taken and not committed
  couponHeld,  \* coupon use counted and not committed
  newCustomer, \* customer row inserted and not committed
  inserted,    \* order row inserted and not committed
  cleared,     \* how many lines of the cart are deleted and not committed
  payment,     \* the (status, payment_status, payment_required) of the order row
  answer,      \* the order the response names
  owner,       \* [Row -> Req \cup {NoReq}]: who has the row locked
  \* outside the database
  authorized,  \* orders whose payment the gateway has authorized
  crm          \* what the CRM has been told: (order id, payment status)

data    == <<orders, stock, couponUsed, customers, carts>>
writes  == <<taken, couponHeld, newCustomer, inserted, cleared, payment>>
outside == <<authorized, crm>>
vars   == <<request, orders, stock, couponUsed, customers, carts, pc, lines, nextLine,
            taken, couponHeld, newCustomer, inserted, cleared, payment, answer, owner,
            authorized, crm>>

\* The payment columns an order row can have after a checkout.
PaymentColumns == [status: {"payment_pending", "paid"},
                   payment_status: {"pending", "paid", "failed"},
                   payment_required: {0, 1}]

Unpaid == [status |-> "payment_pending", payment_status |-> "pending", payment_required |-> 1]

Nothing == [p \in Product |-> 0]

InTransaction == {"cart", "customer", "update_customer", "insert_customer", "lookup",
                  "coupon", "bump", "insert", "relookup", "items", "clear_cart", "pay", "commit",
                  "raise", "append"}

Finished == {"done", "empty", "updated", "failed"}

Init ==
  /\ request \in Scenarios
  /\ orders = {} /\ stock = InitialStock /\ couponUsed = 0
  /\ customers = InitialCustomers /\ carts \in InitialCarts
  /\ pc = [r \in Req |-> "idle"]
  /\ lines = [r \in Req |-> <<>>]
  /\ nextLine = [r \in Req |-> 1]
  /\ taken = [r \in Req |-> Nothing]
  /\ couponHeld = [r \in Req |-> FALSE]
  /\ newCustomer = [r \in Req |-> FALSE]
  /\ inserted = [r \in Req |-> FALSE]
  /\ cleared = [r \in Req |-> 0]
  /\ payment = [r \in Req |-> Unpaid]
  /\ answer = [r \in Req |-> NoReq]
  /\ owner = [row \in Row |-> NoReq]
  /\ authorized = {} /\ crm = {}

----------------------------------------------------------------------------
\* Locks

\* Definitions named X_slip are X with a plausible slip in the code; the
\* properties below are tried against them (see the README).
Free_NoRowLocks(row, r) == TRUE

Free(row, r) == owner[row] \in {NoReq, r}
Lock(row, r) == owner' = [owner EXCEPT ![row] = r]

Released_Nothing(r) == owner

Released(r) == [row \in Row |-> IF owner[row] = r THEN NoReq ELSE owner[row]]

Goto(r, from, to) == pc[r] = from /\ pc' = [pc EXCEPT ![r] = to]

Discard_KeepsLocks(r) ==
  /\ owner' = owner
  /\ taken' = [taken EXCEPT ![r] = Nothing]
  /\ couponHeld' = [couponHeld EXCEPT ![r] = FALSE]
  /\ newCustomer' = [newCustomer EXCEPT ![r] = FALSE]
  /\ inserted' = [inserted EXCEPT ![r] = FALSE]
  /\ cleared' = [cleared EXCEPT ![r] = 0]
  /\ payment' = [payment EXCEPT ![r] = Unpaid]

\* The transaction's uncommitted writes are gone.
Discard(r) ==
  /\ owner' = Released(r)
  /\ taken' = [taken EXCEPT ![r] = Nothing]
  /\ couponHeld' = [couponHeld EXCEPT ![r] = FALSE]
  /\ newCustomer' = [newCustomer EXCEPT ![r] = FALSE]
  /\ inserted' = [inserted EXCEPT ![r] = FALSE]
  /\ cleared' = [cleared EXCEPT ![r] = 0]
  /\ payment' = [payment EXCEPT ![r] = Unpaid]
----------------------------------------------------------------------------

OfCart(r)     == request[r].via \in {"add", "remove"}
Storyboard(r) == request[r].via = "storyboard"

\* The handler up to its own transaction: shop.py and orders.py first refresh
\* the customers from the CRM, in a transaction that waits for locked rows;
\* nothing is imported when the CRM is off, down or was asked recently.
SyncCustomers(r) ==
  /\ ~OfCart(r) /\ Goto(r, "idle", "cart")
  /\ \E imported \in IF Storyboard(r) THEN {{}} ELSE {{}, CrmCustomers} :
       /\ \A e \in imported : owner[CustomerRow(e)] = NoReq
       /\ customers' = customers \cup imported
  /\ UNCHANGED <<request, orders, stock, couponUsed, carts, lines, nextLine, writes, answer,
                 owner, outside>>

\* The shop falls back on the posted items when the session's cart is empty;
\* the orders API reads one or the other; a journey orders the products it finds
\* dearest, in no session of the shop's.
ItemsOf(r) ==
  LET in   == request[r]
      cart == IF in.session = NoSession THEN <<>> ELSE carts[in.session]
  IN  IF in.via # "orders_api"
      THEN IF cart # <<>> THEN cart ELSE in.payload
      ELSE IF in.session # NoSession THEN cart ELSE in.payload

\* fetch_cart_items, resolve_direct_items and the early return on no items.
ResolveItems(r) ==
  /\ pc[r] = "cart"
  /\ lines' = [lines EXCEPT ![r] = ItemsOf(r)]
  /\ pc' = [pc EXCEPT ![r] = IF ItemsOf(r) = <<>> THEN "empty" ELSE "customer"]
  /\ UNCHANGED <<request, data, nextLine, writes, answer, owner, outside>>

\* The orders API locks the coupon before it knows the customer.
SelectCustomer_CouponFirst(r) ==
  /\ pc[r] = "customer"
  /\ pc' = [pc EXCEPT ![r] = IF request[r].email \in customers
                             THEN "update_customer" ELSE "insert_customer"]
  /\ IF request[r].via = "orders_api" /\ request[r].coupon
     THEN Free(CouponRow, r) /\ Lock(CouponRow, r)
     ELSE UNCHANGED owner
  /\ UNCHANGED <<request, data, lines, nextLine, writes, answer, outside>>

\* ensure_customer: look the e-mail up, then update the row or insert one.
SelectCustomer(r) ==
  /\ pc[r] = "customer"
  /\ pc' = [pc EXCEPT ![r] = IF request[r].email \in customers
                             THEN "update_customer" ELSE "insert_customer"]
  /\ UNCHANGED <<request, data, lines, nextLine, writes, answer, owner, outside>>

UpdateCustomer(r) ==
  LET row == CustomerRow(request[r].email) IN
  /\ Goto(r, "update_customer", "lookup")
  /\ Free(row, r) /\ Lock(row, r)
  /\ UNCHANGED <<request, data, lines, nextLine, writes, answer, outside>>

\* The unique index on customers.email refuses a row that was committed since
\* the lookup, and nothing catches the error: RollBack below.
InsertCustomer(r) ==
  LET row == CustomerRow(request[r].email) IN
  /\ Goto(r, "insert_customer", "lookup")
  /\ request[r].email \notin customers
  /\ Free(row, r) /\ Lock(row, r)
  /\ newCustomer' = [newCustomer EXCEPT ![r] = TRUE]
  /\ UNCHANGED <<request, data, lines, nextLine, taken, couponHeld, inserted, cleared, payment,
                 answer, outside>>

Placed_NeverFound(k) == {}

\* place_order: the order already placed under this key, if there is one.
Placed(k) == {o \in orders : o.key = k /\ k # NoKey}

Replay_NamesItself(r, o) ==
  /\ answer' = [answer EXCEPT ![r] = r]
  /\ payment' = [payment EXCEPT ![r] = o.payment]

Replay_ForgetsPayment(r, o) ==
  /\ answer' = [answer EXCEPT ![r] = o.id]
  /\ payment' = [payment EXCEPT ![r] = Unpaid]

Replay(r, o) ==
  /\ answer' = [answer EXCEPT ![r] = o.id]
  /\ payment' = [payment EXCEPT ![r] = o.payment]

Lookup(r) ==
  /\ pc[r] = "lookup"
  /\ \/ /\ \E o \in Placed(request[r].key) : Replay(r, o)
        /\ pc' = [pc EXCEPT ![r] = "commit"]
     \/ /\ Placed(request[r].key) = {}
        /\ pc' = [pc EXCEPT ![r] = IF request[r].coupon THEN "coupon" ELSE "insert"]
        /\ UNCHANGED <<answer, payment>>
  /\ UNCHANGED <<request, data, lines, nextLine, taken, couponHeld, newCustomer, inserted,
                 cleared, owner, outside>>

\* apply_coupon: read the count, compare, and only later count this use.
ReadCoupon(r) ==
  /\ pc[r] = "coupon"
  /\ pc' = [pc EXCEPT ![r] = IF CouponMaxUses # 0 /\ couponUsed >= CouponMaxUses
                             THEN "insert" ELSE "bump"]
  /\ UNCHANGED <<request, data, lines, nextLine, writes, answer, owner, outside>>

BumpCoupon(r) ==
  /\ Goto(r, "bump", "insert")
  /\ Free(CouponRow, r) /\ Lock(CouponRow, r)
  /\ couponHeld' = [couponHeld EXCEPT ![r] = TRUE]
  /\ UNCHANGED <<request, data, lines, nextLine, taken, newCustomer, inserted, cleared, payment,
                 answer, outside>>

\* The INSERT of the order.  A key taken by a committed order is refused: the
\* handler rolls the whole transaction back and looks the order up again.
\* While another request holds the key uncommitted, the INSERT waits.
InsertOrder(r) ==
  LET k == request[r].key IN
  /\ pc[r] = "insert"
  /\ k # NoKey => Free(KeyRow(k), r)
  /\ \/ /\ Placed(k) = {}
        /\ inserted' = [inserted EXCEPT ![r] = TRUE]
        /\ owner' = IF k = NoKey THEN owner ELSE [owner EXCEPT ![KeyRow(k)] = r]
        /\ answer' = [answer EXCEPT ![r] = r]
        /\ pc' = [pc EXCEPT ![r] = "items"]
        /\ UNCHANGED <<taken, couponHeld, newCustomer, cleared, payment>>
     \/ /\ Placed(k) # {}
        /\ Discard(r)
        /\ pc' = [pc EXCEPT ![r] = "relookup"]
        /\ UNCHANGED answer
  /\ UNCHANGED <<request, data, lines, nextLine, outside>>

Relookup(r) ==
  /\ Goto(r, "relookup", "commit")
  /\ \E o \in Placed(request[r].key) : Replay(r, o)
  /\ UNCHANGED <<request, data, lines, nextLine, taken, couponHeld, newCustomer, inserted,
                 cleared, owner, outside>>

\* One line of the order: its row, and the stock it takes if there is enough;
\* a line the stock cannot cover is ordered all the same and takes nothing.
TakenBy(r, line) ==
  IF stock[line.product] - taken[r][line.product] >= line.quantity THEN line.quantity ELSE 0

WriteLine(r) ==
  LET line == lines[r][nextLine[r]]
      row  == ProductRow(line.product)
  IN
  /\ pc[r] = "items"
  /\ Free(row, r) /\ Lock(row, r)
  /\ taken' = [taken EXCEPT ![r][line.product] = @ + TakenBy(r, line)]
  /\ nextLine' = [nextLine EXCEPT ![r] = @ + 1]
  /\ pc' = [pc EXCEPT ![r] = IF nextLine[r] = Len(lines[r]) THEN "clear_cart" ELSE "items"]
  /\ UNCHANGED <<request, data, lines, couponHeld, newCustomer, inserted, cleared, payment,
                 answer, outside>>

\* The shipment and audit rows, then DELETE FROM cart_items: it locks the rows
\* it finds.  The orders API has nothing more to do before it commits.
ClearCart(r) ==
  LET s == request[r].session IN
  /\ pc[r] = "clear_cart"
  /\ pc' = [pc EXCEPT ![r] = IF request[r].via = "orders_api" THEN "commit" ELSE "pay"]
  /\ IF s # NoSession /\ carts[s] # <<>>
     THEN /\ Free(CartRow(s), r) /\ Lock(CartRow(s), r)
          /\ cleared' = [cleared EXCEPT ![r] = Len(carts[s])]
     ELSE UNCHANGED <<owner, cleared>>
  /\ UNCHANGED <<request, data, lines, nextLine, taken, couponHeld, newCustomer, inserted,
                 payment, answer, outside>>

ColumnsFor_TimeoutPaid(decision) ==
  CASE decision \in {"authorized", "timeout"} ->
         [status |-> "paid", payment_status |-> "paid", payment_required |-> 0]
    [] decision = "declined" ->
         [status |-> "payment_pending", payment_status |-> "failed", payment_required |-> 1]

\* update_order_payment_state: the columns each gateway decision writes.
ColumnsFor(decision) ==
  CASE decision = "authorized" ->
         [status |-> "paid", payment_status |-> "paid", payment_required |-> 0]
    [] decision \in {"declined", "timeout"} ->
         [status |-> "payment_pending", payment_status |-> "failed", payment_required |-> 1]

\* authorize_simulated_payment, with the transaction open, and the columns its
\* decision writes; with the simulation off it is skipped and writes nothing.
Authorize(r) ==
  /\ ~Storyboard(r) /\ Goto(r, "pay", "commit")
  /\ \/ UNCHANGED <<payment, authorized>>
     \/ \E decision \in {"authorized", "declined", "timeout"} :
          /\ payment' = [payment EXCEPT ![r] = ColumnsFor(decision)]
          /\ authorized' = IF decision = "authorized" THEN authorized \cup {r} ELSE authorized
  /\ UNCHANGED <<request, data, lines, nextLine, taken, couponHeld, newCustomer, inserted,
                 cleared, answer, owner, crm>>

\* A journey asks the Java sidecar alone: any answer authorizes the payment, its
\* refusal too, and no answer leaves it pending.
AskSidecar(r) ==
  /\ Storyboard(r) /\ Goto(r, "pay", "commit")
  /\ \/ UNCHANGED <<payment, authorized>>
     \/ /\ payment' = [payment EXCEPT ![r] = ColumnsFor("authorized")]
        /\ authorized' = authorized \cup {r}
  /\ UNCHANGED <<request, data, lines, nextLine, taken, couponHeld, newCustomer, inserted,
                 cleared, answer, owner, crm>>

OrderOf_CouponClaimed(r) ==
  [id |-> r, key |-> request[r].key, email |-> request[r].email, lines |-> lines[r],
   taken |-> taken[r], coupon |-> request[r].coupon, payment |-> payment[r]]

CartsAfter_All(r) ==
  IF inserted[r] /\ request[r].session # NoSession
  THEN [carts EXCEPT ![request[r].session] = <<>>] ELSE carts

\* get_db: the session's commit makes the transaction's writes visible at once.
OrderOf(r) == [id |-> r, key |-> request[r].key, email |-> request[r].email,
               lines |-> lines[r], taken |-> taken[r], coupon |-> couponHeld[r],
               payment |-> payment[r]]

\* The lines its DELETE found are gone; what was added since stays.
CartsAfter(r) ==
  IF inserted[r] /\ request[r].session # NoSession
  THEN [carts EXCEPT ![request[r].session] = SubSeq(@, cleared[r] + 1, Len(@))] ELSE carts

Commit(r) ==
  /\ Goto(r, "commit", "crm")
  /\ orders' = IF inserted[r] THEN orders \cup {OrderOf(r)} ELSE orders
  /\ stock' = [p \in Product |-> stock[p] - taken[r][p]]
  /\ couponUsed' = couponUsed + (IF couponHeld[r] THEN 1 ELSE 0)
  /\ customers' = IF newCustomer[r] THEN customers \cup {request[r].email} ELSE customers
  /\ carts' = CartsAfter(r)
  /\ owner' = Released(r)
  /\ taken' = [taken EXCEPT ![r] = Nothing]
  /\ couponHeld' = [couponHeld EXCEPT ![r] = FALSE]
  /\ newCustomer' = [newCustomer EXCEPT ![r] = FALSE]
  /\ inserted' = [inserted EXCEPT ![r] = FALSE]
  /\ cleared' = [cleared EXCEPT ![r] = 0]
  /\ UNCHANGED <<request, lines, nextLine, payment, answer, outside>>

\* sync_order_to_crm, after the commit: it reports failure and never raises.  The
\* journey does not call it.
SyncOrder(r) ==
  /\ Goto(r, "crm", "done")
  /\ \/ UNCHANGED crm
     \/ /\ ~Storyboard(r)
        /\ crm' = crm \cup {[id |-> answer[r], payment_status |-> payment[r].payment_status]}
  /\ UNCHANGED <<request, data, lines, nextLine, writes, answer, owner, authorized>>
----------------------------------------------------------------------------
\* The cart's own requests: a transaction each, of which one statement writes and
\* the next thing is the commit.

OfProduct(r, i) == carts[request[r].session][i].product = request[r].payload[1].product

\* A line that a checkout has deleted, and not yet for good, keeps a statement waiting.
LineFree(s, i) == \A r \in Req : owner[CartRow(s)] = r => i > cleared[r]

\* The request is over, with the cart s as c.
Becomes(r, c) ==
  /\ carts' = [carts EXCEPT ![request[r].session] = c]
  /\ pc' = [pc EXCEPT ![r] = "updated"]
  /\ UNCHANGED <<request, orders, stock, couponUsed, customers, lines, nextLine, writes,
                 answer, owner, outside>>

\* add_to_cart: no line for a product that is out of stock; is there one already?
FindLine(r) ==
  /\ pc[r] = "idle" /\ request[r].via = "add"
  /\ pc' = [pc EXCEPT ![r] =
       IF stock[request[r].payload[1].product] = 0 THEN "empty"
       ELSE IF \E i \in 1 .. Len(carts[request[r].session]) : OfProduct(r, i)
            THEN "raise" ELSE "append"]
  /\ UNCHANGED <<request, data, lines, nextLine, writes, answer, owner, outside>>

\* Its quantity is raised; if the line is gone by then nothing is, and the answer is
\* "added" all the same.
RaiseLine(r) ==
  LET cart == carts[request[r].session] IN
  /\ pc[r] = "raise"
  /\ \/ /\ ~\E i \in 1 .. Len(cart) : OfProduct(r, i)
        /\ Becomes(r, cart)
     \/ \E i \in 1 .. Len(cart) :
          /\ OfProduct(r, i) /\ LineFree(request[r].session, i)
          /\ Becomes(r, [cart EXCEPT ![i].quantity = @ + request[r].payload[1].quantity])

\* An INSERT waits for no one: also a second line of the product, and one that comes
\* after a checkout's DELETE.
AppendLine(r) ==
  /\ pc[r] = "append"
  /\ Becomes(r, Append(carts[request[r].session], request[r].payload[1]))

\* remove_from_cart: the line, if it is there.
RemoveLine(r) ==
  LET cart == carts[request[r].session] IN
  /\ pc[r] = "idle" /\ request[r].via = "remove"
  /\ \/ /\ ~\E i \in 1 .. Len(cart) : OfProduct(r, i)
        /\ Becomes(r, cart)
     \/ \E i \in 1 .. Len(cart) :
          /\ OfProduct(r, i) /\ LineFree(request[r].session, i)
          /\ Becomes(r, SubSeq(cart, 1, i - 1) \o SubSeq(cart, i + 1, Len(cart)))
----------------------------------------------------------------------------
\* Failures

\* get_db: an error in the block rolls back and is raised; a worker that dies
\* leaves the database to do the same.
RollBack(r) ==
  /\ pc[r] \in InTransaction
  /\ Discard(r)
  /\ pc' = [pc EXCEPT ![r] = "failed"]
  /\ answer' = [answer EXCEPT ![r] = NoReq]
  /\ UNCHANGED <<request, data, lines, nextLine, outside>>

\* The unique index on customers.email refuses the INSERT.
CustomerRefused(r) ==
  /\ pc[r] = "insert_customer" /\ request[r].email \in customers
  /\ Free(CustomerRow(request[r].email), r)
  /\ RollBack(r)

\* The row the next statement of r needs, if it needs one.
Wanted(r) ==
  LET in == request[r] IN
  CASE pc[r] \in {"update_customer", "insert_customer"} -> {CustomerRow(in.email)}
    [] pc[r] = "bump" -> {CouponRow}
    [] pc[r] = "insert" /\ in.key # NoKey -> {KeyRow(in.key)}
    [] pc[r] = "items" -> {ProductRow(lines[r][nextLine[r]].product)}
    [] pc[r] = "clear_cart" /\ in.session # NoSession ->
         {CartRow(in.session)} \cap {CartRow(s) : s \in {t \in Session : carts[t] # <<>>}}
    [] OTHER -> {}

WaitsFor(r) == {owner[row] : row \in Wanted(r)} \ {r, NoReq}

\* Requests that wait for one another in a circle.
Waiting(S) == S # {} /\ \A r \in S : WaitsFor(r) \cap S # {}

Deadlocked(S) == Waiting(S) /\ \A T \in SUBSET S : Waiting(T) => T = S

\* The database breaks a deadlock by failing a statement of one of them.
DeadlockVictim(r) ==
  /\ \E S \in SUBSET Req : r \in S /\ Deadlocked(S)
  /\ RollBack(r)

\* The worker dies after the commit: the CRM is never told.
DieAfterCommit(r) ==
  /\ Goto(r, "crm", "failed")
  /\ answer' = [answer EXCEPT ![r] = NoReq]
  /\ UNCHANGED <<request, data, lines, nextLine, writes, owner, outside>>
----------------------------------------------------------------------------
Step(r) ==
  \/ SyncCustomers(r) \/ ResolveItems(r) \/ SelectCustomer(r) \/ UpdateCustomer(r)
  \/ InsertCustomer(r) \/ CustomerRefused(r) \/ Lookup(r) \/ ReadCoupon(r) \/ BumpCoupon(r)
  \/ InsertOrder(r) \/ Relookup(r) \/ WriteLine(r) \/ ClearCart(r) \/ Authorize(r)
  \/ AskSidecar(r) \/ Commit(r) \/ SyncOrder(r)
  \/ FindLine(r) \/ RaiseLine(r) \/ AppendLine(r) \/ RemoveLine(r)

Fail(r) == RollBack(r) \/ DeadlockVictim(r) \/ DieAfterCommit(r)

\* Every request has been answered or has failed.
AllFinished == (\A r \in Req : pc[r] \in Finished) /\ UNCHANGED vars

Next == (\E r \in Req : Step(r) \/ Fail(r)) \/ AllFinished

\* A worker that has not died goes on, and the database breaks every deadlock.
Fairness ==
  /\ \A r \in Req : WF_vars(Step(r))
  /\ WF_vars(\E r \in Req : DeadlockVictim(r))

Spec == Init /\ [][Next]_vars

FairSpec == Spec /\ Fairness
----------------------------------------------------------------------------

\* Types

Placeable == [id: Req, key: Key \cup {NoKey}, email: Email, lines: Seq(Line),
              taken: [Product -> Nat], coupon: BOOLEAN, payment: PaymentColumns]

TypeOK ==
  /\ request \in [Req -> Request]
  /\ orders \subseteq Placeable
  /\ stock \in [Product -> Nat]
  /\ couponUsed \in Nat
  /\ customers \subseteq Email
  /\ carts \in [Session -> Seq(Line)]
  /\ pc \in [Req -> InTransaction \cup {"idle", "crm"} \cup Finished]
  /\ lines \in [Req -> Seq(Line)]
  /\ nextLine \in [Req -> Nat \ {0}]
  /\ taken \in [Req -> [Product -> Nat]]
  /\ couponHeld \in [Req -> BOOLEAN]
  /\ newCustomer \in [Req -> BOOLEAN]
  /\ inserted \in [Req -> BOOLEAN]
  /\ cleared \in [Req -> Nat]
  /\ payment \in [Req -> PaymentColumns]
  /\ answer \in [Req -> Req \cup {NoReq}]
  /\ owner \in [Row -> Req \cup {NoReq}]
  /\ authorized \subseteq Req
  /\ crm \subseteq [id: Req, payment_status: {"pending", "paid", "failed"}]
----------------------------------------------------------------------------
\* Safety

\* However two deliveries of one checkout interleave, one order is placed under
\* their key: the lookup before the INSERT, the wait on the unique index and
\* the lookup after its refusal leave no gap (place_order).
OneOrderPerKey ==
  \A o1, o2 \in orders : o1.key = o2.key /\ o1.key # NoKey => o1 = o2

\* The units of p the orders took, one by one: order o took its n-th unit.
UnitsTaken(p) == UNION {{o} \X (1 .. o.taken[p]) : o \in orders}

CouponOrders == {o \in orders : o.coupon}

\* The counters agree with the order rows: what left the stock is what the
\* orders took, and used_count counts exactly the orders that used the coupon,
\* however many checkouts were rolled back (place_order, apply_coupon, get_db).
BooksBalance ==
  /\ \A p \in Product : stock[p] + Cardinality(UnitsTaken(p)) = InitialStock[p]
  /\ couponUsed = Cardinality(CouponOrders)

\* A response that names an order names one that is committed under the
\* request's own key, for its own order or as a replay: a retry is never told
\* of an order that was then rolled back (checkout, idempotent_replay).
AnsweredOrderExists ==
  \A r \in Req : pc[r] \in {"crm", "done"} =>
    \E o \in orders :
      /\ o.id = answer[r]
      /\ o.key = request[r].key
      /\ o.payment = payment[r]
      /\ o.id = r \/ o.key # NoKey

\* Only a running transaction holds locks: every way out of get_db releases them.
LocksReleased ==
  \A row \in Row : owner[row] # NoReq => pc[owner[row]] \in InTransaction

\* place_order locks the customer, the coupon, the key, the products, the cart,
\* in that order: requests can only ever block one another in a circle over
\* products, whose order is each cart's own.
DeadlockOnlyOnProducts ==
  \A S \in SUBSET Req : Waiting(S) => \E r \in S : pc[r] = "items"

\* An order shows paid exactly when the gateway authorized it in the very
\* transaction that placed it, and paid orders ask for no more payment
\* (update_order_payment_state).
PaidIffAuthorized ==
  \A o \in orders :
    /\ o.payment.status = "paid" <=> o.id \in authorized
    /\ o.payment.status = "paid" <=> o.payment.payment_required = 0

\* The CRM hears only of orders that are in the shop's tables, with the payment
\* status they have there, retries and replays included (sync_order_to_crm).
CrmToldTheTruth ==
  \A m \in crm : \E o \in orders : o.id = m.id /\ o.payment.payment_status = m.payment_status

\* Every line is still there, with no less of its product.
Kept(cart, later) ==
  /\ Len(cart) <= Len(later)
  /\ \A i \in 1 .. Len(cart) :
       later[i].product = cart[i].product /\ later[i].quantity >= cart[i].quantity

\* A cart loses lines only to the request that takes one out and in the step that
\* commits an order placed from that session, which leaves it the lines added after
\* its DELETE: a failed, refused or replayed checkout takes none, whatever the buyer
\* does to the cart in the meantime.
CartConsumedByOrder ==
  [][\A s \in Session :
       \/ Kept(carts[s], carts'[s])
       \/ \E o \in orders' \ orders :
            /\ request[o.id].session = s
            /\ carts'[s] = SubSeq(carts[s], cleared[o.id] + 1, Len(carts[s]))
       \/ \E r \in Req : request[r].via = "remove" /\ request[r].session = s
                         /\ pc[r] = "idle" /\ pc'[r] = "updated"]_vars

\* Whatever interleaves, waits, is refused or dies, every change of the tables
\* is one order appearing with all it took (OrderLedger).
Ledger == INSTANCE OrderLedger
            WITH orders <- orders, stock <- stock, couponUsed <- couponUsed
LedgerSpec == Ledger!Spec

\* Every request is answered or fails: waits on rows end, deadlocks are broken.
EveryRequestEnds == \A r \in Req : <>(pc[r] \in Finished)
----------------------------------------------------------------------------
\* The inductive invariant: what each transaction holds, and what that makes
\* true of its uncommitted writes.

\* An order row is written and not committed exactly while its lines, its
\* shipment and its payment are; only such a transaction has taken stock.
WritesFollowInsert ==
  \A r \in Req :
    /\ inserted[r] => pc[r] \in {"items", "clear_cart", "pay", "commit"} /\ answer[r] = r
    /\ pc[r] \in {"items", "clear_cart", "pay"} => inserted[r]
    /\ ~inserted[r] => taken[r] = Nothing
    /\ couponHeld[r] /\ ~inserted[r] => pc[r] = "insert"

\* A transaction locks nothing before it has items to order, a cart's request nothing
\* that outlives its step.
LocksFollowItems ==
  \A row \in Row : owner[row] # NoReq =>
    pc[owner[row]] \in InTransaction \ {"cart", "raise", "append"}

\* The next line is one of the order's lines; a cart's request is at its own steps.
LinesLeft ==
  \A r \in Req :
    /\ pc[r] \in {"idle", "cart"} => nextLine[r] = 1
    /\ pc[r] \in {"customer", "update_customer", "insert_customer", "lookup", "coupon", "bump",
                  "insert"} => lines[r] # <<>> /\ nextLine[r] = 1
    /\ pc[r] = "items" => nextLine[r] <= Len(lines[r])
    /\ pc[r] \in {"raise", "append"} => request[r].via = "add"

\* Uncommitted stock belongs to the holder of the row's lock, and is there.
StockHeld ==
  \A r \in Req, p \in Product :
    /\ taken[r][p] <= stock[p]
    /\ taken[r][p] # 0 => owner[ProductRow(p)] = r

\* So does an uncommitted order's key, which no committed order has.
KeyHeld ==
  \A r \in Req : inserted[r] /\ request[r].key # NoKey =>
    /\ owner[KeyRow(request[r].key)] = r
    /\ Placed(request[r].key) = {}

\* An order in the tables was put there by a transaction that is over.
OrdersOfEnded == \A o \in orders : pc[o.id] \in {"crm", "done", "failed"}

\* A replay about to answer has seen a committed order under its key.
ReplaySeen ==
  \A r \in Req : pc[r] = "commit" /\ ~inserted[r] =>
    \E o \in orders :
      o.id = answer[r] /\ o.key = request[r].key /\ o.payment = payment[r] /\ o.key # NoKey

IInv ==
  /\ TypeOK
  /\ WritesFollowInsert
  /\ LinesLeft
  /\ StockHeld
  /\ KeyHeld
  /\ OrdersOfEnded
  /\ ReplaySeen
  /\ OneOrderPerKey
  /\ AnsweredOrderExists
  /\ LocksFollowItems

\* The payment columns an open transaction has written are the gateway's
\* decision about its own order, and nothing before it is asked.
PaymentsFollowGateway ==
  \A r \in Req :
    /\ pc[r] \in {"idle"} \cup (InTransaction \ {"commit"}) =>
         payment[r] = Unpaid /\ r \notin authorized
    /\ inserted[r] =>
         /\ payment[r].status = "paid" <=> r \in authorized
         /\ payment[r].status = "paid" <=> payment[r].payment_required = 0

\* Where a transaction can be that has locked a row of the table.
HeldDuring(table) ==
  LET written == {"items", "clear_cart", "pay", "commit"} IN
  CASE table = "customers"            -> {"lookup", "coupon", "bump", "insert"} \cup written
    [] table = "coupons"              -> {"insert"} \cup written
    [] table \in {"orders", "products"} -> written
    [] table = "cart_items"           -> {"pay", "commit"}

\* Rows are locked in the order of the tables: who has one is past the statements that
\* lock a row of that table, and only the products are locked by several statements.
LocksFollowOrder ==
  \A row \in Row : owner[row] # NoReq => pc[owner[row]] \in HeldDuring(row.table)

\* The order rows can be counted, and so can what they took.
BooksCounted ==
  /\ BooksBalance
  /\ IsFiniteSet(CouponOrders)
  /\ \A p \in Product : IsFiniteSet(UnitsTaken(p))
=============================================================================
