----------------------------- MODULE BackOffice -----------------------------
(***************************************************************************)
(* The forms of the back office (admin.py), the tickets, campaigns, leads, *)
(* reviews and shipments of the other modules, the catalogue the CRM       *)
(* pushes (crm_catalog_sync.py) and the reconciliation every replica runs  *)
(* when it starts (database.py), as transactions that look a row up, write *)
(* it, look it up again to name it and commit, while checkouts take units  *)
(* of the same products.  The database is READ COMMITTED: a statement sees *)
(* what is committed and its own writes, a written row is locked to the    *)
(* end of the transaction, a unique key in doubt makes an insert wait.     *)
(***************************************************************************)
EXTENDS Integers, Sequences, FiniteSets

CONSTANTS
  Clerk,      \* requests and starting replicas, each one transaction at a time
  Nobody,
  Key,        \* SKUs, e-mails, invoice numbers, names: normalised by their form
  NoRow,
  Forms,      \* the handlers that take part: a subset of those defined below
  Batches,    \* the lists of lines the CRM pushes
  SeedStock,  \* what SEED_PRODUCTS says of the stock of the products it lists
  Loaded,     \* how many of them an earlier release has put in the database
  Dialect,    \* "postgresql" or "oracle": what func.now() is
  MaxId,      \* bound on the rows of a table
  MaxStock,   \* bound on the stock a form may carry
  MaxJobs,    \* bound on the forms submitted
  MaxSales,   \* bound on the units sold
  MaxTime     \* bound on the clock

Ids   == 1 .. MaxId
Stock == 0 .. MaxStock
Time  == 0 .. MaxTime

\* stock is what the row says, form what the last form set it to, mark how many
\* units of it had been sold by then.  Of other tables the key alone is kept.
Row  == [key: Key, stock: Stock, form: Stock, mark: 0 .. MaxSales]
Line == [key: Key, stock: Stock]
----------------------------------------------------------------------------
\* The handlers: how each finds, checks and names the row it writes.  "key": by
\* the unique key it wrote; "highest": the highest id, "newest": the latest
\* created_at, of that title, name or owner; "id": by the id of its path; "none":
\* nothing is written about the row.

Form(kind, table, checks, names) ==
  [kind |-> kind, table |-> table, checks |-> checks, names |-> names]

CreateProduct  == Form("create", "products",  TRUE,  "key")
UpdateProduct  == Form("update", "products",  TRUE,  "id")
CreateCustomer == Form("create", "customers", TRUE,  "key")
UpdateCustomer == Form("update", "customers", TRUE,  "id")
CreateInvoice  == Form("create", "invoices",  FALSE, "key")
UpdateInvoice  == Form("update", "invoices",  TRUE,  "id")
CreateUser     == Form("create", "users",     FALSE, "none")
CreatePartner  == Form("create", "shops",     FALSE, "none")
CreateShop     == Form("create", "shops",     FALSE, "newest")
UpdateShop     == Form("update", "shops",     FALSE, "id")
CreateOrder    == Form("create", "orders",    FALSE, "newest")
UpdateOrder    == Form("update", "orders",    FALSE, "id")
CreateTicket   == Form("create", "tickets",   FALSE, "highest")
CreateCampaign == Form("create", "campaigns", FALSE, "none")
CreateLead     == Form("create", "leads",     FALSE, "none")
CreateReview   == Form("create", "reviews",   FALSE, "none")
UpdateShipment == Form("update", "shipments", FALSE, "none")
CatalogSync    == Form("upsert", "products",  FALSE, "key")
SeedCatalog    == Form("seed",   "products",  FALSE, "none")

Handlers ==
  {CreateProduct, UpdateProduct, CreateCustomer, UpdateCustomer, CreateInvoice,
   UpdateInvoice, CreateUser, CreatePartner, CreateShop, UpdateShop, CreateOrder,
   UpdateOrder, CreateTicket, CreateCampaign, CreateLead, CreateReview,
   UpdateShipment, CatalogSync, SeedCatalog}

\* The tables with a unique key: sku, email, invoice_number, username.
Unique == {"products", "customers", "invoices", "users"}
Tables == {f.table : f \in Forms} \cup {"products"}

\* The tables whose created_at anything is decided by.
Dated == {"shops", "orders"}

ASSUME ConstantsAssumption ==
  /\ Nobody \notin Clerk /\ NoRow \notin Row
  /\ Forms \subseteq Handlers
  /\ MaxId \in Nat \ {0} /\ MaxStock \in Nat
  /\ MaxJobs \in Nat /\ MaxSales \in Nat /\ MaxTime \in Nat
  /\ Dialect \in {"postgresql", "oracle"}
  /\ Batches \subseteq Seq(Line) \ {<<>>} /\ SeedStock \in Seq(Line) \ {<<>>}
  /\ Loaded \in 0 .. Len(SeedStock) /\ Loaded <= MaxId
  /\ \A i, j \in 1 .. Len(SeedStock) : SeedStock[i].key = SeedStock[j].key => i = j
----------------------------------------------------------------------------
VARIABLES
  \* the database
  rows,    \* the committed rows of each table
  lock,    \* the clerk whose uncommitted write holds a row
  draft,   \* what that clerk has written to it
  nextId,  \* the identity sequence of each table: never rolled back
  created, \* the created_at of the rows of dated tables
  trail,   \* audit entries and first messages: the row named, and the row written
  \* the transactions
  job,     \* what a clerk is doing
  note,    \* the trail entries it has not committed
  \* outside
  sold,    \* units of each product that checkouts have sold
  jobs,    \* forms submitted so far
  now      \* the database's clock, in ticks within which created_at is the same

data == <<rows, lock, draft, nextId, created, trail>>
vars == <<rows, lock, draft, nextId, created, trail, job, note, sold, jobs, now>>

Unseen == [i \in Ids |-> NoRow]

Idle == [form |-> CreateProduct, id |-> 0, lines |-> <<>>, step |-> "idle", found |-> 0,
         seen |-> Unseen, began |-> 0]

Written(l, m) == [key |-> l.key, stock |-> l.stock, form |-> l.stock, mark |-> m]

\* The shop opens with the products of its seed list.
Init ==
  /\ rows = [t \in Tables |-> [i \in Ids |->
                IF t = "products" /\ i <= Loaded THEN Written(SeedStock[i], 0) ELSE NoRow]]
  /\ lock = [t \in Tables |-> [i \in Ids |-> Nobody]]
  /\ draft = [t \in Tables |-> [i \in Ids |-> NoRow]]
  /\ nextId = [t \in Tables |-> IF t = "products" THEN Loaded + 1 ELSE 1]
  /\ created = [t \in Tables |-> [i \in Ids |-> 0]]
  /\ trail = {}
  /\ job = [c \in Clerk |-> Idle]
  /\ note = [c \in Clerk |-> {}]
  /\ sold = [i \in Ids |-> 0]
  /\ jobs = 0 /\ now = 0
----------------------------------------------------------------------------
\* What the database shows and refuses

Visible(c, t) == [i \in Ids |-> IF lock[t][i] = c THEN draft[t][i] ELSE rows[t][i]]

Named(view, k) == {i \in Ids : view[i] # NoRow /\ view[i].key = k}

\* Another row has the key, for good or in doubt.
Taken(c, t, i, k)  == Named(Visible(c, t), k) \ {i} # {}
InDoubt(c, t, i, k) ==
  \E j \in Ids \ {i} :
    /\ lock[t][j] \notin {Nobody, c}
    /\ \E r \in {rows[t][j], draft[t][j]} : r # NoRow /\ r.key = k

Sold(t, i) == IF t = "products" THEN sold[i] ELSE 0

\* A statement writes row i: the row stays locked until its clerk is done.
Put(c, t, i, l) ==
  /\ lock[t][i] \in {Nobody, c}
  /\ t \in Unique => ~Taken(c, t, i, l.key) /\ ~InDoubt(c, t, i, l.key)
  /\ lock' = [lock EXCEPT ![t][i] = c]
  /\ draft' = [draft EXCEPT ![t][i] = Written(l, Sold(t, i))]

Refused(c, t, i, k) == t \in Unique /\ Taken(c, t, i, k) /\ ~InDoubt(c, t, i, k)

\* get_db: an exception rolls everything back, the end of the handler commits.
Released(c, held, free) ==
  [t \in Tables |-> [i \in Ids |-> IF lock[t][i] = c THEN free ELSE held[t][i]]]

End(c) ==
  /\ lock' = Released(c, lock, Nobody)
  /\ draft' = Released(c, draft, NoRow)
  /\ job' = [job EXCEPT ![c] = Idle]
  /\ note' = [note EXCEPT ![c] = {}]
  /\ UNCHANGED <<nextId, created, sold, jobs, now>>

RollBack(c) == End(c) /\ UNCHANGED <<rows, trail>>
----------------------------------------------------------------------------
\* The transactions

Busy(c, step) == job[c].step = step
LineOf(c)     == Head(job[c].lines)
TableOf(c)    == job[c].form.table
To(c, step)   == [job EXCEPT ![c].step = step]

Begin(c, f, i, lines) ==
  /\ job[c].step = "idle" /\ jobs < MaxJobs
  /\ jobs' = jobs + 1
  /\ job' = [job EXCEPT ![c] =
               [form |-> f, id |-> i, lines |-> lines, step |-> "find", found |-> 0,
                seen |-> IF f.kind = "seed" THEN rows[f.table] ELSE Unseen,
                began |-> IF f.table \in Dated THEN now ELSE 0]]
  /\ UNCHANGED <<data, note, sold, now>>

\* A form carries one row; the CRM a batch, validated before the first statement;
\* a starting replica its seed list, next to the products it has loaded.
Submit(c, f) == \E l \in Line, i \in Ids :
  /\ f.kind \in {"create", "update"} /\ (f.table = "products" \/ l.stock = 0)
  /\ Begin(c, f, IF f.kind = "update" THEN i ELSE 0, <<l>>)

Push(c, f) == \E lines \in Batches : f.kind = "upsert" /\ Begin(c, f, 0, lines)

StartUp(c, f) == f.kind = "seed" /\ Begin(c, f, 0, SeedStock)

\* The form's row must exist and its key be free; a batch takes any row found.
Find(c) ==
  /\ Busy(c, "find")
  /\ LET f    == job[c].form
         view == IF f.kind = "seed" THEN job[c].seen ELSE Visible(c, f.table)
         same == Named(view, LineOf(c).key)
         away == f.kind = "update" /\ view[job[c].id] = NoRow
         dup  == f.checks /\ same \ {job[c].id} # {}
     IN \/ (away \/ dup) /\ RollBack(c)
        \/ /\ ~away /\ ~dup
           /\ \E i \in IF f.kind = "update" THEN {job[c].id}
                       ELSE IF f.kind # "create" /\ same # {} THEN same ELSE {0} :
                job' = [job EXCEPT ![c].found = i, ![c].step = "write"]
           /\ UNCHANGED <<data, note, sold, jobs, now>>

\* created_at: the start of the transaction on PostgreSQL, on Oracle the time of
\* the INSERT, which an order keeps to the second.
Stamp(c) ==
  IF TableOf(c) \notin Dated THEN 0
  ELSE IF Dialect = "postgresql" THEN job[c].began ELSE now

Insert(c) ==
  /\ Busy(c, "write") /\ job[c].found = 0
  /\ LET t == TableOf(c) n == nextId[t] IN
     \/ /\ n <= MaxId
        /\ Put(c, t, n, LineOf(c))
        /\ nextId' = [nextId EXCEPT ![t] = n + 1]
        /\ created' = [created EXCEPT ![t][n] = Stamp(c)]
        /\ job' = [job EXCEPT ![c].found = n, ![c].step = "reselect"]
        /\ UNCHANGED <<rows, trail, note, sold, jobs, now>>
     \/ Refused(c, t, n, LineOf(c).key) /\ RollBack(c)

\* The reconciliation assigns to the objects it loaded: what differs from the
\* loaded row is written, the key is not among it.
Update(c) ==
  /\ Busy(c, "write") /\ job[c].found # 0
  /\ LET t == TableOf(c) i == job[c].found
         seeds == job[c].form.kind = "seed"
         same  == seeds /\ job[c].seen[i].stock = LineOf(c).stock
         l     == IF seeds THEN [LineOf(c) EXCEPT !.key = rows[t][i].key] ELSE LineOf(c)
     IN \/ same /\ job' = To(c, "name") /\ UNCHANGED <<data, note, sold, jobs, now>>
        \/ /\ ~same /\ Put(c, t, i, l) /\ job' = To(c, "name")
           /\ UNCHANGED <<rows, nextId, created, trail, note, sold, jobs, now>>
        \/ /\ ~same /\ lock[t][i] \in {Nobody, c}
           /\ Refused(c, t, i, l.key) /\ RollBack(c)

Names_Oldest(c) ==
  LET t == TableOf(c) same == Named(Visible(c, t), LineOf(c).key) IN
  IF Busy(c, "name") THEN {job[c].found}
  ELSE IF job[c].form.names = "key" THEN same
  ELSE IF job[c].form.names = "highest" THEN {i \in same : \A j \in same : j <= i}
  ELSE {i \in same : \A j \in same : created[t][i] <= created[t][j]}

\* The trail names an updated row by its id and an inserted one by what a SELECT
\* finds under its key, MAX(id), or ORDER BY created_at DESC and the first row, any
\* one of those created at the same time; then comes the next line.
Names(c) ==
  LET t == TableOf(c) same == Named(Visible(c, t), LineOf(c).key) IN
  IF Busy(c, "name") THEN {job[c].found}
  ELSE IF job[c].form.names = "key" THEN same
  ELSE IF job[c].form.names = "highest" THEN {i \in same : \A j \in same : j <= i}
  ELSE {i \in same : \A j \in same : created[t][j] <= created[t][i]}

Name(c) ==
  /\ Busy(c, "name") \/ Busy(c, "reselect")
  /\ \E i \in Names(c) :
       note' = IF job[c].form.names = "none" THEN note
               ELSE [note EXCEPT ![c] = @ \cup
                       {[table |-> TableOf(c), named |-> i, own |-> job[c].found,
                         began |-> job[c].began, made |-> created[TableOf(c)][i]]}]
  /\ job' = [job EXCEPT ![c].lines = Tail(@), ![c].found = 0,
                        ![c].step = IF Len(job[c].lines) = 1 THEN "commit" ELSE "find"]
  /\ UNCHANGED <<data, sold, jobs, now>>

Commit(c) ==
  /\ Busy(c, "commit")
  /\ rows' = [t \in Tables |-> Visible(c, t)]
  /\ trail' = trail \cup note[c]
  /\ End(c)

\* The connection, the process or the database gives the transaction up: also
\* when two batches wait for each other's products.
GiveUp(c) == job[c].step # "idle" /\ RollBack(c)

Sell_Unlocked(i) ==
  /\ rows["products"][i] # NoRow /\ rows["products"][i].stock > 0
  /\ sold[i] < MaxSales
  /\ rows' = [rows EXCEPT !["products"][i].stock = @ - 1]
  /\ sold' = [sold EXCEPT ![i] = @ + 1]
  /\ UNCHANGED <<lock, draft, nextId, created, trail, job, note, jobs, now>>

Sell_Short(i) ==
  /\ lock["products"][i] = Nobody
  /\ rows["products"][i] # NoRow
  /\ sold[i] < MaxSales
  /\ rows' = [rows EXCEPT !["products"][i].stock = @ - 1]
  /\ sold' = [sold EXCEPT ![i] = @ + 1]
  /\ UNCHANGED <<lock, draft, nextId, created, trail, job, note, jobs, now>>

\* A checkout takes a unit, in one statement on the row as it then is.
Sell(i) ==
  /\ lock["products"][i] = Nobody
  /\ rows["products"][i] # NoRow /\ rows["products"][i].stock > 0
  /\ sold[i] < MaxSales
  /\ rows' = [rows EXCEPT !["products"][i].stock = @ - 1]
  /\ sold' = [sold EXCEPT ![i] = @ + 1]
  /\ UNCHANGED <<lock, draft, nextId, created, trail, job, note, jobs, now>>

\* Bound: the clock moves only while somebody has a form on a dated table open;
\* at other times nothing reads it.
Elapse ==
  /\ now < MaxTime /\ now' = now + 1
  /\ \E c \in Clerk : job[c].step # "idle" /\ TableOf(c) \in Dated
  /\ UNCHANGED <<data, job, note, sold, jobs>>

Next ==
  \/ \E c \in Clerk :
       \/ \E f \in Forms : Submit(c, f) \/ Push(c, f) \/ StartUp(c, f)
       \/ Find(c) \/ Insert(c) \/ Update(c) \/ Name(c) \/ Commit(c) \/ GiveUp(c)
  \/ \E i \in Ids : Sell(i)
  \/ Elapse

Spec == Init /\ [][Next]_vars
----------------------------------------------------------------------------
Steps == {"idle", "find", "write", "name", "reselect", "commit"}

JobType ==
  [form: Handlers, id: 0 .. MaxId, lines: Seq(Line), step: Steps, found: 0 .. MaxId,
   seen: [Ids -> Row \cup {NoRow}], began: Time]

TrailType == [table: Tables, named: Ids, own: Ids, began: Time, made: Time]

\* Every variable has its type.
TypeOK ==
  /\ rows \in [Tables -> [Ids -> Row \cup {NoRow}]]
  /\ lock \in [Tables -> [Ids -> Clerk \cup {Nobody}]]
  /\ draft \in [Tables -> [Ids -> Row \cup {NoRow}]]
  /\ nextId \in [Tables -> 1 .. MaxId + 1]
  /\ created \in [Tables -> [Ids -> Time]]
  /\ trail \subseteq TrailType
  /\ job \in [Clerk -> JobType]
  /\ note \in [Clerk -> SUBSET TrailType]
  /\ sold \in [Ids -> 0 .. MaxSales]
  /\ jobs \in 0 .. MaxJobs /\ now \in Time

\* No two rows of a table with a unique key have the same key, whatever the order
\* in which two forms looked for it, found nothing and inserted.
KeysUnique ==
  \A t \in Tables \cap Unique : \A i, j \in Ids :
    i # j /\ NoRow \notin {rows[t][i], rows[t][j]} => rows[t][i].key # rows[t][j].key

\* What the trail may name.  Tables with a unique key and updates: the row written.
\* Tickets: that one or a later one.  Shops and orders: that one or one that was
\* created no earlier than the form began, though it may have been inserted before.
Right(e) ==
  \/ e.named = e.own
  \/ e.table = "tickets" /\ e.named > e.own
  \/ e.table \in Dated /\ e.made >= e.began

\* The audit log names the row its form wrote, or, where only the newest row of a
\* name is looked up, that of another request which is as new: no entry and no
\* ticket's first message goes to a row that was there before the form began (to
\* the second, on Oracle).
TrailNamesItsRow == \A e \in trail : Right(e)

\* The stock a form, a push or a starting replica sets replaces the sales before
\* its UPDATE and none after it: a product has what was set less what was sold
\* since.
StockKeepsSales ==
  \A i \in Ids : rows["products"][i] # NoRow =>
    LET r == rows["products"][i] IN r.stock = r.form - (sold[i] - r.mark)
=============================================================================
