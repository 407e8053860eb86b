# OCTO Drone Shop in TLA+

Models of the parts of the drone shop whose correctness depends on what happens *between* two
statements: checkouts that share rows of one database, a circuit breaker whose callers resume
late, payment events that overtake one another, stream entries claimed by two workers, a cache
filled with what has just changed, replicas that start on one empty database. Each model is checked by TLC
on a small instance; its safety is also proved, by TLAPS, for every value of its constants. What
must eventually happen is checked by TLC alone.

`PROJECT.json` maps every definition to the lines it models and lists the runs, the hazards and
the theorems; this file says how they hang together.

## The system

One FastAPI process type (`src/server`), run in several replicas over one database, with an
asynchronous worker and a Go gateway beside it. Handlers are coroutines: between two `await`s a
handler runs alone in its process; between processes nothing is shared but the database, Redis
and the services called.

| component | state it keeps | operations | what is hard | what makes it correct |
|---|---|---|---|---|
| checkout and orders (`store_service.py`, `modules/shop.py`, `modules/orders.py`) | orders, order items, products' stock, coupons, customers, carts (database) | checkout, create order, guided journey (storyboard), cart add and remove | one transaction of a dozen statements and a network call; duplicate deliveries of one key; scarce rows locked in different orders | one order per key; an order is there whole or not at all; counters agree with rows; every request ends |
| payment gateway (`payment_gateway_simulation.py`, `payments/checkout_workflow.py`, `java_app_server.py`) | none (rows of the checkout's transaction) | authorize | verification, antifraud, processor: three decisions merged, any of them unreachable | a decline is never overruled |
| circuit breaker (`middleware/circuit_breaker.py`) | state, failure count, last failure, half-open calls (per process) | allow, record success, record failure, read | calls admitted in one state answer in another; a probe that records nothing | shelter while failing, few probes, recovery |
| CRM integration (`modules/integrations.py`) | time and result of the last customer sync | sync customers, sync order | the CRM slow, down, or wrong | the CRM hears only what is true |
| payment webhooks (`payments/webhooks.py`, `state_machine.py`, `events.py`) | `orders.status` | receive an event | at-least-once, unordered, concurrent delivery; read, decide, write without a lock | terminal states hold; paid means charged; every event acknowledged |
| admin back office (`modules/admin.py`) and the writing requests of `services.py`, `campaigns.py`, `api.py`, `shipping.py` | every table | forms: create, update | look up, insert, look up again; keys in doubt; blind overwrites | unique keys; the audit log names the row that was written |
| order stream and worker (`order_sync_async.py`, `services/async-worker`) | Redis streams, consumer group, dead-letter streams | publish, poll, recover, acknowledge, retry | two steps that are not atomic, slow consumers whose entries are claimed | no entry is lost; a poisoned one ends in the dead-letter stream |
| catalogue and cache (`modules/products.py`, `crm_catalog_sync.py`, the seed of `database.py`) | products; Redis keys with a lifetime | list, get, push from the CRM, reconciliation at start | absolute stock written next to sales; rows read before a commit stored after it | no sale made after an UPDATE is undone by it; a stale entry lives no longer than its lifetime |
| sign-in and SSO (`auth_security.py`, `modules/auth.py`, `modules/sso.py`) | users; login attempts, key cache (per process); cookies | log in, begin and end a login through the provider, verify a token, log out | check-then-count; keys that rotate under a cache; two tabs that insert one user | attempts are limited up to those in flight; a rotated key is refused no longer than the cache lives; a session is its browser's own |
| rate limiter (`modules/rate_limit.py`) | counters in the shared cache | hit | nothing calls the shared one | |
| workflow gateway (`services/workflow-gateway`, Go; `modules/workflow_gateway.py`) | last run and last error (memory); executions, runs, snapshots (tables) | scheduled sweep, run on demand, Select AI, overview | an overview read in four steps while a sweep writes in a dozen; signal and restart | what an overview tells fits together |
| chaos switches, simulation | in-memory settings | set, expire | partial update | |
| start-up and schema (`main.py`, `init_tables`, `_ensure_missing_columns` and `seed_data` of `database.py`, reseed of `admin.py`) | the tables, their columns and index, the seed's rows | create, migrate, seed, reconcile, reseed | every replica does it on one database without a lock, each step from what an earlier one read; a failed start serves all the same | the seed comes once, a database in use is left alone, late columns get their values |
| shipping, services, campaigns, partner API, assistant, synthetic users, observability | single rows, or nothing | CRUD, output | | |

How they interact. A checkout first lets the CRM integration refresh the customers (through the
breaker, in a transaction of its own), then runs its transaction, in which it calls the payment
gateway, and after the commit sends the order to the CRM (through the breaker again). Webhooks and
the admin's form later change the status of the order. The order stream carries orders the shop
publishes to a worker, which sends them to the CRM. The back office, the CRM's pushes and every
replica that starts write the products that checkouts sell and the public API caches. The shop
proxies its admins to the workflow gateway, which reads the same database.

## The modules

| module | what it is |
|---|---|
| `OrderLedger` | what the order tables promise: orders appear whole, in one step, each with its stock and its coupon use |
| `Checkout` | the checkouts as they run, statement by statement; implements `OrderLedger` |
| `CheckoutProofs` | its theorems |
| `MCCheckout` | the instance TLC explores |
| `CircuitBreaker`, `MCCircuitBreaker` | the breaker with its concurrent callers |
| `PaymentWebhooks`, `PaymentWebhooksProofs`, `MCPaymentWebhooks` | one order under its payment's events |
| `OrderQueue` | what the order stream promises: an accepted order is never forgotten, unless the CRM answers it with a redirect |
| `OrderStream`, `OrderStreamProofs`, `MCOrderStream` | stream, consumer group, workers, dead letters and drain script, command by command; implements `OrderQueue` |
| `PaymentVeto` | what an authorization promises: one no is final |
| `PaymentGateway`, `PaymentGatewayProofs`, `MCPaymentGateway` | the judges of one payment and the merges; implements `PaymentVeto` |
| `BackOffice`, `BackOfficeProofs` | forms, pushes and reconciliations as transactions next to sales |
| `Catalogue`, `MCCatalogue` | `BackOffice` composed with the cache of the public API |
| `SignIn`, `SignInProofs`, `MCSignIn` | passwords and their limiter, the identity provider and its keys, users and sessions |
| `WorkflowGateway`, `WorkflowGatewayProofs`, `MCWorkflowGateway` | the scheduler's sweeps next to requests and overviews |
| `Startup`, `MCStartup` | the starts of all replicas on one database: schema, late columns, seed |
| `ReplicaProofs` | the theorems of `CircuitBreaker` and of `Startup`: what concerns a replica and no single request |

A definition `X_slip` stands before `X` and is `X` with a plausible slip in the code (a dropped
guard, a missing reset, a swapped order). No specification uses it: `PROJECT.json` pairs each
property with one, to show the property would notice.

### Checkout

Every request is one delivery of `POST /api/shop/checkout`, `POST /api/orders` or the guided journey
`POST /api/shop/demo/storyboard`, or one of the requests that change a cart. `pc[r]` is the next
statement of its transaction:

    idle -SyncCustomers-> cart -ResolveItems-> customer -SelectCustomer->
      update_customer | insert_customer -> lookup -Lookup-> coupon -> bump -> insert -InsertOrder->
      items -WriteLine*-> clear_cart -> pay -Authorize-> commit -Commit-> crm -SyncOrder-> done

with the replay paths `lookup -> commit` (the key is found) and `insert -> relookup -> commit`
(the unique index refuses the INSERT, `place_order` rolls back and looks again), and
`empty`, `failed` as the other ends. A replay skips the payment, as `checkout` does.

The database is modelled by what READ COMMITTED gives: committed tables are variables
(`orders`, `stock`, `couponUsed`, `customers`, `carts`), what a transaction has written and not
committed is kept per request (`taken`, `couponHeld`, `newCustomer`, `inserted`, `payment`), and
`owner` says who has a row, or an entry of a unique index, locked. A statement that needs a locked
row is not enabled until it is free. `Commit` merges a transaction's writes and frees its rows;
`Discard` forgets them. The database breaks a deadlock by failing a statement of one of the
requests in the circle (`DeadlockVictim`). Any statement may fail, and any worker die
(`RollBack`, `DieAfterCommit`): `get_db` rolls back and raises, or the database does it for the
dead client.

A request on a cart is one statement and its commit (`RemoveLine`), or a look and then one
(`FindLine`, and `RaiseLine` or `AppendLine`).
Lines have no ids in the model: a line deleted and added again between an add's SELECT and its
UPDATE counts as the same one, and an UPDATE that finds no line answers "added" all the same, as
the code does. Lines added between a checkout's reading of the cart and its DELETE go with it,
ordered by nobody: the property says which lines go, not that all of them were ordered.

The storyboard takes any HTTP answer of the sidecar, a decline too, for a payment, so for it
`authorized` means "answered". Its idempotency key is fresh each time and modelled as `NoKey`; its
ticket is a `CreateTicket` of `BackOffice`; it tells the CRM nothing.

The unique index on `orders.checkout_idempotency_key` is assumed. `_ensure_missing_columns` creates
it at start-up (`Key` of `Startup`), and logs its failure at debug level only: on an old database
where Oracle refused it because the orders were in use, or duplicate keys are already there, the shop
runs without it, and `OneOrderPerKey` is lost.

Left out of the data: prices, addresses, names, the order's notes, shipment and audit rows (they
go with the order row and nothing reads them back). Order ids are the requests themselves. A cart
is a sequence of lines; its row lock is one lock per session. The customer sync locks and frees
its rows within one step, because nothing in its transaction waits for anything but rows.

### CircuitBreaker

The breaker's methods are operators on its record (`Observed` is the `state` property,
`Allows`/`Slotted` are `allow_request`, `AfterSuccess`/`AfterFailure` the recording methods). They
are atomic: the callers are coroutines of one event loop and no method awaits. A call is two steps,
`Ask` and `Answer`, with anything in between. What a call may record (`Outcomes`) is read off the
two callers in `integrations.py`: a customer sync counts any HTTP answer as success and any
exception, the database's too, as failure; an order sync may also record nothing (early return)
or both (success, then an exception on a body that is no JSON). `age` is the time since the last
failure, capped at the recovery timeout, and the failure count is capped at the threshold: neither
is compared with anything above. `streak`, `probes` and `silent` are history.

### PaymentWebhooks

One order and the events of its payment. The provider (external) keeps an event in `outbox` until
it is acknowledged; a set, so that delivery is unordered and repeated. A handler goes
`read -> write -> emit -> answer`; `Crash` may end it anywhere, which is also how an answer gets
lost. `AdminSaves` is the admin's form. The signature check and the lookup that finds no order
change nothing and are left out. In the repository as it stands only the simulated provider's
references ever reach `orders.payment_provider_reference`; the model is about an order that has
been given a reference. `overtaken` is the history of a race: a status was replaced while a handler stood
between its read and its write, or by the admin.

### OrderStream

`redis` is the stream, the group's pending entries, the dead letters and the id counter; every action
of a worker, of the shop or of the drain script is one Redis command, so a death falls between any
two. A worker goes `ready -Poll-> ready -Handle-> park | refuse | ack -> ready` with its batch;
`Recover` is `XAUTOCLAIM` and hands over any entries that are pending, from a dead worker for
nothing, from a live one at the price of a fault (`MaxFaults`): that is what the idle time of 60
seconds becomes. `Crash` and `Restart` are the pod and its deployment; a Redis error is a crash
too, since nothing in the loop catches it. `XADD` may cut the oldest entries once the cap is
reached (`MAXLEN ~`), which is nondeterministic as the approximate cap is. The CRM (external)
may have the order though the worker saw a failure. The handler raises from 400 on, and httpx follows
no redirects, so a redirect is acknowledged like a success though the CRM has nothing; `redirected` is
the history of the orders this happened to. An entry's payload is intact or not:
`_force_dlq` writes `str(payload)`, and what the drain script puts back of it is `_invalid_json`,
which a CRM that accepts it makes look like a delivery. `gone` is the history of orders given up
for good: cut, dropped by the operator, or mangled. The run-once mode of the worker and the
counters of `WorkerStats` are left out.

### PaymentGateway

Sequential, but rich in data: one authorization from the context (`MethodSteps`, `Score`) through the
simulator, the verification call and the processor call to the merged decision, the transaction
row, the events and the commit, which may fail and be tried again. All sets of findings a card or
wallet can have are enumerated (`Reasons`), and all answers of the sidecar (external, Java),
silence included. Worth knowing, and allowed by the properties: the processor is asked whatever
the others have said, so its approval stands on its side when the shop declines; and the source
`java-antifraud-review` may cover the shop's own refusal.

### BackOffice and Catalogue

`Form(kind, table, checks, names)` describes each of the nineteen handlers that write rows by what
it does before and after: whether it looks for a duplicate first, and how it finds the row it
names in the audit log. A transaction goes `find -> write -> (reselect | name) -> ... -> commit`,
once per line of a batch. `lock`, `draft` and `rows` are READ COMMITTED as in `Checkout`; a key held
by another's uncommitted row makes an INSERT wait (`InDoubt`). `Push` is the CRM's list, validated
before its first statement, and `StartUp` the reconciliation of the seed list every replica runs;
it assigns to the objects it loaded, so `Update` writes only what differs from the row *as loaded*.
`Sell` is a checkout's UPDATE of the stock. `form`, `mark` and `sold` are history, as is all
of a trail entry but the row it names.

An inserted row is looked up by its unique key, by `MAX(id)` (tickets), or by the latest `created_at`
(`shops` and `orders`, the `Dated` tables, the only ones whose `created` is kept). What that column
says is the database's (`Stamp`): on
PostgreSQL `now()` is the start of the transaction, so a row inserted earlier by a transaction that
began later is the newer one; on Oracle it is the time of the INSERT, to the second in `orders`. `Elapse` is
the clock; everything within one tick is tied, and of ties the database may return any. PostgreSQL's own
ticks are microseconds: ties are then a superset of what it does.

`Catalogue` adds the readers of the public API and the cache. No handler calls
`_invalidate_catalog_cache`, though its docstring says "Call after admin writes so the next reader
hits the DB" (and it would delete one of the possible list keys only), so it is no action: an
entry ends by its time.

Abstracted: keys are normalised by the forms (the customer rows
`ensure_customer` inserts, as given, are in `Checkout`). Left out: the flag `is_active`, which the
public list ignores. The rest of a start is in `Startup`.

### SignIn

A request's step is the wait it is in: `lookup` and `stamp` for a password, `exchange`, `signed`,
`fetch`, `fetched`, `find`, `insert`, `found`, `inserted` for a login through the provider. Attempts
are a deque per process and address, the cached key document one per process: two replicas, or a
restart, multiply the limit, and a right password clears it. `Rotate` (external) changes the
provider's keys, `Expire` ends a session by its lifetime; sessions outlive a restart because
production sets the secret. `_select_key` falls back to the first cached key when the token's key is
missing, so that the refetch runs only for an empty document: the model follows the code, and what
is left to state is how long the refusals can last.

Also seen in the code and allowed by the model: `bcrypt` raises on the placeholder hash of a user
who came through the provider, so their password login ends in a 500 that is not counted
(`Raise`); and a person whose display name is taken can never complete a first login through the
provider, for the INSERT fails each time. Left out: roles, the rest of a token, the setting
`IDCS_VERIFY_JWT=false`, the row lock of the `last_login` UPDATE, and deactivated users (nothing
deactivates one).

### WorkflowGateway

`sweep` is the scheduler's place in its loop, one statement per action; `lastRun` and `lastError`
are the memory of the process, `executions`, `runs` and `snapshots` the tables, of which the model
keeps the newest `Recent` rows, since no more is ever read. An overview reads three lists and then
the memory; of a list the model keeps which sweeps it shows. `Signal` cancels the scheduler's
context, under which statements fail, but not the requests'; a tick that is ready may win over it.
`Restart` forgets the memory and keeps the tables. A run is always recorded as "success", and the
error is cleared at its end, so `lastError` is seen only during a sweep. Errors of the INSERTs are
ignored, as in the code. Left out: which pooled connection carries the session identifier.

### Startup

`pc[r]` is the next statement of a starting replica:

    down -> init -> count -> dropAll -> drop* -> createAll -> create* -> names ->
      products -> alterProducts* -> orders -> alterOrders* -> key -> invoices -> alterInvoices* ->
      fill -> shops -> seed -> insert -> rest                -> serving
                            -> settle [-> bill]             -> serving
                            -> merge  [-> billMerged]       -> serving

`todo[r]` is the list of tables or columns it has looked up and works through, `names[r]` the table
names its inspector has cached, `missing[r]` the columns it found missing: nothing of it is read
again, so each step may find the tables other than it believes. At `rest` and `billMerged` the
replica has inserted the seed's users and not committed them (`Holds`): their names are unique, so
another that inserts them waits. A statement that raises ends the
start, not the replica: `lifespan` logs "app will still start" (`Fails`). The two databases differ
where it shows: Oracle commits every DDL statement by itself, refuses one on a table in use
(ORA-00054) and drops empty tables first, because their identity columns may be spent or of an old
kind; PostgreSQL runs `drop_all` and `create_all` in a transaction each, which is one step here, and
makes statements wait. A database is as some release left it (`AsReleased`), never one on which a
start was broken off: the model does that itself.

Four tables stand for the 27 of `Base.metadata` (customers, whose numbers the seed's orders name,
go with users; audit logs with products); `shops` is made by hand. `spent` says that a rolled back
seeding has drawn the first customer numbers, which no database gives back: on PostgreSQL nobody can
seed then, on Oracle the next start drops the empty tables. `unfilled` are the columns whose old rows
wait for their UPDATE; of the late invoice columns these are the ones without a default. `cut`,
a history, says that a replica ended between the two. The key's index is there to be refused
and broken off like the columns; no property is about it (`OneOrderPerKey` assumes it).
`NamedOrders` placed orders, six in the code,
make the orders that the seed's invoices name exist without the seed.

Seen in the code and allowed by the model: rows that come between a replica's count of the users
and its drop of the tables are lost, those of a person who signs up as well as the other replica's
seed; a drop refused half-way can leave both replicas serving without a seed; orders of shoppers that
come before any invoice get the seed's invoices at the next start, or keep every start from
reconciling until there are six. `issued_at` and `updated_at` are added with a default, so the UPDATEs
that should copy `created_at` into them never find a row.

Left out: the settings and their validation, the wording of the DDL, the seed's own data, the deadlock
of PostgreSQL's `drop_all` with a seeding that has not reached the table yet.

## Hazards and properties

`PROJECT.json` lists each hazard at its line. What the properties say:

- `OneOrderPerKey`, `AnsweredOrderExists`, `CrmToldTheTruth`: retries and duplicate deliveries.
  A key names one order; whoever is answered is answered with a committed order under its own key;
  and the CRM is told that order's payment status, not what the loser of the race was going to say.
- `BooksBalance`, `LedgerSpec`: atomicity. Stock and coupon counters agree with the order rows in
  every state, and each step of the tables is one `Place` of the ledger.
- `LocksReleased`, `DeadlockOnlyOnProducts`, `EveryRequestEnds`: waiting. The code locks customer,
  coupon, key, products, cart, in that order, and only the products in an order of the buyer's
  choosing; so every circle of waiting requests has one that is writing its lines, and once the
  database has broken it, everybody ends.
- `PaidIffAuthorized`, `CartConsumedByOrder`: what a rolled-back or replayed checkout leaves alone, and
  which lines of a cart that is changed meanwhile go with an order.
- `ShelterAfterFailure`, `ProbesBounded`, `TripsOnStreak`, `OnlyDrawnTransitions`, `Recovers`: what
  the breaker guarantees in spite of late answers.
- `PaidWasCharged`, `RefundedWasPaid`, `EmittedWasCommitted`, `SinksHoldUntilOvertaken`,
  `ToldOnceUntilOvertaken`, `EveryEventAnswered`: what the state machine guarantees in spite of retries
  and reordering. Terminal states hold, and are told of once, until a status is replaced under a
  handler that has decided by it, or by the admin.
- `NothingForgotten`, `QueueSpec`, `StreamDrains`: an order the shop was told is queued stays in sight
  through deaths between XADD and XACK, double claims, caps and the drain script, and the stream is
  worked off. The one way to lose it silently is a redirect, which the properties name.
- `VetoSpec`, `SourceNamesTheJudge`, `BooksAgree`: no merge turns a refusal into an approval, the
  source stored took the decision, and the rows tell what was answered.
- `TrailNamesItsRow`, `StockKeepsSales`, `StaleDiesOut`: look-ups after the fact, absolute stock
  next to sales, and a cache nothing clears. Where a look-up takes the newest row, the most that holds is
  that the row named is as new: a later ticket, or a shop or order created no earlier than
  the form began.
- `WindowHolds`, `RefusedAfterRotation`, `SessionIsOwn`: how far the login limit is overshot by
  requests in flight, how long a rotated key is refused, and whose session a browser gets.
- `SeededOnce`, `SettledStays`, `FilledUnlessCut`, `SeedArrives`: replicas that all find the database
  empty do not both fill it, and one of them does; a start leaves a database in use
  alone; and a late column gets its values, or it is known who broke off.
- `OverviewFits`: the lists, the last run and the error of one overview are of one sweep or the next.

Five hazards have no property, because what the code does there is what the hazard says, and no
document promises otherwise. The models do all of it: the coupon limit that is compared before it is
counted (`store_service.py:128`); the authorization that outlives its rolled-back order (`shop.py:377`);
a retry that finds its cart empty before its key is looked up (`shop.py:291`); a CRM that answers 500 and
is healthy to the breaker (`integrations.py:154`); and the payment event lost by a death after the
commit (`webhooks.py:102`). Four properties stop short of a loss the code has, and say where: the rows
that come between a replica's count and its drops (`SettledStays`), the column whose replica ended before
filling it (`FilledUnlessCut`), the redirected order (`NothingForgotten`), and the CRM that
is never told of an order (`CrmToldTheTruth`).

## The runs

| run | cfg | states | shows |
|---|---|---|---|
| `checkout` | `MCCheckout.cfg` | 103,555 | all properties of `Checkout` but its types, liveness included |
| `breaker` | `MCCircuitBreaker.cfg` | 1,404 | all properties of `CircuitBreaker` but the two below |
| `breaker_stuck` | `MCBreakerStuck.cfg` | | `HalfOpenEnds` is violated |
| `breaker_late` | `MCBreakerLate.cfg` | | `ProbeDecides` is violated |
| `webhooks` | `MCPaymentWebhooks.cfg` | 114,376 | two handlers, an admin, a crash, liveness |
| `webhooks_sinks` | `MCWebhooksSinks.cfg` | | `SinksHold` is violated by two handlers |
| `order_stream` | `MCOrderStream.cfg` | 465,292 | nothing is forgotten but for a redirect, the queue is implemented, the stream drains |
| `gateway` | `MCPaymentGateway.cfg` | 483,110 | every card and wallet against every answer of the judges |
| `catalogue` | `MCCatalogue.cfg` | 206,178 | forms, a push, a start, sales, a clock, a reader and its cache |
| `sign_in` | `MCSignIn.cfg` | 1,442,645 | the limiter, the rotation of keys, whose session it is |
| `workflow_gateway` | `MCWorkflowGateway.cfg` | 2,156,946 | sweeps of two processes next to a request |
| `startup` | `MCStartup.cfg` | 604,515 | two replicas start and die on databases of every age |

The type invariant of every module is proved; two runs check it besides, `gateway` and `catalogue`,
where it says more than a type: a decision is one of the decided ones, a stock is never below zero.

Bounds:

- *Checkout*: three requests, because two deliveries of one key plus a stranger is the least in
  which a replay, a roll-back and a third party's locks meet. Seven scenarios: a new customer's
  checkout delivered twice against an order for the same goods in the other order (the two can
  deadlock); a checkout delivered twice under two addresses against another from the same cart; a
  checkout delivered again without its session against the same buyer's other order; three in which
  a cart is added to and taken from while it is checked out; and a guided journey next to a checkout
  and an order of the same goods. One product has one unit, the coupon has one use, the CRM may
  import one of the customers.
- *Breaker*: threshold 2 and recovery 2 ticks make streaks and half-elapsed timeouts exist; three
  callers give one late answer, one probe and one refused.
- *Webhooks*: every kind of event, both initial statuses, two handlers, an admin who sets a status the
  machine does not know, one crash: two handlers and a crash are what it takes to lose an answer while
  the other decides. An admin who sets `paid` or `refunded` by hand makes an order paid or refunded
  that nobody was charged for, and one who reopens an order overtakes whoever has read it; the run
  leaves the former out of `AdminStatuses`, as it is the admin's to make, and needs no more than one
  status for the latter.
- *Order stream*: one order and two workers with two attempts, batches of two, caps of three and
  two, and two faults. One order leaves several entries behind when it is retried, claimed twice and
  drained, and these stand for those of other orders: entries of different orders meet only in the
  caps, and two orders with two workers exceed 1.3 million states without a new case.
- *Gateway*: all sets of findings; amounts at both ends of the caps, two of the three kinds of mail
  domain, the largest entropy, sidecar scores absent and high, one retry.
- *Catalogue*: two clerks and two jobs, seven of the nineteen handlers, one for each kind that is
  treated alike; two products, one of which the seed knows and has not loaded; one sale of each; a
  clock of one tick, which passes while a form on a dated table is open, so that a form may begin
  before or after another, or with it. The dialect is
  PostgreSQL, where the row named may be the one inserted earlier; that is so on Oracle for ties
  alone, which this run has too, and `TrailIsRight` holds on both.
- *Sign-in*: two requests, so that one may slip in between another's check and its count; limit 2 in
  a window of one tick; keys kept one at a time (a second published key only delays the refusals), a
  cache of three ticks with calls of one. The budget of a run is one of three (six passwords; two
  logins next to a password, with accidents; two logins with a rotation), because everything at once
  is out of reach and what a budget leaves out shares no state with what it has, but for `users`.
- *Startup*: two replicas, as deployed; production and test on each of the two databases, which are
  new, empty, seeded, of a release before the late columns, or of one before the invoices; one death,
  after which the replica starts again, and two orders.
- *Workflow gateway*: two sweeps in each of two processes, lists of one row, one request: requests
  meet only in the tables.

Deadlock is checked except where the system may stop. In `webhooks_sinks`
nothing is left to do once the payment is over and its events are answered; in `catalogue`, `sign_in`
and `workflow_gateway` the forms, the budgets and the
sweeps run out, and in `startup` both replicas may serve a shop without tables (that no start waits
for ever is part of `SeedArrives`). `Checkout` ends in `AllFinished`,
`OrderStream` in `Quiet`.

Fairness:

- *Checkout*: weak fairness of each request's own steps (a worker that has not died is scheduled,
  every network call has a timeout) and of breaking a deadlock, which the database does by itself;
  none on failures or deaths.
- *Breaker*: time passes, calls end (the HTTP clients have timeouts of 10 and 12 s), and the shop
  has visitors that ask.
- *Webhooks*: handlers go on, and an event that can be delivered again and again is (strong fairness
  per kind of event: the provider retries each until it is acknowledged); crashes are finitely many.
- *Order stream*: each worker's loop goes on, it comes to its recovery pass every twentieth poll,
  and Kubernetes starts a dead worker again; nothing is asked of the shop, the operator or the CRM.
- *Startup*: a replica that is starting goes on. Strong fairness, because it may have to wait for
  another seeding's transaction again and again, and the database serves its waiters in turn; nothing
  is asked of shoppers, the administrator or deaths.
- *Catalogue*: time passes; that is all `StaleDiesOut` needs, and no claim is made that a form ever
  ends. The gateway, sign-in and workflow runs state safety only.

### Where the code and its documents part

- `breaker_stuck`: an order sync admitted as the HALF_OPEN probe may return early
  (`integrations.py:396`, `:405`) and record nothing. Its slot is never given back and every
  later call is refused until the process restarts. The documentation has a probe either succeed
  or fail. `Recovers` states what is left: the breaker closes again unless its probes came back
  silent.
- `breaker_late`: `record_success` closes a HALF_OPEN breaker whoever calls it, so a call from
  before the trip can close it. The documentation has the probe close it.
- `webhooks_sinks`: `receive_webhook` reads the order without locking it and writes the status
  without comparing it, so of two deliveries at once the second can replace a terminal state.
  `state_machine.py` calls these states sinks. `SinksHoldUntilOvertaken` states, and `SinksStand` proves,
  how far they are.

Disagreements no run is needed for, since the code shows them at a glance:

- `sso.py:112-113` and `:145-146`, `rlm_security_sso_audit_report.md:50` and
  `site/architecture/system-design.md:117` promise that a key id that is not in the cache makes the
  keys be fetched again. `_select_key` falls back to the first key, so only an empty document does.
  `RefusedAfterRotation` bounds the refusals by the lifetime of the cache instead.
- `handlers/order_sync.py:14` says of the worker's handler "On non-2xx, raises so the consumer
  escalates to retry/DLQ". It raises from 400 on; a 3xx, which httpx does not follow, is logged as
  `order_sync.success` and acknowledged (`worker.py:136`), and the order is neither with the CRM nor
  anywhere else. `NothingForgotten` and `OrderQueue` except it (`redirected`) and nothing else.
- `services.py:97` calls what `create_ticket` reads by `MAX(id)` "the auto-generated ID": of two requests
  that open tickets of one title for one customer at once, the first to insert may read the other's and
  put its first message there. New shops and orders get their audit entries in the same way.
- `_invalidate_catalog_cache` says it is called after admin writes; nothing calls it.
- `docs/technical-architecture.md:93` has `workflow_runs` hold "scheduled and manual workflow
  refresh runs"; only the scheduler writes to it (as `docs/install-guide.md:247` says).
- The partner API's order endpoint imports `_create_order_for_partner_api` from `orders.py`, which
  has no such function: every call ends in a 500. And `publish_order_for_async_sync` is called by
  tests alone: the stream and its worker are complete and deployed, and wait for their first
  publisher.
- Stripe's `charge.refunded` carries the charge's id, not the PaymentIntent's, which is what the
  webhook looks orders up by: such a refund is answered with 404. Nothing creates Stripe intents for
  orders yet.
- If a seed row's INSERT is refused at start-up, the nested transaction is not rolled back and the
  rest of the reconciliation fails and is rolled back with it.

## The proofs

Assumptions are those of the modules' `ASSUME`s: finitely many requests or callers, positive
thresholds, sentinels that are no keys or sessions, inputs of the right types, databases as a
release leaves them. Nothing bounds the number of requests, keys, customers, carts, products,
replicas or the stock.

*Checkout.* The inductive invariant `IInv` adds to the properties what each transaction knows:

- `WritesFollowInsert`: stock is taken, and an order row pending, only between the INSERT and the
  end of the transaction;
- `StockHeld`: a product some transaction has taken from is locked by it, and what is taken is
  there. This is why the CASE in the UPDATE never takes stock below zero;
- `KeyHeld`: a pending order holds the entry of its key, and no committed order has that key. This
  is what makes the lookup, the wait on the index and the second lookup leave no gap;
- `OrdersOfEnded`, `ReplaySeen`: committed orders belong to transactions that are over, and a
  replay about to answer has seen one;
- `LinesLeft`, `LocksFollowItems`: the line to write next exists, and only running transactions
  hold locks.

Two more arguments stand beside it. `BooksBalanced` does not sum over the orders: the units that left
the stock of a product are counted as a set, a pair for each unit of each line that took it
(`UnitsTaken`), and the uses of the coupon as the set of orders that carry it. A commit adds a
disjoint set of a known size (`UnitsAdded`), everything else adds nothing, so the theorem needs the
cardinality lemmas of the library and no induction over the data. `DeadlocksAtProducts` needs
`LocksFollowOrder`: who has locked a row is past the statements that lock rows of that table. In a circle
in which nobody is writing lines, nobody waits for a cart (its owner would be past every wait), hence
nobody for an order's key, hence nobody for a coupon, and hence nobody for a customer.

*Breaker.* `IInv` says that the failure count of a CLOSED breaker is the streak, that a HALF_OPEN
breaker has rested, and that each waiting probe holds a slot of its own. `AtMostItsProbes`,
`Shelter` and `TripsLate` follow; `RoundTheDiagram` needs only the types.

*Webhooks.* Handlers decide on a status they no longer hold, so the history `reached` carries the
proof: in `IInv` a handler about to write a refund has read a paid order (`DecidedOnWhatWas`), and
one about to tell of a state has committed it (`CommittedBeforeTold`). `OnlyCommittedIsTold` follows,
and so does `OnlyPaidIsRefunded`, assuming that nobody declares the order refunded by hand
(`NoRefundByHand`): the admin's form checks nothing, so without it the theorem is false.
`OnlyChargedIsPaid`, under `NoPaymentByHand`, needs `SuccessHappened`: wherever a success is known,
in the outbox or in a handler, the provider has taken the money. `SinksStand` and `ToldOnceStands`
rest on `StandInv`, an invariant for as long as nobody has been overtaken: what a handler about to
write has decided is a step of the state machine from the status as it still is (`DecisionsStand`),
no two handlers are about to tell of one state (`TellersDiffer`), and the states reached are those
the order's status allows (`OneReached`). The lemma `WriteStands` is the heart of it: a write that
overtakes no decision leaves none open, tells of a new state and is the first to reach it.

*Order stream.* A worker may acknowledge an entry because another entry or letter carries its order,
and two workers must not rely on one another's. Ids grow, which orders them: in `IInv` whoever is
about to acknowledge or delete entry *n* can count on the CRM (its redirect included), on `gone`, or on
an entry or letter *younger* than *n* (`Carried`, `AckIsSafe`, `DeleteIsSafe`). With `Numbered` (no id
twice) and `MangledIsGone` this is inductive, and gives `NothingIsForgotten`. `StreamIsAQueue` maps each
command to a step of `OrderQueue`, or to a stutter.

*Payment gateway.* `IInv` says who has been heard at each point (`Heard`), and what the trail and
the rows are by then (`StepsInOrder`, `RowsFollow`). `StoredAsAnswered` and `SourceIsTheJudge`
follow by cases over the merges; `NoIsFinal` maps the start and the verification to `Hear`, the
processor's call to `Decide`, a payment that is skipped to `Skip` and a roll-back to `Restart`.

*Back office.* A row is locked exactly while a draft waits (`Locks`); two rows have one key neither as
committed rows nor as drafts, nor as one of each, unless the writer of the draft has rewritten
the committed one itself (`KeysApart`); nothing is sold of a row between its UPDATE and the commit
(`Stocks`); and what a transaction knows at a step still holds at the next (`JobRight`): among it that
the row it has inserted was created no earlier than it began, on both dialects, so that the newest row
of that name was not either.
`KeysStayUnique` is not among the run's properties: the model's unique index promises it, and the
theorem says that the waiting and refusing of `Put` amount to that promise. The run checks
`CatalogueSpec`, the back office next to its readers: `CatalogueIsBackOffice` shows that a reader's
steps stutter for the forms, so `CatalogueKeeps` states the four invariants for that specification.

*Sign-in.* Three invariants that share next to nothing, so they are kept and proved apart.
`SessionInv`: the row a request has found or inserted is of the person its login was begun for, and
an uncommitted row clashes with no other. `KeyInv`: a key that is gone, and a document that is not
the provider's, are no younger than the last rotation but for the calls they have waited for; hence
the assumption `2 * Timeout < JwksTTL` (10 s and an hour in the code). `WindowInv`: the deque is the
end of the history, what was dropped of it has left the window, and the deque and the requests past
its check never exceed what the last of them found room for. The types (`TypeCorrect`) need
`SessionInv`: that a row to insert has a person at all rests on its login having been begun.

*Workflow gateway.* The sweep under way is the one after `lastRun`, an error is kept only during it
(`SweepFits`), no row is from a later sweep or process (`RowsFit`), and what a half-read overview has
seen is no later than the sweep under way (`ReadsFit`). The types are proved apart (`TypeCorrect`):
the next query is one of the scheduler's list (`GoesOnTyped`), and an INSERT leaves a table no more
rows than an overview lists (`InsertTyped`).

*Startup.* Each step acts on what an earlier one read, so `StartupInv` says what of it still holds
when the step is taken, whatever the other replicas have done meanwhile. That is little:

- `ReferencesHold`: no table stands without the ones it refers to, though the tables go and come one
  statement at a time. A drop that respects the foreign keys (`Droppable`) can therefore not take the
  users and leave the orders, and the seed's orders go no later than its users do;
- `ListsFit`: at `drop` and `create` the list is of tables, at an ALTER it is of late columns of that
  table which the replica still remembers as missing, and only between the ALTER of the invoices and
  the back-fill does it remember any of theirs. So looking at the next table forgets nothing that
  waits to be filled, and `Fill`, which fills what the replica remembers, fills what it added;
- `HoldersAlone`: one replica at most has uncommitted rows of the seed's users, and then none are
  committed. The wait on the unique names is all that makes two seedings exclude each other: whoever
  commits the orders has held the users' names since before it inserted them, hence found no orders.

With the types (`StartupTypes`: no row, column or index without its table), `SeededOnce` and
`FilledUnlessCut` these are inductive (`StartupInvariant`). The types are part of the argument: that
an order needs its table is what turns `ReferencesHold` into "no users, no seed's orders". The steps
fall into few kinds, and each kind has a lemma: a look that moves on (`MovesKeep`), a start that ends
(`EndsKeep`: it fails or dies), a list begun (`ListKeeps`), a column added (`AddsKeep`), users
inserted and held (`HoldsKeep`), a commit (`CommitsKeep`). `UsedStays` needs the types only: in
production nobody begins a drop but who has just counted no users.

Model-checked only: the liveness properties, which the proof system does not reach
(`EveryRequestEnds`, `Recovers`, `EveryEventAnswered`, `StreamDrains`, `StaleDiesOut`, `SeedArrives`).
Every invariant, action property and refinement of the passing runs is proved.

## The plan

1. *Done:* `OrderLedger`, `Checkout` with its proofs; the requests on carts and the guided journey.
2. *Done:* `CircuitBreaker` and `PaymentWebhooks` with their proofs.
3. *Done:* `OrderStream` against `OrderQueue`, `PaymentGateway` against `PaymentVeto`, with their
   proofs.
4. *Done:* `BackOffice` with its proofs and `Catalogue`; `WorkflowGateway` with its proofs.
5. *Done:* `SignIn`, limiter and key cache included, with its proofs.
6. *Done:* `BooksBalance`, `DeadlockOnlyOnProducts`, and sinks and events up to the first overtaking,
   proved; `Startup`.
7. *Done:* `Startup`'s invariant and its theorems; the back office's for the whole catalogue.
8. Open: the synthetic users as a further caller of
   `place_order`, which delete their own rows while checkouts run; a message appended to a ticket.

## Not modelled

- *Observability, dashboards, the assistant, reading pages, storefront formatting*: output; nothing
  reads it back.
- *Chaos switches and attack simulation*: in-memory settings an operator sets and clears; nothing
  in the code relies on two of them agreeing.
- *Rate limiter*: `check_and_consume` of the shared cache has no caller; the public API counts in
  one step of one process.
- *Payment providers*: Stripe's adapter is a request and a signature check, PayPal's and OSB's raise
  `NotImplementedError`; the simulated provider is in `PaymentGateway`.
- *Partner API*: its one writing endpoint always fails (see above).
- *Synthetic users*: they place orders through `place_order` under addresses of a domain of their
  own, and delete those. Planned, see 8.
- *Settings and their validation*: read once when a process starts, kept for its life.
