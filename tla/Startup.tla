------------------------------- MODULE Startup -------------------------------
(***************************************************************************)
(* The start of the shop's replicas on one database: every replica creates *)
(* the missing tables, adds the columns that came later and seeds the      *)
(* database (server/database.py init_tables, _ensure_missing_columns,      *)
(* seed_data), each from what it read earlier and none holding a lock, and *)
(* then serves, whether that worked or not (server/main.py lifespan).      *)
(* Outside production an administrator may run the same steps again on a   *)
(* serving replica (server/modules/admin.py).                              *)
(*                                                                         *)
(* A step is one statement, or one transaction, of one replica.  Oracle    *)
(* commits each DDL statement on its own and refuses one on a table with   *)
(* uncommitted rows; PostgreSQL runs drop_all and create_all in a          *)
(* transaction each and makes a statement wait.                            *)
(***************************************************************************)
EXTENDS Naturals, FiniteSets

CONSTANTS
    Replica,        \* the replicas of the deployment
    Deployments,    \* [backend, production]: the settings it may run with
    Databases,      \* [tables, users, history, columns, unfilled, keyIndex]
    NamedOrders,    \* placed orders from which on the seed invoices find theirs
    MaxOrders,      \* bound on the orders placed
    MaxDeaths       \* bound on the replicas that die

(***************************************************************************)
(* Four of the tables of Base.metadata stand for all: the two that others  *)
(* refer to, one that refers, and one on its own.  The shops table is made *)
(* by hand.  Late names the columns added after a table's first release:   *)
(* those of invoices are the ones whose old rows have to be filled in.     *)
(***************************************************************************)
Metadata == {"products", "users", "orders", "invoices"}

\* The order in which they are created; they are dropped in the other one.
Rank == [products |-> 1, users |-> 2, orders |-> 3, invoices |-> 4]

RefersTo == [t \in Metadata |-> CASE t = "orders"   -> {"users"}
                                  [] t = "invoices" -> {"orders"}
                                  [] OTHER          -> {}]

Late == [t \in Metadata |-> CASE t = "products" -> {"image_url"}
                              [] t = "orders"   -> {"checkout_idempotency_key"}
                              [] t = "invoices" -> {"customer_id", "due_at"}
                              [] OTHER          -> {}]

LateOf(ts) == UNION {Late[t] : t \in ts}

\* A database as some release of the shop leaves it: every table has the ones
\* it refers to, the seed's orders came with its users, and no start was broken
\* off between adding a column and filling it.
AsReleased(d) ==
    /\ d.tables \subseteq Metadata \cup {"shops"}
    /\ \A t \in d.tables \cap Metadata : RefersTo[t] \subseteq d.tables
    /\ d.columns \subseteq LateOf(d.tables \cap Metadata)
    /\ d.keyIndex \in BOOLEAN /\ (d.keyIndex => "orders" \in d.tables)
    /\ d.users \subseteq {"seed", "person"}
    /\ d.users # {} => "users" \in d.tables
    /\ d.history \in 0..1
    /\ d.history > 0 => "seed" \in d.users /\ "orders" \in d.tables
    /\ d.unfilled \subseteq Late["invoices"] \ d.columns
    /\ d.unfilled # {} => "invoices" \in d.tables

ASSUME StartupAssumption ==
    /\ Deployments \subseteq [backend : {"oracle", "postgresql"},
                              production : BOOLEAN]
    /\ \A d \in Databases : AsReleased(d)
    /\ NamedOrders \in Nat /\ MaxOrders \in Nat /\ MaxDeaths \in Nat

VARIABLES
    deployment,
    tables, columns, keyIndex,
    users,          \* committed rows: the seed's, somebody's own
    history,        \* how many times the seed's orders are in the table
    placed,         \* orders placed by shoppers
    invoiced,       \* the seed's invoices are in the table
    unfilled,       \* late invoice columns the old rows have no value for
    spent,          \* a rolled back seeding used the first customer numbers
    pc, todo,
    names,          \* the table names the replica read
    missing,        \* the columns it found missing
    resetting,      \* replicas running the administrator's reseed
    deaths,
    cut             \* history: a back-fill was broken off

schema == <<tables, columns, keyIndex>>
rows   == <<users, history, placed, invoiced, unfilled, spent>>
local  == <<todo, names, missing, resetting>>
startupVars == <<deployment, schema, rows, pc, local, deaths, cut>>

Serving == "serving"
Starting == {"init", "count", "dropAll", "drop", "createAll", "create",
             "names", "products", "alterProducts", "orders", "alterOrders",
             "key", "invoices", "alterInvoices", "fill", "shops",
             "seed", "insert", "rest", "settle", "merge", "bill", "billMerged"}

\* Types; no row, column or index without its table.
SchemaTyped ==
    /\ tables \subseteq Metadata \cup {"shops"}
    /\ columns \subseteq LateOf(tables \cap Metadata)
    /\ keyIndex \in BOOLEAN /\ (keyIndex => "orders" \in tables)

RowsTyped ==
    /\ users \subseteq {"seed", "person"}
    /\ users # {} => "users" \in tables
    /\ history \in Nat /\ placed \in 0..MaxOrders
    /\ history + placed > 0 => "orders" \in tables
    /\ invoiced \in BOOLEAN /\ (invoiced => "invoices" \in tables)
    /\ unfilled \subseteq Late["invoices"]
    /\ unfilled # {} => "invoices" \in tables
    /\ spent \in BOOLEAN

ReplicasTyped ==
    /\ pc \in [Replica -> Starting \cup {"down", Serving}]
    /\ todo \in [Replica -> SUBSET (Metadata \cup LateOf(Metadata))]
    /\ names \in [Replica -> SUBSET (Metadata \cup {"shops"})]
    /\ missing \in [Replica -> SUBSET LateOf(Metadata)]
    /\ resetting \subseteq Replica

StartupTypeOK ==
    /\ SchemaTyped /\ RowsTyped /\ ReplicasTyped
    /\ deployment \in Deployments /\ deaths \in 0..MaxDeaths /\ cut \in BOOLEAN

StartupInit ==
    /\ deployment \in Deployments
    /\ \E d \in Databases :
        /\ tables = d.tables /\ columns = d.columns /\ keyIndex = d.keyIndex
        /\ users = d.users /\ history = d.history
        /\ invoiced = (d.history > 0 /\ "invoices" \in d.tables)
        /\ unfilled = d.unfilled
    /\ placed = 0 /\ spent = FALSE
    /\ pc = [r \in Replica |-> "down"]
    /\ todo = [r \in Replica |-> {}]
    /\ names = [r \in Replica |-> {}]
    /\ missing = [r \in Replica |-> {}]
    /\ resetting = {} /\ deaths = 0 /\ cut = FALSE

Oracle == deployment.backend = "oracle"

\* Goes(r, label): the replica's next statement.  Moves(r, label): it only
\* looked.  Clears(r): it forgets what it read.
Goes(r, label) == pc' = [pc EXCEPT ![r] = label]
Moves(r, label) == Goes(r, label) /\ UNCHANGED <<schema, rows, local, cut>>

\* What is left of the list the replica works through, and where it goes on.
Works(r, left, same, after) ==
    /\ todo' = [todo EXCEPT ![r] = left]
    /\ Goes(r, IF left = {} THEN after ELSE same)
    /\ UNCHANGED <<names, resetting, cut>>

Clears(r) ==
    /\ todo' = [todo EXCEPT ![r] = {}]
    /\ names' = [names EXCEPT ![r] = {}]
    /\ missing' = [missing EXCEPT ![r] = {}]
    /\ resetting' = resetting \ {r}

\* The columns r found missing and that now stand there unfilled because of it.
HalfDone(r) == missing[r] \cap unfilled \cap columns

\* What ends with the replica's transaction: its rows go, the customer numbers
\* it drew do not come back.
RollsBack(r) ==
    /\ Clears(r)
    /\ cut' = (cut \/ HalfDone(r) # {})
    /\ spent' \in IF pc[r] = "rest" THEN {spent, TRUE} ELSE {spent}
    /\ UNCHANGED <<schema, users, history, placed, invoiced, unfilled>>

\* Serves(r): the replica is through.  Fails(r): a statement raised, and the
\* application starts all the same (or the administrator's request answers
\* 500).
Serves(r) == Goes(r, Serving) /\ Clears(r)

Fails(r) == Goes(r, Serving) /\ RollsBack(r)

\* Uncommitted rows under the seed's user names, which another transaction
\* that inserts them waits for.
Holds(r) == pc[r] \in {"rest", "billMerged"}
HeldByOther(r) == \E o \in Replica \ {r} : Holds(o)

\* Tables a transaction has read, which PostgreSQL does not drop before it ends.
ReadByOther(r) ==
    \E o \in Replica \ {r} :
        pc[o] \in {"insert", "rest", "settle", "merge", "bill", "billMerged"}

(***************************************************************************)
(* init_tables: drop the tables if Oracle's are empty, create what is      *)
(* missing.  Both drop_all and create_all look once which tables are there *)
(* and then go through that list.                                          *)
(***************************************************************************)
Start(r) ==
    /\ pc[r] = "down"
    /\ Moves(r, "init")

InitTables(r) ==
    /\ pc[r] = "init"
    /\ Moves(r, IF Oracle /\ "users" \in tables THEN "count" ELSE "createAll")

Empty_NoOrders == history + placed = 0
Empty == users = {}

CountUsers(r) ==
    /\ pc[r] = "count"
    /\ \/ /\ "users" \in tables
          /\ Moves(r, IF Empty THEN "dropAll" ELSE "createAll")
       \/ "users" \notin tables /\ Fails(r)

DropAll(r) ==
    /\ pc[r] = "dropAll"
    /\ Works(r, tables \cap Metadata, "drop", "createAll")
    /\ UNCHANGED <<schema, rows, missing>>

\* The tables the next statement (Oracle) or the transaction (PostgreSQL) is
\* for.
DropBatch(ts) ==
    IF Oracle THEN {t \in ts : \A u \in ts : Rank[u] <= Rank[t]} ELSE ts
CreateBatch(ts) ==
    IF Oracle THEN {t \in ts : \A u \in ts : Rank[t] <= Rank[u]} ELSE ts

Droppable(batch) ==
    /\ batch \subseteq tables
    /\ \A t \in (tables \cap Metadata) \ batch : RefersTo[t] \cap batch = {}

\* What a drop takes with it: the rows, the late columns, the unique index,
\* and, with the customers, the numbers that were used up.
Loses(batch) ==
    /\ tables' = tables \ batch
    /\ columns' = columns \ LateOf(batch)
    /\ keyIndex' = (keyIndex /\ "orders" \notin batch)
    /\ users' = IF "users" \in batch THEN {} ELSE users
    /\ history' = IF "orders" \in batch THEN 0 ELSE history
    /\ placed' = IF "orders" \in batch THEN 0 ELSE placed
    /\ invoiced' = (invoiced /\ "invoices" \notin batch)
    /\ unfilled' = IF "invoices" \in batch THEN {} ELSE unfilled
    /\ spent' = (spent /\ "users" \notin batch)

Drop(r) ==
    /\ pc[r] = "drop"
    /\ Oracle \/ ~ReadByOther(r)
    /\ LET batch == DropBatch(todo[r]) IN
        \/ /\ Droppable(batch)
           /\ "users" \in batch => ~HeldByOther(r)
           /\ Loses(batch)
           /\ Works(r, todo[r] \ batch, "drop", "createAll")
           /\ UNCHANGED missing
        \/ (~Droppable(batch) \/ HeldByOther(r)) /\ Fails(r)

AfterCreating(r) == IF r \in resetting THEN "seed" ELSE "names"

ToCreate_All == Metadata
ToCreate == Metadata \ tables

CreateAll(r) ==
    /\ pc[r] = "createAll"
    /\ Works(r, ToCreate, "create", AfterCreating(r))
    /\ UNCHANGED <<schema, rows, missing>>

Creatable(batch) ==
    /\ batch \cap tables = {}
    /\ \A t \in batch : RefersTo[t] \subseteq tables \cup batch

Create(r) ==
    /\ pc[r] = "create"
    /\ LET batch == CreateBatch(todo[r]) IN
        \/ /\ Creatable(batch)
           /\ tables' = tables \cup batch
           /\ columns' = columns \cup LateOf(batch)
           /\ keyIndex' = (keyIndex \/ "orders" \in batch)
           /\ Works(r, todo[r] \ batch, "create", AfterCreating(r))
           /\ UNCHANGED <<rows, missing>>
        \/ ~Creatable(batch) /\ Fails(r)

(***************************************************************************)
(* _ensure_missing_columns, table after table.  The names of the tables    *)
(* are read once; the columns of a table when its turn comes.  The ALTERs  *)
(* of orders and invoices, and the unique index, may fail without anybody  *)
(* noticing; that of products and the shops table may not.                 *)
(***************************************************************************)
ReadNames(r) ==
    /\ pc[r] = "names"
    /\ names' = [names EXCEPT ![r] = tables]
    /\ Goes(r, "products")
    /\ UNCHANGED <<schema, rows, todo, missing, resetting, cut>>

Columns == [products |-> [alter |-> "alterProducts", next |-> "orders"],
            orders   |-> [alter |-> "alterOrders",   next |-> "key"],
            invoices |-> [alter |-> "alterInvoices", next |-> "fill"]]

Look(r, t) ==
    /\ pc[r] = t
    /\ LET found == IF t \in names[r] THEN Late[t] \ columns ELSE {} IN
        \/ /\ t \in names[r] => t \in tables
           /\ missing' = [missing EXCEPT ![r] = found]
           /\ Works(r, found, Columns[t].alter, Columns[t].next)
           /\ UNCHANGED <<schema, rows>>
        \/ t \in names[r] \ tables /\ Fails(r)

Added(c, t) ==
    /\ t \in tables /\ c \notin columns
    /\ columns' = columns \cup {c}

\* Oracle refuses the ALTER while a request or a seeding has the table in use.
Refused(c, t) ==
    /\ \/ t \notin tables \/ c \in columns
       \/ Oracle /\ \E o \in Replica : pc[o] = Serving \/ Holds(o)
    /\ UNCHANGED columns

AlterProducts(r) ==
    /\ pc[r] = "alterProducts"
    /\ \E c \in todo[r] :
        \/ /\ Added(c, "products")
           /\ Works(r, todo[r] \ {c}, "alterProducts", "orders")
           /\ UNCHANGED <<tables, keyIndex, rows, missing>>
        \/ Refused(c, "products") /\ Fails(r)

AlterGuarded(r, t) ==
    /\ pc[r] = Columns[t].alter
    /\ \E c \in todo[r] :
        /\ Added(c, t) \/ Refused(c, t)
        /\ Works(r, todo[r] \ {c}, Columns[t].alter, Columns[t].next)
    /\ UNCHANGED <<tables, keyIndex, rows, missing>>

Key(r) ==
    /\ pc[r] = "key"
    /\ \/ /\ "orders" \in names[r] => "orders" \in tables
          /\ \/ /\ "checkout_idempotency_key" \in columns
                /\ "orders" \in names[r]
                /\ keyIndex' = TRUE
             \/ /\ \/ "checkout_idempotency_key" \notin columns
                   \/ "orders" \notin names[r]
                   \/ Oracle /\ \E o \in Replica : pc[o] = Serving \/ Holds(o)
                /\ UNCHANGED keyIndex
          /\ Goes(r, "invoices")
          /\ UNCHANGED <<tables, columns, rows, local, cut>>
       \/ "orders" \in names[r] \ tables /\ Fails(r)

\* The UPDATEs are for the columns found missing, and one transaction.
CanFill(r) ==
    missing[r] \subseteq columns /\ {"invoices", "orders"} \subseteq tables

ToFill_LooksAgain(r) == missing[r] \ columns
ToFill(r) == missing[r]

Fill(r) ==
    /\ pc[r] = "fill"
    /\ \/ /\ missing[r] = {} \/ CanFill(r)
          /\ unfilled' = unfilled \ ToFill(r)
          /\ missing' = [missing EXCEPT ![r] = {}]
          /\ Goes(r, "shops")
          /\ UNCHANGED <<schema, users, history, placed, invoiced, spent,
                         todo, names, resetting, cut>>
       \/ missing[r] # {} /\ ~CanFill(r) /\ Fails(r)

Shops(r) ==
    /\ pc[r] = "shops"
    /\ \/ /\ "shops" \in names[r] \/ "shops" \notin tables
          /\ tables' = tables \cup {"shops"}
          /\ Goes(r, "seed")
          /\ UNCHANGED <<columns, keyIndex, rows, local, cut>>
       \/ "shops" \in tables \ names[r] /\ Fails(r)

(***************************************************************************)
(* seed_data: one transaction, which seeds a database without users and    *)
(* otherwise puts the seed's own rows right.                               *)
(***************************************************************************)
SeedData(r) ==
    /\ pc[r] = "seed"
    /\ \/ /\ "users" \in tables
          /\ Moves(r, CASE users = {}       -> "insert"
                         [] "seed" \in users -> "settle"
                         [] OTHER            -> "merge")
       \/ "users" \notin tables /\ Fails(r)

\* A unique index refuses a row that is there already.
Refuses_Ignored(taken) == FALSE
Refuses(taken) == taken

\* The user names are unique: the statement waits for another seeding and
\* fails once that one has committed.
SeedUsers(r) ==
    /\ pc[r] = "insert"
    /\ ~HeldByOther(r)
    /\ LET fits == "users" \in tables /\ ~Refuses("seed" \in users) IN
        \/ fits /\ Moves(r, "rest")
        \/ ~fits /\ Fails(r)

\* The seed's orders name customers 1 to 8, its invoices have unique numbers; the
\* shops come last, and that a missing table of theirs is passed over does not
\* help on PostgreSQL, where the failed SELECT has aborted the transaction.
RestFits ==
    /\ Metadata \subseteq tables /\ ~spent /\ ~Refuses(invoiced)
    /\ Oracle \/ "shops" \in tables

SeedRest(r) ==
    /\ pc[r] = "rest"
    /\ \/ /\ RestFits
          /\ users' = users \cup {"seed"}
          /\ history' = history + 1
          /\ invoiced' = TRUE
          /\ Serves(r)
          /\ UNCHANGED <<schema, placed, unfilled, spent, cut>>
       \/ ~RestFits /\ Fails(r)

\* A database with users gets the seed's users, products and services, and its
\* invoices if it has orders and no invoice.  Those name orders 1, 2, 6 and
\* customers 1, 2, 5, which only the seed or enough shoppers provide.
WantsInvoices == ~invoiced /\ history + placed > 0
NamedExist == history > 0 \/ placed >= NamedOrders

\* Settling finds the seed's users and writes what differs of them: nothing, or
\* an UPDATE that raises if a drop has meanwhile taken the rows.
Gone(r) == pc[r] = "settle" /\ "seed" \notin users

\* What a merge has inserted comes with the commit.
Merged(r) == IF pc[r] \in {"merge", "billMerged"} THEN users \cup {"seed"} ELSE users

\* A refused user ends it: the savepoint is gone, but the session wants a
\* rollback before it goes on.
Settle(r) ==
    /\ pc[r] = "settle" \/ (pc[r] = "merge" /\ ~HeldByOther(r))
    /\ LET fits == /\ Metadata \subseteq tables
                   /\ ~(pc[r] = "merge" /\ Refuses("seed" \in users)) IN
        \/ /\ fits /\ WantsInvoices
           /\ Moves(r, IF pc[r] = "merge" THEN "billMerged" ELSE "bill")
        \/ /\ fits /\ ~WantsInvoices
           /\ users' = Merged(r)
           /\ Serves(r)
           /\ UNCHANGED <<schema, history, placed, invoiced, unfilled, spent, cut>>
        \/ (~fits \/ Gone(r)) /\ Fails(r)

Bill(r) ==
    /\ pc[r] \in {"bill", "billMerged"}
    /\ LET fits == Metadata \subseteq tables /\ NamedExist /\ ~Refuses(invoiced) IN
        \/ /\ fits
           /\ users' = Merged(r) /\ invoiced' = TRUE
           /\ Serves(r)
           /\ UNCHANGED <<schema, history, placed, unfilled, spent, cut>>
        \/ ~fits /\ Fails(r)

StartStep(r) ==
    /\ \/ Start(r) \/ InitTables(r) \/ CountUsers(r)
       \/ DropAll(r) \/ Drop(r) \/ CreateAll(r) \/ Create(r)
       \/ ReadNames(r) \/ \E t \in DOMAIN Columns : Look(r, t)
       \/ AlterProducts(r)
       \/ \E t \in {"orders", "invoices"} : AlterGuarded(r, t)
       \/ Key(r) \/ Fill(r) \/ Shops(r)
       \/ SeedData(r) \/ SeedUsers(r) \/ SeedRest(r) \/ Settle(r) \/ Bill(r)
    /\ UNCHANGED <<deployment, deaths>>

(***************************************************************************)
(* Serving: what shoppers and the administrator add, and the end of a      *)
(* replica.                                                                *)
(***************************************************************************)
SignUp(r) ==
    /\ pc[r] = Serving /\ "users" \in tables
    /\ users' = users \cup {"person"}
    /\ UNCHANGED <<history, placed, pc, resetting>>

PlaceOrder(r) ==
    /\ pc[r] = Serving /\ placed < MaxOrders
    /\ "seed" \in users /\ {"orders", "products"} \subseteq tables
    /\ {"image_url", "checkout_idempotency_key"} \subseteq columns
    /\ placed' = placed + 1
    /\ UNCHANGED <<users, history, pc, resetting>>

\* The administrator's seed and reseed, which a production environment refuses.
MayReset(r) == pc[r] = Serving /\ ~deployment.production

TriggerSeed(r) ==
    /\ MayReset(r)
    /\ Goes(r, "seed")
    /\ UNCHANGED <<users, history, placed, resetting>>

Reset(r) ==
    /\ MayReset(r)
    /\ Goes(r, "dropAll")
    /\ resetting' = resetting \cup {r}
    /\ UNCHANGED <<users, history, placed>>

ServingStep(r) ==
    /\ SignUp(r) \/ PlaceOrder(r) \/ TriggerSeed(r) \/ Reset(r)
    /\ UNCHANGED <<deployment, schema, invoiced, unfilled, spent, todo, names,
                   missing, deaths, cut>>

Die(r) ==
    /\ pc[r] # "down" /\ deaths < MaxDeaths
    /\ deaths' = deaths + 1
    /\ Goes(r, "down") /\ RollsBack(r)
    /\ UNCHANGED deployment

StartupNext == \E r \in Replica : StartStep(r) \/ ServingStep(r) \/ Die(r)

StartupSpec == StartupInit /\ [][StartupNext]_startupVars

\* A replica that is starting goes on: the only thing a statement waits for is
\* another seeding's transaction, and the database serves its waiters in turn,
\* however many such transactions follow.
FairStartup == StartupSpec /\ \A r \in Replica : SF_startupVars(StartStep(r))

-----------------------------------------------------------------------------

\* In production a database in use stays in use: once the users table has rows
\* and no replica is dropping tables, no start takes a user, an order or the
\* invoices away, and none begins to drop -- not even one that read the tables
\* or their columns long before.
Settled ==
    users # {} /\ \A r \in Replica : pc[r] \notin {"dropAll", "drop"}

SettledStays ==
    [][ deployment.production /\ Settled
        => /\ Settled'
           /\ users \subseteq users' /\ history <= history'
           /\ placed <= placed' /\ (invoiced => invoiced') ]_startupVars

\* However many replicas find the database without users and go on to insert, the
\* seed's orders, which have no unique key, come once, and with its users:
\* seed_data looks first and inserts later, and only the users' unique names
\* stand between.
SeededOnce == history <= 1 /\ (history > 0 => "seed" \in users)

\* The values for a column that came later are not forgotten between the ALTER
\* that adds it and the UPDATE that fills it: a column that stands there
\* unfilled is some replica's to fill, unless that replica died or gave up in
\* between -- the next start finds the column and does not fill it any more.
FilledUnlessCut ==
    \A c \in unfilled \cap columns : cut \/ \E r \in Replica : c \in missing[r]

\* On PostgreSQL, however the replicas get in each other's way, one of them
\* gets the seed into the production database and it stays, unless a seeding
\* that was broken off used up the customer numbers its rows name.  (On Oracle
\* a refused drop may leave both replicas without it.)
SeedArrives ==
    deployment.production /\ ~Oracle => <>[]("seed" \in users \/ spent)

-----------------------------------------------------------------------------
\* The inductive invariant.

\* No table without the ones it refers to.
ReferencesHold == \A t \in tables \cap Metadata : RefersTo[t] \subseteq tables

\* What a replica works through: tables to drop or create, or columns of one
\* table that it has found missing.  It remembers missing columns of invoices
\* until they are filled.
ListsFit ==
    \A r \in Replica :
        /\ pc[r] \in {"drop", "create"} => todo[r] \subseteq Metadata
        /\ \A t \in DOMAIN Columns :
            pc[r] = Columns[t].alter => todo[r] \subseteq missing[r] \cap Late[t]
        /\ pc[r] \notin {"alterInvoices", "fill"} =>
            missing[r] \cap Late["invoices"] = {}

\* One transaction at most has uncommitted rows of the seed's users, and then no
\* committed ones are there.
HoldersAlone ==
    \A r \in Replica : Holds(r) => "seed" \notin users /\ ~HeldByOther(r)

StartupInv ==
    /\ StartupTypeOK
    /\ ReferencesHold
    /\ ListsFit
    /\ HoldersAlone
    /\ SeededOnce
    /\ FilledUnlessCut

=============================================================================
