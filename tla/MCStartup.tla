------------------------------ MODULE MCStartup ------------------------------
(***************************************************************************)
(* Startup for TLC: two replicas, production on Oracle and on PostgreSQL   *)
(* and a test deployment on each, on databases of every age.               *)
(***************************************************************************)
EXTENDS Startup, TLC

CONSTANTS Production, Test

Deployed == [backend : {"oracle", "postgresql"},
             production : (IF Production THEN {TRUE} ELSE {})
                          \cup (IF Test THEN {FALSE} ELSE {})]

Database(ts, us, h, cs, un, key) ==
    [tables |-> ts, users |-> us, history |-> h, columns |-> cs,
     unfilled |-> un, keyIndex |-> key]

AllTables == Metadata \cup {"shops"}
AllColumns == LateOf(Metadata)

Fresh == Database({}, {}, 0, {}, {}, FALSE)
Bare == Database(AllTables, {}, 0, AllColumns, {}, TRUE)
Seeded == Database(AllTables, {"seed"}, 1, AllColumns, {}, TRUE)
\* Of a release before the late columns, and of one before the invoices.
Old == Database(AllTables, {"seed"}, 1, {}, Late["invoices"], FALSE)
Older == Database({"products", "users", "orders"}, {"seed"}, 1, {}, {}, FALSE)

Ages == {Fresh, Bare, Seeded, Old, Older}

=============================================================================
