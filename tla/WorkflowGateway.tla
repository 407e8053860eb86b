-------------------------- MODULE WorkflowGateway --------------------------
(***************************************************************************)
(* The workflow gateway (service.go, oracle.go, router.go, main.go) behind *)
(* the shop's proxy (workflow_gateway.py).  A scheduler sweeps over the    *)
(* catalogue's queries, one statement after another, while requests run    *)
(* queries and read the overview, part of which is in the tables and part  *)
(* in the memory of the process.                                           *)
(***************************************************************************)
EXTENDS Integers, Sequences

CONSTANTS
  Request,      \* requests that may be under way at one time
  Calls,        \* what is asked of the proxy
  FaultyProbe,  \* WORKFLOW_FAULTY_QUERY_ENABLED
  SelectAI,     \* SELECTAI_PROFILE_NAME is set
  Recent,       \* how many rows of a table an overview lists
  NoError,
  MaxSweeps,    \* bound: sweeps of a process
  MaxBoots      \* bound: processes, one after another

Scheduled == <<"orders_backlog", "inventory_watch", "crm_customer_mix">>
Probes    == {"broken_orders_probe", "missing_table_probe"}
Catalog   == {Scheduled[i] : i \in 1 .. Len(Scheduled)} \cup {"component_topology"} \cup Probes
Health    == <<"connected", "healthy", "healthy">>  \* of ATP, the shop and the CRM

\* A call has a sender, the host it is sent to, a route, and if it is to run a
\* query its name; its body keeps the proxy's limits or does not.
Call == [who: {"admin", "service", "user"}, host: {"admin", "shop"}, query: STRING,
         path: {"overview", "list", "run", "selectai", "health"}, within: BOOLEAN]

ASSUME GatewayAssumption ==
  /\ Calls \subseteq Call
  /\ FaultyProbe \in BOOLEAN /\ SelectAI \in BOOLEAN
  /\ Recent \in Nat \ {0} /\ MaxSweeps \in Nat /\ MaxBoots \in Nat

VARIABLES
  boot,        \* which process is running
  stopping,    \* the signal has cancelled the scheduler's context
  sweep,       \* where the scheduler is, in which sweep of the process
  lastRun,     \* the last sweep that ended, 0 before
  lastError,   \* the error kept, and the sweep that met it
  executions,  \* query_executions
  runs,        \* workflow_runs
  snapshots,   \* component_snapshots
  req          \* what each request is doing

memory == <<lastRun, lastError>>
tables == <<executions, runs, snapshots>>
vars   == <<boot, stopping, sweep, memory, tables, req>>

Waits == [n |-> 0, step |-> "wait", i |-> 0, status |-> "success"]
Idle  == [step |-> "idle"]

Init ==
  /\ boot = 1 /\ stopping = FALSE /\ sweep = Waits
  /\ lastRun = 0 /\ lastError = NoError
  /\ executions = <<>> /\ runs = <<>> /\ snapshots = <<>>
  /\ req = [r \in Request |-> Idle]
----------------------------------------------------------------------------
\* Only the newest rows of a table are ever read.
Newest(rows) == IF Len(rows) <= Recent THEN rows
                ELSE SubSeq(rows, Len(rows) - Recent + 1, Len(rows))

\* An INSERT whose error nobody looks at; under a cancelled context it fails.
Insert(rows, row, cancelled) ==
  {rows} \cup (IF cancelled THEN {} ELSE {Newest(Append(rows, row))})

\* The probes name a column or a table there is none of.
Outcome(query, cancelled) ==
  IF cancelled \/ query \in Probes THEN {"error"} ELSE {"success", "error"}

\* A row tells the process and the sweep it is from, and its status; a query run by
\* hand is from no sweep.
Row(n, status) == [boot |-> boot, sweep |-> n, status |-> status]
----------------------------------------------------------------------------
\* The scheduler

Plan     == Scheduled \o (IF FaultyProbe THEN <<"broken_orders_probe">> ELSE <<>>)
At(step) == sweep.step = step
Goes(step, i) == sweep' = [sweep EXCEPT !.step = step, !.i = i]
GoesOn   == IF sweep.i < Len(Plan) THEN Goes("query", sweep.i + 1) ELSE Goes("overview", 0)

\* At once, and then whenever the ticker has ticked: a tick that is ready may
\* win over the signal.
StartSweep ==
  /\ At("wait") /\ sweep.n < MaxSweeps
  /\ sweep' = [n |-> sweep.n + 1, step |-> "query", i |-> 1, status |-> "success"]
  /\ UNCHANGED <<boot, stopping, memory, tables, req>>

SweepQuery ==
  /\ At("query")
  /\ \E status \in Outcome(Plan[sweep.i], stopping) :
       sweep' = [sweep EXCEPT !.step = "record", !.status = status]
  /\ UNCHANGED <<boot, stopping, memory, tables, req>>

\* RunQuery records what came of it, and returns an error only if none was expected.
SweepRecord ==
  /\ At("record")
  /\ executions' \in Insert(executions, Row(sweep.n, sweep.status), stopping)
  /\ IF sweep.status = "error" /\ Plan[sweep.i] \notin Probes
     THEN Goes("note", sweep.i) ELSE GoesOn
  /\ UNCHANGED <<boot, stopping, memory, runs, snapshots, req>>

SweepNote ==
  /\ At("note")
  /\ lastError' = [sweep |-> sweep.n, by |-> Plan[sweep.i]]
  /\ GoesOn
  /\ UNCHANGED <<boot, stopping, lastRun, tables, req>>

\* Any of the overview's queries may fail, and then no snapshot is taken.
SweepOverview ==
  /\ At("overview")
  /\ \/ /\ ~stopping /\ Goes("snapshot", 1)
        /\ UNCHANGED lastError
     \/ /\ lastError' = [sweep |-> sweep.n, by |-> "overview"]
        /\ Goes("run", 0)
  /\ UNCHANGED <<boot, stopping, lastRun, tables, req>>

SweepSnapshot ==
  /\ At("snapshot")
  /\ snapshots' \in Insert(snapshots, Row(sweep.n, Health[sweep.i]), stopping)
  /\ IF sweep.i < Len(Health) THEN Goes("snapshot", sweep.i + 1) ELSE Goes("run", 0)
  /\ UNCHANGED <<boot, stopping, memory, executions, runs, req>>

\* The run is a success, whatever its queries were.
SweepRun ==
  /\ At("run")
  /\ runs' \in Insert(runs, Row(sweep.n, "success"), stopping)
  /\ Goes("end", 0)
  /\ UNCHANGED <<boot, stopping, memory, executions, snapshots, req>>

SweepEnd_KeepsError ==
  /\ At("end")
  /\ lastRun' = sweep.n
  /\ Goes("wait", 0)
  /\ UNCHANGED <<boot, stopping, lastError, tables, req>>

SweepEnd ==
  /\ At("end")
  /\ lastRun' = sweep.n /\ lastError' = NoError
  /\ Goes("wait", 0)
  /\ UNCHANGED <<boot, stopping, tables, req>>

SchedulerStops ==
  /\ At("wait") /\ stopping
  /\ Goes("done", 0)
  /\ UNCHANGED <<boot, stopping, memory, tables, req>>
----------------------------------------------------------------------------
\* Requests

\* A service shows its key, an admin a token that says so; no one else is let in.
Trusted(c) == c.who \in {"service", "admin"}

\* The proxy: an admin by way of the admin's host, or another service; only the
\* listed routes, and /health is none of them.
Admitted(c) ==
  /\ Trusted(c) /\ (c.who = "service" \/ c.host = "admin")
  /\ c.path # "health" /\ c.within

\* The handlers, and Service: no query of another name, no prompt without a profile.
Valid(c) ==
  /\ c.path = "run" => c.query \in Catalog
  /\ c.path = "selectai" => SelectAI

On(r, step)     == req[r].step = step
Does(r, what)   == req' = [req EXCEPT ![r] = what]

\* The catalogue and the lists of executions and components: answered as they are.
Reads(c) == c.path = "list"

\* Whatever is refused changes nothing.
Ask(r, c) ==
  /\ On(r, "idle") \/ On(r, "told")
  /\ Admitted(c) /\ Valid(c)
  /\ Does(r, IF Reads(c) THEN Idle
             ELSE IF c.path = "overview" THEN [step |-> "queries"]
             ELSE [step |-> "query",
                   query |-> IF c.path = "run" THEN c.query ELSE "select_ai_generate"])
  /\ UNCHANGED <<boot, stopping, sweep, memory, tables>>

Run(r) ==
  /\ On(r, "query")
  /\ \E status \in Outcome(req[r].query, FALSE) :
       Does(r, [step |-> "record", query |-> req[r].query, status |-> status])
  /\ UNCHANGED <<boot, stopping, sweep, memory, tables>>

\* Recorded and answered; the scheduler's last error is none of its business.
Record(r) ==
  /\ On(r, "record")
  /\ executions' \in Insert(executions, Row(0, req[r].status), FALSE)
  /\ Does(r, Idle)
  /\ UNCHANGED <<boot, stopping, sweep, memory, runs, snapshots>>

\* The overview: its lists are read one after another, the memory last.  What is
\* kept of them is the sweeps of this process they show.
Shown(rows) == {rows[i].sweep : i \in {j \in 1 .. Len(rows) : rows[j].boot = boot}}

ReadQueries(r) ==
  /\ On(r, "queries")
  /\ Does(r, [step |-> "runs", shown |-> Shown(executions)])
  /\ UNCHANGED <<boot, stopping, sweep, memory, tables>>

ReadRuns(r) ==
  /\ On(r, "runs")
  /\ Does(r, [step |-> "components", shown |-> req[r].shown \cup Shown(runs)])
  /\ UNCHANGED <<boot, stopping, sweep, memory, tables>>

ReadComponents(r) ==
  /\ On(r, "components")
  /\ Does(r, [step |-> "status", shown |-> req[r].shown \cup Shown(snapshots)])
  /\ UNCHANGED <<boot, stopping, sweep, memory, tables>>

Tell(r) ==
  /\ On(r, "status")
  /\ Does(r, [step |-> "told", shown |-> req[r].shown,
              lastRun |-> lastRun, lastError |-> lastError])
  /\ UNCHANGED <<boot, stopping, sweep, memory, tables>>

\* A read fails, or the proxy has waited its 20 seconds, which cancels the
\* request's context.
GiveUp(r) ==
  /\ ~On(r, "idle") /\ ~On(r, "told")
  /\ Does(r, Idle)
  /\ UNCHANGED <<boot, stopping, sweep, memory, tables>>
----------------------------------------------------------------------------
\* The process

Signal ==
  /\ ~stopping
  /\ stopping' = TRUE
  /\ UNCHANGED <<boot, sweep, memory, tables, req>>

\* It ends, the signal's ten seconds over or not waited for, and another begins:
\* what was in its memory is gone, the tables stay.
Restart ==
  /\ boot < MaxBoots
  /\ boot' = boot + 1 /\ stopping' = FALSE /\ sweep' = Waits
  /\ lastRun' = 0 /\ lastError' = NoError
  /\ req' = [r \in Request |-> Idle]
  /\ UNCHANGED tables

Next ==
  \/ StartSweep \/ SweepQuery \/ SweepRecord \/ SweepNote \/ SweepOverview
  \/ SweepSnapshot \/ SweepRun \/ SweepEnd \/ SchedulerStops
  \/ \E r \in Request :
       \/ \E c \in Calls : Ask(r, c)
       \/ Run(r) \/ Record(r)
       \/ ReadQueries(r) \/ ReadRuns(r) \/ ReadComponents(r) \/ Tell(r) \/ GiveUp(r)
  \/ Signal \/ Restart

Spec == Init /\ [][Next]_vars
----------------------------------------------------------------------------
\* Types.  The scheduler stays within its list, nothing runs but a query of the
\* catalogue or Select AI, and no table shows more rows than are read.
SweepStep ==
  {"wait", "query", "record", "note", "overview", "snapshot", "run", "end", "done"}
Status      == {"success", "error", "connected", "healthy"}
SweepNumber == 0 .. MaxSweeps
ErrorKept   == [sweep: SweepNumber, by: Catalog \cup {"overview"}] \cup {NoError}
Runnable    == Catalog \cup {"select_ai_generate"}
RowKept     == [boot: Nat \ {0}, sweep: SweepNumber, status: Status]

SweepTyped ==
  /\ sweep \in [n: SweepNumber, step: SweepStep, i: Nat, status: {"success", "error"}]
  /\ sweep.step \in {"query", "record", "note"} => sweep.i \in 1 .. Len(Plan)
  /\ sweep.step = "snapshot" => sweep.i \in 1 .. Len(Health)

RequestState ==
  [step: {"idle", "queries"}]
    \cup [step: {"query"}, query: Runnable]
    \cup [step: {"record"}, query: Runnable, status: {"success", "error"}]
    \cup [step: {"runs", "components", "status"}, shown: SUBSET SweepNumber]
    \cup [step: {"told"}, shown: SUBSET SweepNumber, lastRun: SweepNumber, lastError: ErrorKept]

TypeOK ==
  /\ boot \in Nat \ {0} /\ stopping \in BOOLEAN
  /\ SweepTyped
  /\ lastRun \in SweepNumber /\ lastError \in ErrorKept
  /\ \A rows \in {executions, runs, snapshots} : rows \in Seq(RowKept) /\ Len(rows) <= Recent
  /\ req \in [Request -> RequestState]

\* What an overview tells fits together, though it was read at four times: no
\* list is more than the one sweep under way ahead of the last run, and an error
\* it shows is one of that sweep and not of one that is over.
OverviewFits ==
  \A r \in Request : On(r, "told") => LET o == req[r] IN
    /\ \A n \in o.shown : n <= o.lastRun + 1
    /\ o.lastError # NoError => o.lastError.sweep = o.lastRun + 1
----------------------------------------------------------------------------
\* What makes it so: the sweep under way is the one after the last run, an error is
\* kept only during it, and no row is from a later sweep or process.
UnderWay == sweep.step \notin {"wait", "done"}

SweepFits ==
  /\ sweep.n = IF UnderWay THEN lastRun + 1 ELSE lastRun
  /\ lastError # NoError => UnderWay /\ lastError.sweep = sweep.n

RowsFit == \A rows \in {executions, runs, snapshots} : \A i \in 1 .. Len(rows) :
  /\ rows[i].boot <= boot
  /\ rows[i].boot = boot => rows[i].sweep <= sweep.n

ReadsFit == \A r \in Request :
  req[r].step \in {"runs", "components", "status"} => \A n \in req[r].shown : n <= sweep.n

SweepOK ==
  /\ sweep \in [n: Nat, step: SweepStep, i: Nat, status: {"success", "error"}]
  /\ sweep.step = "snapshot" => sweep.i \in 1 .. Len(Health)

Rows == [boot: Nat, sweep: Nat, status: Status]

IInv ==
  /\ SweepOK
  /\ stopping \in BOOLEAN /\ lastRun \in Nat /\ boot \in Nat
  /\ executions \in Seq(Rows) /\ runs \in Seq(Rows) /\ snapshots \in Seq(Rows)
  /\ DOMAIN req = Request
  /\ \A r \in Request :
       /\ req[r].step \in {"runs", "components", "status", "told"} => req[r].shown \subseteq Nat
       /\ req[r].step = "record" => req[r].status \in Status
  /\ SweepFits /\ RowsFit /\ ReadsFit /\ OverviewFits
=============================================================================
