----------------------- MODULE WorkflowGatewayProofs -----------------------
(* What the workflow gateway's overview tells, for any number of requests, *)
(* sweeps and restarts.                                                    *)
EXTENDS WorkflowGateway, SequenceTheorems, TLAPS

\* Whether an INSERT succeeds or not, there are rows of before and the new one.
LEMMA Inserted ==
  ASSUME NEW s \in Seq(Rows), NEW x \in Rows, NEW c \in BOOLEAN, NEW t \in Insert(s, x, c)
  PROVE  /\ t \in Seq(Rows)
         /\ \A i \in 1 .. Len(t) : t[i] = x \/ \E j \in 1 .. Len(s) : t[i] = s[j]
<1> DEFINE a == Append(s, x)
<1>1. /\ a \in Seq(Rows) /\ Len(a) = Len(s) + 1
      /\ \A i \in 1 .. Len(a) : a[i] = x \/ \E j \in 1 .. Len(s) : a[i] = s[j]
  OBVIOUS
<1>2. t = s \/ t = Newest(a)
  BY DEF Insert
<1>3. CASE t = s
  BY <1>3
<1>4. CASE t = Newest(a) /\ Len(a) <= Recent
  BY <1>1, <1>4 DEF Newest
<1>5. CASE t = Newest(a) /\ ~(Len(a) <= Recent)
  <2> DEFINE k == Len(a) - Recent
  <2>1. k \in Nat /\ k + 1 >= 1 /\ k + 1 <= Len(a) /\ Recent \in Nat \ {0} /\ Len(a) \in Nat
    BY <1>1, <1>5, GatewayAssumption
  <2>2. t = SubSeq(a, k + 1, Len(a))
    BY <1>5, <2>1 DEF Newest
  <2> HIDE DEF a, k
  <2>3. t \in Seq(Rows) /\ Len(t) = Len(a) - k /\ \A i \in 1 .. Len(t) : t[i] = a[i + k]
    <3>1. k + 1 \in 1 .. Len(a) + 1 /\ Len(a) \in (k + 1) - 1 .. Len(a)
      BY <2>1
    <3> QED  BY <1>1, <2>1, <2>2, <3>1, SubSeqProperties
  <2>4. \A i \in 1 .. Len(t) : i + k \in 1 .. Len(a)
    BY <2>1, <2>3
  <2> QED  BY <1>1, <2>3, <2>4
<1> QED  BY <1>2, <1>3, <1>4, <1>5

\* The initial state has the inductive invariant.
LEMMA InitIInv == Init => IInv
<1> SUFFICES ASSUME Init PROVE IInv  OBVIOUS
<1>1. \A r \in Request : req[r].step = "idle"
  BY DEF Init, Idle
<1>2. sweep.n = 0 /\ sweep.step = "wait"
  BY DEF Init, Waits
<1>3. SweepFits /\ ReadsFit /\ OverviewFits
  BY <1>1, <1>2 DEF Init, SweepFits, UnderWay, ReadsFit, OverviewFits, On
<1>4. RowsFit
  BY DEF Init, RowsFit
<1>5. <<>> \in Seq(Rows)
  OBVIOUS
<1> QED
  BY <1>1, <1>3, <1>4, <1>5 DEF Init, IInv, SweepOK, Waits, SweepStep

\* The scheduler goes on, or the process does nothing, with the tables and the
\* requests left alone.
LEMMA SchedulerGoesOn ==
  ASSUME IInv, UNCHANGED <<boot, stopping, tables, req>>,
         SweepOK',
         sweep'.n >= sweep.n, lastRun' \in Nat, SweepFits'
  PROVE  IInv'
<1>1. RowsFit'
  <2>1. sweep.n \in Nat /\ sweep'.n \in Nat /\ sweep.n <= sweep'.n
    BY DEF IInv, SweepOK
  <2>2. ASSUME NEW rows \in {executions, runs, snapshots}, NEW i \in 1 .. Len(rows)
        PROVE  rows[i].boot <= boot /\ (rows[i].boot = boot => rows[i].sweep <= sweep'.n)
    <3>1. rows \in Seq(Rows)
      BY DEF IInv, SweepOK
    <3>2. rows[i] \in Rows
      BY <3>1
    <3>3. rows[i].sweep \in Nat
      BY <3>2 DEF Rows
    <3>4. rows[i].boot <= boot /\ (rows[i].boot = boot => rows[i].sweep <= sweep.n)
      BY DEF IInv, SweepOK, RowsFit
    <3> QED  BY <2>1, <3>3, <3>4
  <2> QED
    BY <2>2 DEF RowsFit, tables
<1>2. ReadsFit'
  BY DEF IInv, SweepOK, ReadsFit
<1>3. OverviewFits'
  BY DEF IInv, SweepOK, OverviewFits, On
<1> QED
  BY <1>1, <1>2, <1>3 DEF IInv, SweepOK, tables

\* Where a step of the sweep leads it.
LEMMA Goal ==
  ASSUME IInv, NEW step \in SweepStep, NEW i \in Nat, Goes(step, i),
         step = "snapshot" => i \in 1 .. Len(Health)
  PROVE  /\ SweepOK'
         /\ sweep'.n = sweep.n /\ sweep'.step = step
BY DEF IInv, SweepOK, Goes

\* What going on leaves of the sweep.
LEMMA GoalOn ==
  ASSUME IInv, GoesOn
  PROVE  /\ SweepOK'
         /\ sweep'.n = sweep.n /\ sweep'.step \in {"query", "overview"}
<1>1. CASE sweep.i < Len(Plan)
  <2>1. Goes("query", sweep.i + 1) /\ sweep.i + 1 \in Nat
    BY <1>1 DEF GoesOn, IInv, SweepOK
  <2> QED  BY <2>1, Goal DEF SweepStep
<1>2. CASE ~(sweep.i < Len(Plan))
  <2>1. Goes("overview", 0)
    BY <1>2 DEF GoesOn
  <2> QED  BY <2>1, Goal DEF SweepStep
<1> QED  BY <1>1, <1>2

\* A row is inserted while the requests rest but for what they may have read.
LEMMA RowsStayFit ==
  ASSUME IInv, UNCHANGED boot, sweep'.n = sweep.n,
         NEW n \in 0 .. sweep.n, NEW status \in Status, NEW c \in BOOLEAN,
         \/ executions' \in Insert(executions, Row(n, status), c) /\ UNCHANGED <<runs, snapshots>>
         \/ runs' \in Insert(runs, Row(n, status), c) /\ UNCHANGED <<executions, snapshots>>
         \/ snapshots' \in Insert(snapshots, Row(n, status), c) /\ UNCHANGED <<executions, runs>>
  PROVE  /\ executions' \in Seq(Rows) /\ runs' \in Seq(Rows) /\ snapshots' \in Seq(Rows)
         /\ RowsFit'
<1>3. executions \in Seq(Rows) /\ runs \in Seq(Rows) /\ snapshots \in Seq(Rows)
  BY DEF IInv, SweepOK
<1> DEFINE x == Row(n, status)
<1>1. n \in Nat /\ sweep.n \in Nat /\ boot \in Nat
  BY DEF IInv, SweepOK
<1>2. x \in Rows /\ x.boot = boot /\ x.sweep = n
  BY <1>1 DEF Row, Rows
<1> DEFINE Fit(t) == \A i \in 1 .. Len(t) :
             t[i].boot <= boot /\ (t[i].boot = boot => t[i].sweep <= sweep.n)
<1>4. Fit(executions) /\ Fit(runs) /\ Fit(snapshots)
  BY DEF IInv, SweepOK, RowsFit
<1>5. ASSUME NEW s \in Seq(Rows), Fit(s), NEW t \in Insert(s, x, c)
      PROVE  t \in Seq(Rows) /\ Fit(t)
  <2>1. /\ t \in Seq(Rows)
        /\ \A i \in 1 .. Len(t) : t[i] = x \/ \E j \in 1 .. Len(s) : t[i] = s[j]
    BY <1>2, <1>5, Inserted
  <2>2. Fit(t)
    BY <1>1, <1>2, <1>5, <2>1
  <2> QED  BY <2>1, <2>2
<1>6. /\ executions' \in Seq(Rows) /\ Fit(executions')
      /\ runs' \in Seq(Rows) /\ Fit(runs') /\ snapshots' \in Seq(Rows) /\ Fit(snapshots')
  <2> HIDE DEF Fit
  <2> QED  BY <1>3, <1>4, <1>5
<1>7. RowsFit'
  BY <1>6 DEF RowsFit
<1> QED  BY <1>6, <1>7

\* The sweep is under way before and after a step, and no error is forgotten or new.
LEMMA SweepGoesOn ==
  ASSUME IInv, UNCHANGED memory, UnderWay, sweep'.n = sweep.n,
         sweep'.step \notin {"wait", "done"}
  PROVE  SweepFits'
BY DEF IInv, SweepOK, SweepFits, UnderWay, memory

\* A sweep's statement leaves a row or none, and the sweep goes on.
LEMMA SweepInserts ==
  ASSUME IInv, UNCHANGED <<boot, stopping, memory, req>>, UnderWay,
         SweepOK',
         sweep'.n = sweep.n, sweep'.step \notin {"wait", "done"}, NEW status \in Status,
         \/ executions' \in Insert(executions, Row(sweep.n, status), stopping)
              /\ UNCHANGED <<runs, snapshots>>
         \/ runs' \in Insert(runs, Row(sweep.n, status), stopping)
              /\ UNCHANGED <<executions, snapshots>>
         \/ snapshots' \in Insert(snapshots, Row(sweep.n, status), stopping)
              /\ UNCHANGED <<executions, runs>>
  PROVE  IInv'
<1>1. sweep.n \in 0 .. sweep.n /\ stopping \in BOOLEAN
  BY DEF IInv, SweepOK
<1>2. /\ executions' \in Seq(Rows) /\ runs' \in Seq(Rows) /\ snapshots' \in Seq(Rows)
      /\ RowsFit'
  BY <1>1, RowsStayFit
<1>3. SweepFits'
  BY SweepGoesOn
<1>4. ReadsFit'
  BY DEF IInv, SweepOK, ReadsFit
<1>5. OverviewFits'
  BY DEF IInv, SweepOK, OverviewFits, On
<1> QED
  BY <1>2, <1>3, <1>4, <1>5 DEF IInv, SweepOK, memory

\* Each step of the scheduler preserves the inductive invariant.
LEMMA StartSweepIInv == IInv /\ StartSweep => IInv'
<1> SUFFICES ASSUME IInv, StartSweep PROVE IInv'  OBVIOUS
<1>1. /\ sweep' = [n |-> sweep.n + 1, step |-> "query", i |-> 1, status |-> "success"]
      /\ UNCHANGED <<boot, stopping, memory, tables, req>> /\ sweep.step = "wait" /\ sweep.n \in Nat
  BY DEF StartSweep, At, IInv, SweepOK
<1>2. SweepOK'
      /\ sweep'.n >= sweep.n /\ lastRun' \in Nat
  BY <1>1 DEF SweepStep, IInv, SweepOK, memory
<1>3. SweepFits'
  BY <1>1 DEF IInv, SweepOK, SweepFits, UnderWay, memory
<1> QED  BY <1>1, <1>2, <1>3, SchedulerGoesOn

\* A query of the sweep ends one way or the other; nothing is recorded yet.
LEMMA SweepQueryIInv == IInv /\ SweepQuery => IInv'
<1> SUFFICES ASSUME IInv, SweepQuery PROVE IInv'  OBVIOUS
<1>1. PICK status \in {"success", "error"} :
        sweep' = [sweep EXCEPT !.step = "record", !.status = status]
  BY DEF SweepQuery, Outcome
<1>2. UNCHANGED <<boot, stopping, memory, tables, req>> /\ sweep.step = "query"
  BY DEF SweepQuery, At
<1>3. SweepOK'
      /\ sweep'.n = sweep.n /\ sweep'.step = "record"
  BY <1>1 DEF SweepStep, IInv, SweepOK
<1>4. sweep'.n >= sweep.n /\ lastRun' \in Nat
  BY <1>2, <1>3 DEF IInv, SweepOK, memory
<1>5. SweepFits'
  BY <1>2, <1>3, SweepGoesOn DEF UnderWay
<1> QED  BY <1>2, <1>3, <1>4, <1>5, SchedulerGoesOn

\* The row recorded is of the sweep under way.
LEMMA SweepRecordIInv == IInv /\ SweepRecord => IInv'
<1> SUFFICES ASSUME IInv, SweepRecord PROVE IInv'  OBVIOUS
<1>1. /\ executions' \in Insert(executions, Row(sweep.n, sweep.status), stopping)
      /\ UNCHANGED <<boot, stopping, memory, runs, snapshots, req>> /\ sweep.step = "record"
      /\ Goes("note", sweep.i) \/ GoesOn
  BY DEF SweepRecord, At
<1>2. sweep.i \in Nat /\ sweep.status \in Status
  BY DEF IInv, SweepOK, Status
<1>3. /\ SweepOK'
      /\ sweep'.n = sweep.n /\ sweep'.step \in {"note", "query", "overview"}
  BY <1>1, <1>2, Goal, GoalOn DEF SweepStep
<1> QED  BY <1>1, <1>2, <1>3, SweepInserts DEF UnderWay

\* The error kept is one of the sweep under way.
LEMMA ErrorIsNew ==
  ASSUME IInv, UnderWay, UNCHANGED <<boot, stopping, lastRun, tables, req>>, NEW by,
         lastError' = [sweep |-> sweep.n, by |-> by],
         SweepOK',
         sweep'.n = sweep.n, sweep'.step \notin {"wait", "done"}
  PROVE  IInv'
<1>1. SweepFits'
  BY DEF IInv, SweepOK, SweepFits, UnderWay
<1>2. sweep'.n >= sweep.n /\ lastRun' \in Nat
  BY DEF IInv, SweepOK
<1> QED  BY <1>1, <1>2, SchedulerGoesOn

\* The error kept is of the sweep under way.
LEMMA SweepNoteIInv == IInv /\ SweepNote => IInv'
<1> SUFFICES ASSUME IInv, SweepNote PROVE IInv'  OBVIOUS
<1>1. /\ lastError' = [sweep |-> sweep.n, by |-> Plan[sweep.i]] /\ GoesOn
      /\ UNCHANGED <<boot, stopping, lastRun, tables, req>> /\ sweep.step = "note"
  BY DEF SweepNote, At
<1> QED  BY <1>1, GoalOn, ErrorIsNew DEF UnderWay

\* The sweep reads the overview, or keeps the error of its reading.
LEMMA SweepOverviewIInv == IInv /\ SweepOverview => IInv'
<1> SUFFICES ASSUME IInv, SweepOverview PROVE IInv'  OBVIOUS
<1>1. UNCHANGED <<boot, stopping, lastRun, tables, req>> /\ sweep.step = "overview"
  BY DEF SweepOverview, At
<1>2. CASE Goes("snapshot", 1) /\ UNCHANGED lastError
  <2>1. /\ SweepOK'
        /\ sweep'.n = sweep.n /\ sweep'.step = "snapshot"
    <3>1. 1 \in 1 .. Len(Health)
      BY DEF Health
    <3> QED  BY <1>2, <3>1, Goal DEF SweepStep
  <2>2. sweep'.n >= sweep.n /\ lastRun' \in Nat
    BY <1>1, <2>1 DEF IInv, SweepOK
  <2>3. SweepFits'
    BY <1>1, <1>2, <2>1, SweepGoesOn DEF UnderWay, memory
  <2> QED  BY <1>1, <2>1, <2>2, <2>3, SchedulerGoesOn
<1>3. CASE lastError' = [sweep |-> sweep.n, by |-> "overview"] /\ Goes("run", 0)
  <2>1. /\ SweepOK'
        /\ sweep'.n = sweep.n /\ sweep'.step = "run"
    BY <1>3, Goal DEF SweepStep
  <2> QED  BY <1>1, <1>3, <2>1, ErrorIsNew DEF UnderWay
<1> QED  BY <1>2, <1>3 DEF SweepOverview

\* The snapshot recorded is of the sweep under way.
LEMMA SweepSnapshotIInv == IInv /\ SweepSnapshot => IInv'
<1> SUFFICES ASSUME IInv, SweepSnapshot PROVE IInv'  OBVIOUS
<1>1. /\ snapshots' \in Insert(snapshots, Row(sweep.n, Health[sweep.i]), stopping)
      /\ UNCHANGED <<boot, stopping, memory, executions, runs, req>> /\ sweep.step = "snapshot"
      /\ \/ sweep.i < Len(Health) /\ Goes("snapshot", sweep.i + 1)
         \/ Goes("run", 0)
  BY DEF SweepSnapshot, At
<1>2. /\ sweep.i \in Nat /\ sweep.i + 1 \in Nat /\ Health[sweep.i] \in Status
      /\ sweep.i < Len(Health) => sweep.i + 1 \in 1 .. Len(Health)
  BY <1>1 DEF IInv, SweepOK, Status, Health
<1>3. /\ SweepOK'
      /\ sweep'.n = sweep.n /\ sweep'.step \in {"snapshot", "run"}
  BY <1>1, <1>2, Goal DEF SweepStep
<1> QED  BY <1>1, <1>2, <1>3, SweepInserts DEF UnderWay

\* The run recorded is of the sweep under way.
LEMMA SweepRunIInv == IInv /\ SweepRun => IInv'
<1> SUFFICES ASSUME IInv, SweepRun PROVE IInv'  OBVIOUS
<1>1. /\ runs' \in Insert(runs, Row(sweep.n, "success"), stopping) /\ Goes("end", 0)
      /\ UNCHANGED <<boot, stopping, memory, executions, snapshots, req>> /\ sweep.step = "run"
  BY DEF SweepRun, At
<1>2. "success" \in Status
  BY DEF Status
<1>3. /\ SweepOK'
      /\ sweep'.n = sweep.n /\ sweep'.step = "end"
  BY <1>1, Goal DEF SweepStep
<1> QED  BY <1>1, <1>2, <1>3, SweepInserts DEF UnderWay

\* The sweep's number becomes that of the last run, and its error is forgotten.
LEMMA SweepEndIInv == IInv /\ SweepEnd => IInv'
<1> SUFFICES ASSUME IInv, SweepEnd PROVE IInv'  OBVIOUS
<1>1. /\ lastRun' = sweep.n /\ lastError' = NoError /\ Goes("wait", 0)
      /\ UNCHANGED <<boot, stopping, tables, req>>
  BY DEF SweepEnd
<1>2. /\ SweepOK'
      /\ sweep'.n = sweep.n /\ sweep'.step = "wait"
  BY <1>1, Goal DEF SweepStep
<1>3. sweep'.n >= sweep.n /\ lastRun' \in Nat
  BY <1>1, <1>2 DEF IInv, SweepOK
<1>4. SweepFits'
  BY <1>1, <1>2 DEF SweepFits, UnderWay
<1> QED  BY <1>1, <1>2, <1>3, <1>4, SchedulerGoesOn

\* A scheduler that stops is between two sweeps.
LEMMA SchedulerStopsIInv == IInv /\ SchedulerStops => IInv'
<1> SUFFICES ASSUME IInv, SchedulerStops PROVE IInv'  OBVIOUS
<1>1. UNCHANGED <<boot, stopping, memory, tables, req>> /\ sweep.step = "wait" /\ Goes("done", 0)
  BY DEF SchedulerStops, At
<1>2. /\ SweepOK'
      /\ sweep'.n = sweep.n /\ sweep'.step = "done"
  BY <1>1, Goal DEF SweepStep
<1>3. sweep'.n >= sweep.n /\ lastRun' \in Nat
  BY <1>1, <1>2 DEF IInv, SweepOK, memory
<1>4. SweepFits'
  BY <1>1, <1>2 DEF IInv, SweepOK, SweepFits, UnderWay, memory
<1> QED  BY <1>1, <1>2, <1>3, <1>4, SchedulerGoesOn

\* What a request may do to what is kept of the requests.
LEMMA RequestFits ==
  ASSUME IInv, sweep' = sweep, NEW r \in Request, NEW what, Does(r, what),
         what.step \in {"runs", "components", "status", "told"} => what.shown \subseteq Nat,
         what.step = "record" => what.status \in Status,
         what.step \in {"runs", "components", "status"} => \A n \in what.shown : n <= sweep.n,
         what.step = "told" =>
           /\ \A n \in what.shown : n <= what.lastRun + 1
           /\ what.lastError # NoError => what.lastError.sweep = what.lastRun + 1
  PROVE  /\ DOMAIN req' = Request
         /\ \A q \in Request :
              /\ req'[q].step \in {"runs", "components", "status", "told"}
                   => req'[q].shown \subseteq Nat
              /\ req'[q].step = "record" => req'[q].status \in Status
         /\ ReadsFit' /\ OverviewFits'
<1>1. /\ DOMAIN req' = Request
      /\ \A q \in Request : req'[q] = IF q = r THEN what ELSE req[q]
  BY DEF IInv, Does
<1>2. \A q \in Request :
        /\ req'[q].step \in {"runs", "components", "status", "told"}
             => req'[q].shown \subseteq Nat
        /\ req'[q].step = "record" => req'[q].status \in Status
  BY <1>1 DEF IInv
<1>3. ReadsFit'
  BY <1>1 DEF IInv, ReadsFit
<1>4. OverviewFits'
  BY <1>1 DEF IInv, OverviewFits, On
<1> QED  BY <1>1, <1>2, <1>3, <1>4

\* A request's step that touches nothing but the request.
LEMMA RequestGoesOn ==
  ASSUME IInv, UNCHANGED <<boot, stopping, sweep, memory, tables>>,
         NEW r \in Request, NEW what, Does(r, what),
         what.step \in {"runs", "components", "status", "told"} => what.shown \subseteq Nat,
         what.step = "record" => what.status \in Status,
         what.step \in {"runs", "components", "status"} => \A n \in what.shown : n <= sweep.n,
         what.step = "told" =>
           /\ \A n \in what.shown : n <= what.lastRun + 1
           /\ what.lastError # NoError => what.lastError.sweep = what.lastRun + 1
  PROVE  IInv'
<1>1. /\ DOMAIN req' = Request
      /\ \A q \in Request :
           /\ req'[q].step \in {"runs", "components", "status", "told"}
                => req'[q].shown \subseteq Nat
           /\ req'[q].step = "record" => req'[q].status \in Status
      /\ ReadsFit' /\ OverviewFits'
  BY RequestFits
<1>2. SweepOK' /\ SweepFits' /\ RowsFit'
  BY DEF IInv, SweepOK, SweepFits, UnderWay, RowsFit, memory, tables
<1> QED  BY <1>1, <1>2 DEF IInv, memory, tables

\* What a list shows of this process is no later than the sweep under way.
LEMMA ShownFits ==
  ASSUME IInv, NEW rows \in {executions, runs, snapshots}
  PROVE  Shown(rows) \subseteq Nat /\ \A n \in Shown(rows) : n <= sweep.n
<1>1. rows \in Seq(Rows)
  BY DEF IInv
<1>2. ASSUME NEW i \in 1 .. Len(rows) PROVE rows[i].sweep \in Nat
  <2>1. rows[i] \in Rows
    BY <1>1
  <2> QED  BY <2>1 DEF Rows
<1>3. \A i \in 1 .. Len(rows) : rows[i].boot = boot => rows[i].sweep <= sweep.n
  BY DEF IInv, RowsFit
<1> QED  BY <1>2, <1>3 DEF Shown

\* A request that begins has read nothing.
LEMMA AskIInv == ASSUME IInv, NEW r \in Request, NEW c \in Calls, Ask(r, c) PROVE IInv'
<1> DEFINE what == IF Reads(c) THEN Idle
                   ELSE IF c.path = "overview" THEN [step |-> "queries"]
                   ELSE [step |-> "query",
                         query |-> IF c.path = "run" THEN c.query ELSE "select_ai_generate"]
<1>1. Does(r, what) /\ UNCHANGED <<boot, stopping, sweep, memory, tables>>
  BY DEF Ask
<1>2. what.step \in {"idle", "queries", "query"}
  BY DEF Idle
<1> HIDE DEF what
<1> QED  BY <1>1, <1>2, RequestGoesOn

\* A query run by hand is of no sweep.
LEMMA RunIInv == ASSUME IInv, NEW r \in Request, Run(r) PROVE IInv'
<1>1. PICK status \in Status : Does(r, [step |-> "record", query |-> req[r].query, status |-> status])
  BY DEF Run, Outcome, Status
<1>2. UNCHANGED <<boot, stopping, sweep, memory, tables>>
  BY DEF Run
<1> DEFINE what == [step |-> "record", query |-> req[r].query, status |-> status]
<1>3. Does(r, what) /\ what.step = "record" /\ what.status \in Status
  BY <1>1
<1> HIDE DEF what
<1> QED  BY <1>2, <1>3, RequestGoesOn

\* A query run by hand leaves a row of no sweep.
LEMMA RecordIInv ==
  ASSUME IInv, NEW r \in Request, Record(r) PROVE IInv'
<1>1. /\ executions' \in Insert(executions, Row(0, req[r].status), FALSE)
      /\ Does(r, Idle) /\ UNCHANGED <<boot, stopping, sweep, memory, runs, snapshots>>
  BY DEF Record
<1>2. /\ 0 \in 0 .. sweep.n /\ FALSE \in BOOLEAN /\ sweep'.n = sweep.n
      /\ req[r].status \in Status
  BY <1>1 DEF IInv, SweepOK, Record, On
<1>3. /\ executions' \in Seq(Rows) /\ runs' \in Seq(Rows) /\ snapshots' \in Seq(Rows)
      /\ RowsFit'
  BY <1>1, <1>2, RowsStayFit
<1>4. Idle.step = "idle"
  BY DEF Idle
<1>5. /\ DOMAIN req' = Request
      /\ \A q \in Request :
           /\ req'[q].step \in {"runs", "components", "status", "told"}
                => req'[q].shown \subseteq Nat
           /\ req'[q].step = "record" => req'[q].status \in Status
      /\ ReadsFit' /\ OverviewFits'
  BY <1>1, <1>4, RequestFits
<1>6. SweepOK' /\ SweepFits'
  BY <1>1 DEF IInv, SweepOK, SweepFits, UnderWay, memory
<1> QED  BY <1>1, <1>3, <1>5, <1>6 DEF IInv, memory

\* The first list is of sweeps there have been.
LEMMA ReadQueriesIInv == ASSUME IInv, NEW r \in Request, ReadQueries(r) PROVE IInv'
<1> DEFINE what == [step |-> "runs", shown |-> Shown(executions)]
<1>1. Does(r, what) /\ UNCHANGED <<boot, stopping, sweep, memory, tables>>
  BY DEF ReadQueries
<1>2. /\ what.step = "runs" /\ what.shown \subseteq Nat
      /\ \A n \in what.shown : n <= sweep.n
  BY ShownFits
<1> HIDE DEF what
<1> QED  BY <1>1, <1>2, RequestGoesOn

\* So is the second.
LEMMA ReadRunsIInv == ASSUME IInv, NEW r \in Request, ReadRuns(r) PROVE IInv'
<1> DEFINE what == [step |-> "components", shown |-> req[r].shown \cup Shown(runs)]
<1>1. /\ Does(r, what) /\ UNCHANGED <<boot, stopping, sweep, memory, tables>>
      /\ req[r].step = "runs"
  BY DEF ReadRuns, On
<1>2. req[r].shown \subseteq Nat /\ \A n \in req[r].shown : n <= sweep.n
  BY <1>1 DEF IInv, ReadsFit
<1>3. /\ what.step = "components" /\ what.shown \subseteq Nat
      /\ \A n \in what.shown : n <= sweep.n
  BY <1>2, ShownFits
<1> HIDE DEF what
<1> QED  BY <1>1, <1>3, RequestGoesOn

\* And so is the third.
LEMMA ReadComponentsIInv == ASSUME IInv, NEW r \in Request, ReadComponents(r) PROVE IInv'
<1> DEFINE what == [step |-> "status", shown |-> req[r].shown \cup Shown(snapshots)]
<1>1. /\ Does(r, what) /\ UNCHANGED <<boot, stopping, sweep, memory, tables>>
      /\ req[r].step = "components"
  BY DEF ReadComponents, On
<1>2. req[r].shown \subseteq Nat /\ \A n \in req[r].shown : n <= sweep.n
  BY <1>1 DEF IInv, ReadsFit
<1>3. /\ what.step = "status" /\ what.shown \subseteq Nat
      /\ \A n \in what.shown : n <= sweep.n
  BY <1>2, ShownFits
<1> HIDE DEF what
<1> QED  BY <1>1, <1>3, RequestGoesOn

\* The memory is read last: the sweep under way is at most one ahead of it.
LEMMA TellIInv == ASSUME IInv, NEW r \in Request, Tell(r) PROVE IInv'
<1> DEFINE what == [step |-> "told", shown |-> req[r].shown,
                    lastRun |-> lastRun, lastError |-> lastError]
<1>1. /\ Does(r, what) /\ UNCHANGED <<boot, stopping, sweep, memory, tables>>
      /\ req[r].step = "status"
  BY DEF Tell, On
<1>2. /\ req[r].shown \subseteq Nat /\ \A n \in req[r].shown : n <= sweep.n
      /\ lastRun \in Nat /\ sweep.n \in Nat
  BY <1>1 DEF IInv, SweepOK, ReadsFit
<1>3. sweep.n <= lastRun + 1 /\ (lastError # NoError => lastError.sweep = lastRun + 1)
  BY <1>2 DEF IInv, SweepFits
<1>4. /\ what.step = "told" /\ what.shown \subseteq Nat
      /\ \A n \in what.shown : n <= what.lastRun + 1
      /\ what.lastError # NoError => what.lastError.sweep = what.lastRun + 1
  BY <1>2, <1>3
<1> HIDE DEF what
<1> QED  BY <1>1, <1>4, RequestGoesOn

\* A request given up tells nothing.
LEMMA GiveUpIInv == ASSUME IInv, NEW r \in Request, GiveUp(r) PROVE IInv'
<1>1. Does(r, Idle) /\ UNCHANGED <<boot, stopping, sweep, memory, tables>>
  BY DEF GiveUp
<1>2. Idle.step = "idle"
  BY DEF Idle
<1> QED  BY <1>1, <1>2, RequestGoesOn

\* The signal changes neither tables nor memory.
LEMMA SignalIInv == IInv /\ Signal => IInv'
<1> SUFFICES ASSUME IInv, Signal PROVE IInv'  OBVIOUS
<1>1. stopping' \in BOOLEAN /\ UNCHANGED <<boot, sweep, memory, tables, req>>
  BY DEF Signal
<1>2. SweepOK' /\ SweepFits' /\ RowsFit' /\ ReadsFit' /\ OverviewFits'
  BY <1>1 DEF IInv, SweepOK, SweepFits, UnderWay, RowsFit, ReadsFit, OverviewFits, On,
              memory, tables
<1> QED  BY <1>1, <1>2 DEF IInv, memory, tables

\* The rows of the processes before are of none that is running.
LEMMA RestartIInv == IInv /\ Restart => IInv'
<1> SUFFICES ASSUME IInv, Restart PROVE IInv'  OBVIOUS
<1>1. /\ boot' = boot + 1 /\ stopping' = FALSE /\ sweep' = Waits /\ lastRun' = 0
      /\ lastError' = NoError /\ req' = [r \in Request |-> Idle] /\ UNCHANGED tables
  BY DEF Restart
<1>2. DOMAIN req' = Request /\ \A r \in Request : req'[r].step = "idle"
  BY <1>1 DEF Idle
<1>3. SweepOK' /\ SweepFits'
  BY <1>1 DEF Waits, SweepOK, SweepStep, SweepFits, UnderWay
<1>4. ReadsFit' /\ OverviewFits'
  BY <1>2 DEF ReadsFit, OverviewFits, On
<1>5. RowsFit'
  <2>1. ASSUME NEW rows \in {executions, runs, snapshots}, NEW i \in 1 .. Len(rows)
        PROVE  rows[i].boot <= boot' /\ rows[i].boot # boot'
    <3>1. rows \in Seq(Rows) /\ boot \in Nat
      BY DEF IInv
    <3>2. rows[i] \in Rows
      BY <3>1
    <3>3. rows[i].boot \in Nat /\ rows[i].boot <= boot
      BY <3>2 DEF Rows, IInv, RowsFit
    <3> QED  BY <1>1, <3>1, <3>3
  <2> QED  BY <1>1, <2>1 DEF RowsFit, tables
<1>6. /\ stopping' \in BOOLEAN /\ boot' \in Nat /\ lastRun' \in Nat
      /\ executions' \in Seq(Rows) /\ runs' \in Seq(Rows) /\ snapshots' \in Seq(Rows)
  <2>1. /\ executions \in Seq(Rows) /\ runs \in Seq(Rows) /\ snapshots \in Seq(Rows)
        /\ boot \in Nat
    BY DEF IInv
  <2>2. executions' = executions /\ runs' = runs /\ snapshots' = snapshots
    BY <1>1 DEF tables
  <2>3. boot + 1 \in Nat
    BY <2>1
  <2> QED  BY <1>1, <2>1, <2>2, <2>3
<1>7. \A r \in Request : /\ req'[r].step \notin {"runs", "components", "status", "told"}
                         /\ req'[r].step # "record"
  BY <1>2
<1> QED  BY <1>2, <1>3, <1>4, <1>5, <1>6, <1>7 DEF IInv

\* Every step keeps the invariant.
LEMMA NextIInv == IInv /\ [Next]_vars => IInv'
<1> SUFFICES ASSUME IInv, [Next]_vars PROVE IInv'  OBVIOUS
<1>1. CASE UNCHANGED vars
  BY <1>1 DEF vars, memory, tables, IInv, SweepOK, SweepFits, UnderWay, RowsFit, ReadsFit,
              OverviewFits, On
<1>2. CASE \/ StartSweep \/ SweepQuery \/ SweepRecord \/ SweepNote \/ SweepOverview
           \/ SweepSnapshot \/ SweepRun \/ SweepEnd \/ SchedulerStops
  BY <1>2, StartSweepIInv, SweepQueryIInv, SweepRecordIInv, SweepNoteIInv, SweepOverviewIInv,
     SweepSnapshotIInv, SweepRunIInv, SweepEndIInv, SchedulerStopsIInv
<1>3. CASE \E r \in Request :
        \/ \E c \in Calls : Ask(r, c)
        \/ Run(r) \/ Record(r)
        \/ ReadQueries(r) \/ ReadRuns(r) \/ ReadComponents(r) \/ Tell(r) \/ GiveUp(r)
  BY <1>3, AskIInv, RunIInv, RecordIInv, ReadQueriesIInv, ReadRunsIInv, ReadComponentsIInv,
     TellIInv, GiveUpIInv
<1>4. CASE Signal \/ Restart
  BY <1>4, SignalIInv, RestartIInv
<1> QED  BY <1>1, <1>2, <1>3, <1>4 DEF Next

\* An overview fits together: its lists, read from the tables at three times, are at
\* most the sweep under way ahead of the last run the memory tells after them, and
\* the error told is of that sweep (Service.Overview, runScheduledSweep).
THEOREM OverviewAlwaysFits == Spec => []OverviewFits
<1>1. IInv => OverviewFits
  BY DEF IInv
<1> QED  BY <1>1, InitIInv, NextIInv, PTL DEF Spec
----------------------------------------------------------------------------
\* The scheduler's list names queries of the catalogue.
LEMMA PlanInCatalog ==
  /\ Plan \in Seq(Catalog) /\ Len(Plan) \in Nat \ {0}
  /\ \A i \in 1 .. Len(Plan) : Plan[i] \in Catalog
<1> DEFINE extra == IF FaultyProbe THEN <<"broken_orders_probe">> ELSE <<>>
<1>1. \A i \in 1 .. Len(Scheduled) : Scheduled[i] \in Catalog
  BY DEF Catalog
<1>2. Scheduled \in Seq(Catalog) /\ Len(Scheduled) = 3
  BY <1>1 DEF Scheduled
<1>3. extra \in Seq(Catalog) /\ Len(extra) \in Nat
  <2>1. "broken_orders_probe" \in Catalog
    BY DEF Catalog, Probes
  <2> QED
    BY <2>1
<1>4. Plan = Scheduled \o extra
  BY DEF Plan
<1> HIDE DEF extra
<1>5. Plan \in Seq(Catalog) /\ Len(Plan) = Len(Scheduled) + Len(extra)
  BY <1>2, <1>3, <1>4, ConcatProperties, Zenon
<1>6. \A i \in 1 .. Len(Plan) : Plan[i] \in Catalog
  BY <1>5
<1> QED
  BY <1>2, <1>3, <1>5, <1>6

\* A table of which only the newest rows are kept stays one.
LEMMA InsertTyped ==
  ASSUME NEW s \in Seq(RowKept), Len(s) <= Recent, NEW x \in RowKept, NEW c \in BOOLEAN,
         NEW t \in Insert(s, x, c)
  PROVE  t \in Seq(RowKept) /\ Len(t) <= Recent
<1> DEFINE a == Append(s, x)
<1>1. a \in Seq(RowKept) /\ Len(a) = Len(s) + 1 /\ Len(s) \in Nat /\ Recent \in Nat \ {0}
  BY GatewayAssumption DEF GatewayAssumption
<1>2. CASE t = s
  BY <1>2
<1>3. CASE t = a /\ Len(a) <= Recent
  BY <1>1, <1>3
<1>4. CASE t = SubSeq(a, Len(a) - Recent + 1, Len(a)) /\ ~(Len(a) <= Recent)
  <2>1. Len(a) - Recent + 1 \in 1 .. Len(a) + 1 /\ Len(a) \in Nat
    BY <1>1, <1>4
  <2>2. Len(a) \in (Len(a) - Recent + 1) - 1 .. Len(a)
    BY <1>1
  <2> HIDE DEF a
  <2> QED
    BY <1>1, <1>4, <2>1, <2>2, SubSeqProperties
<1> QED
  BY <1>2, <1>3, <1>4 DEF Insert, Newest

\* A row that is written is one that is kept.
LEMMA RowTyped ==
  ASSUME boot \in Nat \ {0}, NEW n \in SweepNumber, NEW status \in Status
  PROVE  Row(n, status) \in RowKept
BY DEF Row, RowKept

\* A list shows sweeps.
LEMMA ShownTyped ==
  ASSUME NEW rows \in Seq(RowKept)
  PROVE  Shown(rows) \subseteq SweepNumber
<1>1. ASSUME NEW i \in 1 .. Len(rows)
      PROVE  rows[i].sweep \in SweepNumber
  <2>1. rows[i] \in RowKept
    OBVIOUS
  <2> QED
    BY <2>1 DEF RowKept
<1> QED
  BY <1>1 DEF Shown

\* A step of the sweep that goes to a place within its lists.
LEMMA GoesTyped ==
  ASSUME SweepTyped, NEW step \in SweepStep, NEW i \in Nat, Goes(step, i),
         step \in {"query", "record", "note"} => i \in 1 .. Len(Plan),
         step = "snapshot" => i \in 1 .. Len(Health)
  PROVE  SweepTyped'
BY DEF SweepTyped, Goes

\* Going on does not run off the list.
LEMMA GoesOnTyped ==
  ASSUME SweepTyped, sweep.step \in {"query", "record", "note"}, GoesOn
  PROVE  SweepTyped'
<1>1. sweep.i \in 1 .. Len(Plan) /\ Len(Plan) \in Nat
  BY PlanInCatalog DEF SweepTyped
<1>2. CASE sweep.i < Len(Plan)
  <2>1. sweep.i + 1 \in 1 .. Len(Plan) /\ sweep.i + 1 \in Nat
    BY <1>1, <1>2
  <2> QED
    BY <1>2, <2>1, GoesTyped DEF GoesOn, SweepStep
<1>3. CASE ~(sweep.i < Len(Plan))
  BY <1>3, GoesTyped DEF GoesOn, SweepStep
<1> QED
  BY <1>2, <1>3

\* The types hold when the first process starts.
LEMMA InitTyped == Init => TypeOK
<1> SUFFICES ASSUME Init PROVE TypeOK
  OBVIOUS
<1>1. 0 \in SweepNumber
  BY GatewayAssumption DEF GatewayAssumption, SweepNumber
<1>2. SweepTyped
  BY <1>1 DEF Init, Waits, SweepTyped, SweepStep
<1>3. req \in [Request -> RequestState]
  BY DEF Init, Idle, RequestState
<1>4. <<>> \in Seq(RowKept) /\ Len(<<>>) <= Recent
  BY GatewayAssumption DEF GatewayAssumption
<1>5. \A rows \in {executions, runs, snapshots} : rows \in Seq(RowKept) /\ Len(rows) <= Recent
  BY <1>4 DEF Init
<1>6. lastRun \in SweepNumber /\ lastError \in ErrorKept /\ boot \in Nat \ {0}
  BY <1>1 DEF Init, ErrorKept
<1>7. stopping \in BOOLEAN
  BY Zenon DEF Init
<1> QED
  BY <1>2, <1>3, <1>5, <1>6, <1>7, Zenon DEF TypeOK

\* The scheduler keeps them.
LEMMA SchedulerTyped ==
  ASSUME TypeOK,
         \/ StartSweep \/ SweepQuery \/ SweepRecord \/ SweepNote \/ SweepOverview
         \/ SweepSnapshot \/ SweepRun \/ SweepEnd \/ SchedulerStops
  PROVE  TypeOK'
<1>1. /\ SweepTyped /\ boot \in Nat \ {0} /\ stopping \in BOOLEAN /\ sweep.n \in SweepNumber
      /\ sweep.status \in Status /\ sweep.i \in Nat
      /\ executions \in Seq(RowKept) /\ Len(executions) <= Recent
      /\ runs \in Seq(RowKept) /\ Len(runs) <= Recent
      /\ snapshots \in Seq(RowKept) /\ Len(snapshots) <= Recent
  BY DEF TypeOK, SweepTyped, Status
<1>2. CASE StartSweep
  <2>1. sweep.n + 1 \in SweepNumber
    BY <1>1, <1>2, GatewayAssumption DEF StartSweep, GatewayAssumption, SweepNumber
  <2>2. SweepTyped'
    BY <1>2, <2>1, PlanInCatalog DEF StartSweep, SweepTyped, SweepStep
  <2> QED
    BY <1>2, <2>2 DEF StartSweep, TypeOK, memory, tables
<1>3. CASE SweepQuery
  <2>1. PICK status \in {"success", "error"} :
          sweep' = [sweep EXCEPT !.step = "record", !.status = status]
    BY <1>3 DEF SweepQuery, Outcome
  <2>2. SweepTyped'
    BY <1>1, <1>3, <2>1 DEF SweepQuery, At, SweepTyped, SweepStep
  <2> QED
    BY <1>3, <2>2 DEF SweepQuery, TypeOK, memory, tables
<1>4. CASE SweepRecord
  <2>1. executions' \in Seq(RowKept) /\ Len(executions') <= Recent
    BY <1>1, <1>4, RowTyped, InsertTyped DEF SweepRecord
  <2>2. SweepTyped'
    <3>1. CASE Goes("note", sweep.i)
      BY <1>1, <1>4, <3>1, GoesTyped DEF SweepRecord, At, SweepTyped, SweepStep
    <3>2. CASE GoesOn
      BY <1>1, <1>4, <3>2, GoesOnTyped DEF SweepRecord, At
    <3> QED
      BY <1>4, <3>1, <3>2 DEF SweepRecord
  <2> QED
    BY <1>4, <2>1, <2>2 DEF SweepRecord, TypeOK, memory
<1>5. CASE SweepNote
  <2>1. lastError' \in ErrorKept
    <3>1. Plan[sweep.i] \in Catalog
      BY <1>1, <1>5, PlanInCatalog DEF SweepNote, At, SweepTyped
    <3> QED
      BY <1>1, <1>5, <3>1 DEF SweepNote, ErrorKept
  <2>2. SweepTyped'
    BY <1>1, <1>5, GoesOnTyped DEF SweepNote, At
  <2> QED
    BY <1>5, <2>1, <2>2 DEF SweepNote, TypeOK, tables
<1>6. CASE SweepOverview
  <2>1. SweepTyped'
    <3>1. 1 \in 1 .. Len(Health)
      BY DEF Health
    <3> QED
      BY <1>1, <1>6, <3>1, GoesTyped DEF SweepOverview, SweepStep
  <2>2. lastError' \in ErrorKept
    BY <1>1, <1>6 DEF SweepOverview, TypeOK, ErrorKept
  <2> QED
    BY <1>6, <2>1, <2>2 DEF SweepOverview, TypeOK, tables
<1>7. CASE SweepSnapshot
  <2>1. Len(Health) = 3 /\ \A i \in 1 .. Len(Health) : Health[i] \in Status
    BY DEF Health, Status
  <2>2. sweep.i \in 1 .. Len(Health)
    BY <1>1, <1>7 DEF SweepSnapshot, At, SweepTyped
  <2>3. snapshots' \in Seq(RowKept) /\ Len(snapshots') <= Recent
    BY <1>1, <1>7, <2>1, <2>2, RowTyped, InsertTyped DEF SweepSnapshot
  <2>4. SweepTyped'
    <3>1. sweep.i < Len(Health) => sweep.i + 1 \in 1 .. Len(Health) /\ sweep.i + 1 \in Nat
      BY <2>1, <2>2
    <3> QED
      BY <1>1, <1>7, <3>1, GoesTyped DEF SweepSnapshot, SweepStep
  <2> QED
    BY <1>7, <2>3, <2>4 DEF SweepSnapshot, TypeOK, memory
<1>8. CASE SweepRun
  <2>1. runs' \in Seq(RowKept) /\ Len(runs') <= Recent
    BY <1>1, <1>8, RowTyped, InsertTyped DEF SweepRun, Status
  <2>2. SweepTyped'
    BY <1>1, <1>8, GoesTyped DEF SweepRun, SweepStep
  <2> QED
    BY <1>8, <2>1, <2>2 DEF SweepRun, TypeOK, memory
<1>9. CASE SweepEnd
  <2>1. SweepTyped'
    BY <1>1, <1>9, GoesTyped DEF SweepEnd, SweepStep
  <2> QED
    BY <1>1, <1>9, <2>1 DEF SweepEnd, TypeOK, tables, ErrorKept
<1>10. CASE SchedulerStops
  <2>1. SweepTyped'
    BY <1>1, <1>10, GoesTyped DEF SchedulerStops, SweepStep
  <2> QED
    BY <1>10, <2>1 DEF SchedulerStops, TypeOK, memory, tables
<1> QED
  BY <1>2, <1>3, <1>4, <1>5, <1>6, <1>7, <1>8, <1>9, <1>10

\* A request that goes on to one of its states keeps them.
LEMMA RequestTyped ==
  ASSUME TypeOK, NEW r \in Request, NEW what \in RequestState, Does(r, what),
         UNCHANGED <<boot, stopping, sweep, memory, runs, snapshots>>,
         executions' \in Seq(RowKept) /\ Len(executions') <= Recent
  PROVE  TypeOK'
<1>1. req' \in [Request -> RequestState]
  BY DEF TypeOK, Does
<1> QED
  BY <1>1 DEF TypeOK, SweepTyped, memory

\* Each of its steps leads to one: it runs a query of the catalogue, and shows sweeps.
LEMMA RequestsTyped ==
  ASSUME TypeOK, NEW r \in Request,
         \/ \E c \in Calls : Ask(r, c)
         \/ Run(r) \/ Record(r)
         \/ ReadQueries(r) \/ ReadRuns(r) \/ ReadComponents(r) \/ Tell(r) \/ GiveUp(r)
  PROVE  TypeOK'
<1>1. /\ req[r] \in RequestState /\ boot \in Nat \ {0}
      /\ executions \in Seq(RowKept) /\ Len(executions) <= Recent
      /\ runs \in Seq(RowKept) /\ snapshots \in Seq(RowKept)
      /\ lastRun \in SweepNumber /\ lastError \in ErrorKept
  BY DEF TypeOK
<1>2. Idle \in RequestState
  BY DEF Idle, RequestState
<1>3. ASSUME NEW what \in RequestState, Does(r, what),
             UNCHANGED <<boot, stopping, sweep, memory, tables>>
      PROVE  TypeOK'
  BY <1>1, <1>3, RequestTyped DEF tables
<1>4. ASSUME NEW c \in Calls, Ask(r, c) PROVE TypeOK'
  <2>1. PICK what : /\ Does(r, what)
                    /\ \/ what = Idle \/ what = [step |-> "queries"]
                       \/ /\ c.path = "run"
                          /\ what = [step |-> "query", query |-> c.query]
                       \/ what = [step |-> "query", query |-> "select_ai_generate"]
    BY <1>4 DEF Ask
  <2>2. c.path = "run" => c.query \in Catalog
    BY <1>4 DEF Ask, Valid
  <2>3. what \in RequestState
    BY <1>2, <2>1, <2>2 DEF RequestState, Runnable
  <2> QED
    BY <1>3, <1>4, <2>1, <2>3 DEF Ask
<1>5. CASE Run(r)
  <2>1. PICK status \in {"success", "error"} :
          Does(r, [step |-> "record", query |-> req[r].query, status |-> status])
    BY <1>5 DEF Run, Outcome
  <2>2. req[r].query \in Runnable
    BY <1>1, <1>5 DEF Run, On, RequestState
  <2>3. [step |-> "record", query |-> req[r].query, status |-> status] \in RequestState
    BY <2>2 DEF RequestState
  <2> QED
    BY <1>3, <1>5, <2>1, <2>3 DEF Run
<1>6. CASE Record(r)
  <2>1. req[r].status \in Status
    BY <1>1, <1>6 DEF Record, On, RequestState, Status
  <2>2. 0 \in SweepNumber
    BY GatewayAssumption DEF GatewayAssumption, SweepNumber
  <2>3. executions' \in Seq(RowKept) /\ Len(executions') <= Recent
    BY <1>1, <1>6, <2>1, <2>2, RowTyped, InsertTyped DEF Record
  <2> QED
    BY <1>2, <1>6, <2>3, RequestTyped DEF Record
<1>7. CASE ReadQueries(r)
  <2>1. [step |-> "runs", shown |-> Shown(executions)] \in RequestState
    BY <1>1, ShownTyped DEF RequestState
  <2> QED
    BY <1>3, <1>7, <2>1 DEF ReadQueries
<1>8. CASE ReadRuns(r) \/ ReadComponents(r)
  <2>1. req[r].shown \subseteq SweepNumber
    BY <1>1, <1>8 DEF ReadRuns, ReadComponents, On, RequestState
  <2>2. /\ req[r].shown \cup Shown(runs) \in SUBSET SweepNumber
        /\ req[r].shown \cup Shown(snapshots) \in SUBSET SweepNumber
    BY <1>1, <2>1, ShownTyped
  <2>3. /\ [step |-> "components", shown |-> req[r].shown \cup Shown(runs)] \in RequestState
        /\ [step |-> "status", shown |-> req[r].shown \cup Shown(snapshots)] \in RequestState
    BY <2>2 DEF RequestState
  <2> QED
    BY <1>3, <1>8, <2>3 DEF ReadRuns, ReadComponents
<1>9. CASE Tell(r)
  <2>1. req[r].shown \subseteq SweepNumber
    BY <1>1, <1>9 DEF Tell, On, RequestState
  <2>2. [step |-> "told", shown |-> req[r].shown, lastRun |-> lastRun, lastError |-> lastError]
          \in RequestState
    BY <1>1, <2>1 DEF RequestState
  <2> QED
    BY <1>3, <1>9, <2>2 DEF Tell
<1>10. CASE GiveUp(r)
  BY <1>2, <1>3, <1>10 DEF GiveUp
<1> QED
  BY <1>4, <1>5, <1>6, <1>7, <1>8, <1>9, <1>10

\* Whatever is asked, swept, signalled and restarted: the scheduler stays within its
\* list of queries, a request within the catalogue, and no table shows more rows
\* than an overview lists (runScheduledSweep, RunQuery, Overview).
THEOREM TypeCorrect == Spec => []TypeOK
<1>1. TypeOK /\ [Next]_vars => TypeOK'
  <2> SUFFICES ASSUME TypeOK, [Next]_vars PROVE TypeOK'
    OBVIOUS
  <2>1. CASE Signal
    BY <2>1 DEF Signal, TypeOK, SweepTyped, memory, tables
  <2>2. CASE Restart
    <3>1. 0 \in SweepNumber
      BY GatewayAssumption DEF GatewayAssumption, SweepNumber
    <3>2. SweepTyped'
      BY <2>2, <3>1 DEF Restart, Waits, SweepTyped, SweepStep
    <3>3. req' \in [Request -> RequestState]
      BY <2>2 DEF Restart, Idle, RequestState
    <3>4. lastRun' \in SweepNumber /\ lastError' \in ErrorKept /\ boot' \in Nat \ {0}
      BY <2>2, <3>1 DEF Restart, TypeOK, ErrorKept
    <3>5. \A rows \in {executions', runs', snapshots'} :
            rows \in Seq(RowKept) /\ Len(rows) <= Recent
      BY <2>2 DEF Restart, TypeOK, tables
    <3>6. stopping' \in BOOLEAN
      BY <2>2, Zenon DEF Restart
    <3> QED
      BY <3>2, <3>3, <3>4, <3>5, <3>6, Zenon DEF TypeOK
  <2>3. CASE UNCHANGED vars
    BY <2>3 DEF vars, memory, tables, TypeOK, SweepTyped
  <2> QED
    BY <2>1, <2>2, <2>3, SchedulerTyped, RequestsTyped DEF Next
<1> QED
  BY <1>1, InitTyped, PTL DEF Spec
=============================================================================
