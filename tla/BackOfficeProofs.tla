-------------------------- MODULE BackOfficeProofs --------------------------
(***************************************************************************)
(* For any clerks, forms, batches and seed list: the types hold, keys stay *)
(* unique, the trail names the rows its forms wrote, and no form takes a   *)
(* sale back that was made after its UPDATE.                               *)
(***************************************************************************)
EXTENDS Catalogue, SequenceTheorems, TLAPS

\* A row is locked exactly while a draft of it waits to be committed.
Locks == \A t \in Tables, i \in Ids : lock[t][i] = Nobody <=> draft[t][i] = NoRow

\* Two rows with one key: both committed, both drafts, or a draft of one clerk
\* against a committed row that clerk has not itself rewritten.
KeysApart ==
  \A t \in Tables \cap Unique : \A i, j \in Ids : i # j =>
    /\ rows[t][i] # NoRow /\ rows[t][j] # NoRow => rows[t][i].key # rows[t][j].key
    /\ draft[t][i] # NoRow /\ draft[t][j] # NoRow => draft[t][i].key # draft[t][j].key
    /\ draft[t][i] # NoRow /\ rows[t][j] # NoRow /\ lock[t][j] # lock[t][i] =>
         draft[t][i].key # rows[t][j].key

\* Nothing is sold of a row between its UPDATE and the COMMIT.
Stocks ==
  \A i \in Ids :
    /\ rows["products"][i] # NoRow =>
         rows["products"][i].stock =
           rows["products"][i].form - (sold[i] - rows["products"][i].mark)
    /\ draft["products"][i] # NoRow =>
         /\ draft["products"][i].stock = draft["products"][i].form
         /\ draft["products"][i].mark = sold[i]

\* What a transaction knows at each step still holds when it takes the next.
JobRight(c) ==
  /\ job[c].step # "idle" => job[c].form \in Forms
  /\ job[c].step \notin {"idle", "commit"} => job[c].lines # <<>>
  /\ job[c].step \in {"name", "reselect"} => job[c].found # 0
  /\ job[c].step = "reselect" =>
       /\ lock[TableOf(c)][job[c].found] = c
       /\ draft[TableOf(c)][job[c].found].key = LineOf(c).key
       /\ TableOf(c) \in Dated => created[TableOf(c)][job[c].found] >= job[c].began
  /\ job[c].began <= now
  /\ job[c].form.kind = "seed" /\ job[c].step # "idle" =>
       \A i \in Ids : job[c].seen[i] # NoRow => rows[TableOf(c)][i] # NoRow
  /\ job[c].form.kind = "seed" /\ job[c].step = "write" /\ job[c].found # 0 =>
       job[c].seen[job[c].found] # NoRow

IInv ==
  /\ TypeOK /\ Locks /\ KeysApart /\ Stocks
  /\ \A c \in Clerk : JobRight(c) /\ \A e \in note[c] : Right(e)
  /\ \A e \in trail : Right(e)
----------------------------------------------------------------------------
\* A handler that looks its new row up does it by the key of a table that has a
\* unique one, by the id of tickets, or by created_at.
LEMMA NamingForms ==
  ASSUME NEW f \in Handlers, f.names # "none"
  PROVE  \/ f.table \in Unique
         \/ f.table = "tickets" /\ f.names = "highest"
         \/ f.table \in Dated /\ f.names \notin {"key", "highest"}
BY DEF Handlers, Unique, Dated, Form, CreateProduct, UpdateProduct, CreateCustomer, UpdateCustomer,
       CreateInvoice, UpdateInvoice, CreateUser, CreatePartner, CreateShop, UpdateShop,
       CreateOrder, UpdateOrder, CreateTicket, CreateCampaign, CreateLead, CreateReview,
       UpdateShipment, CatalogSync, SeedCatalog

\* A batch has a first line, and is over when there is no other.
LEMMA FirstLine ==
  ASSUME NEW s \in Seq(Line), s # <<>>
  PROVE  /\ Head(s) \in Line /\ Head(s).key \in Key /\ Head(s).stock \in Stock
         /\ Tail(s) \in Seq(Line)
         /\ Len(s) # 1 => Tail(s) # <<>>
<1>1. Head(s) \in Line /\ Tail(s) \in Seq(Line) /\ Len(Tail(s)) = Len(s) - 1
  BY HeadTailProperties
<1>2. Len(s) \in Nat /\ Len(Tail(s)) \in Nat
  BY <1>1, LenProperties
<1>3. Tail(s) = <<>> => Len(Tail(s)) = 0
  BY <1>1, EmptySeq
<1>4. Len(s) # 1 => Tail(s) # <<>>
  BY <1>1, <1>2, <1>3
<1> QED
  BY <1>1, <1>4 DEF Line

\* The products are among the tables.
LEMMA ProductsIsATable == "products" \in Tables
BY DEF Tables

\* The table of a form that takes part is one of the tables.
LEMMA FormTables == ASSUME NEW f \in Forms PROVE f.table \in Tables
BY DEF Tables

\* The rows a statement may write.
LEMMA WrittenType ==
  ASSUME NEW l \in Line, NEW m \in 0 .. MaxSales
  PROVE  Written(l, m) \in Row /\ Written(l, m) # NoRow /\ Written(l, m).key = l.key
         /\ Written(l, m).stock = Written(l, m).form /\ Written(l, m).mark = m
BY ConstantsAssumption DEF Written, Row, Line, Stock
----------------------------------------------------------------------------
\* Initially nothing is locked, drafted or named.
LEMMA InitIInv == Init => IInv
<1> SUFFICES ASSUME Init PROVE IInv
  OBVIOUS
<1>1. \A i \in Ids : i <= Loaded => SeedStock[i] \in Line
  BY ConstantsAssumption, ElementOfSeq DEF Ids
<1>2. \A i \in Ids : i <= Loaded =>
        Written(SeedStock[i], 0) \in Row /\ Written(SeedStock[i], 0) # NoRow
          /\ Written(SeedStock[i], 0).stock = Written(SeedStock[i], 0).form
          /\ Written(SeedStock[i], 0).mark = 0
          /\ Written(SeedStock[i], 0).key = SeedStock[i].key
  <2>1. 0 \in 0 .. MaxSales
    BY ConstantsAssumption
  <2> QED
    BY <1>1, <2>1, WrittenType
<1>3. Idle \in JobType /\ 0 \in Time
  BY ConstantsAssumption DEF Idle, JobType, Handlers, Unseen, Steps, Time
<1>4. TypeOK
  <2>1. rows \in [Tables -> [Ids -> Row \cup {NoRow}]]
    BY <1>2 DEF Init
  <2>2. nextId \in [Tables -> 1 .. MaxId + 1]
    BY ConstantsAssumption DEF Init
  <2>3. job \in [Clerk -> JobType]
    BY <1>3 DEF Init
  <2> QED
    BY <1>3, <2>1, <2>2, <2>3, ConstantsAssumption DEF Init, TypeOK
<1>5. Locks
  BY DEF Init, Locks
<1>6. KeysApart
  <2> SUFFICES ASSUME NEW t \in Tables \cap Unique, NEW i \in Ids, NEW j \in Ids, i # j,
                      rows[t][i] # NoRow, rows[t][j] # NoRow
               PROVE  rows[t][i].key # rows[t][j].key
    BY DEF Init, KeysApart
  <2>1. /\ t = "products" /\ i <= Loaded /\ j <= Loaded
        /\ rows[t][i] = Written(SeedStock[i], 0) /\ rows[t][j] = Written(SeedStock[j], 0)
    BY DEF Init
  <2>2. Len(SeedStock) \in Nat
    BY ConstantsAssumption, LenProperties
  <2>3. i \in 1 .. Len(SeedStock) /\ j \in 1 .. Len(SeedStock)
    BY <2>1, <2>2, ConstantsAssumption DEF Ids
  <2> QED
    BY <1>2, <2>1, <2>3, ConstantsAssumption
<1>7. Stocks
  <2> SUFFICES ASSUME NEW i \in Ids, rows["products"][i] # NoRow
               PROVE  rows["products"][i].stock =
                        rows["products"][i].form - (sold[i] - rows["products"][i].mark)
    BY ProductsIsATable DEF Init, Stocks
  <2>1. i <= Loaded /\ rows["products"][i] = Written(SeedStock[i], 0) /\ sold[i] = 0
    BY ProductsIsATable DEF Init
  <2>2. rows["products"][i].form \in Nat
    BY <1>2, <2>1 DEF Row, Stock
  <2> QED
    BY <1>2, <2>1, <2>2
<1>8. \A c \in Clerk : JobRight(c) /\ note[c] = {}
  BY DEF Init, JobRight, Idle
<1> QED
  BY <1>4, <1>5, <1>6, <1>7, <1>8 DEF IInv, Init
----------------------------------------------------------------------------
\* What a step of clerk c leaves to the others.
Frame(c) ==
  /\ \A d \in Clerk \ {c}, t \in Tables, i \in Ids :
       lock[t][i] = d =>
         lock'[t][i] = d /\ draft'[t][i] = draft[t][i] /\ created'[t][i] = created[t][i]
  /\ now' = now
  /\ \A t \in Tables, i \in Ids : rows[t][i] # NoRow => rows'[t][i] # NoRow
  /\ \A d \in Clerk \ {c} : job'[d] = job[d] /\ note'[d] = note[d]

\* A clerk that writes leaves the claims of the others what they were.
LEMMA OthersKeep ==
  ASSUME IInv, NEW c \in Clerk, Frame(c), NEW d \in Clerk \ {c}
  PROVE  JobRight(d)' /\ \A e \in note'[d] : Right(e)
<1>1. /\ JobRight(d) /\ \A e \in note[d] : Right(e)
      /\ job'[d] = job[d] /\ note'[d] = note[d] /\ job[d] \in JobType
  BY DEF IInv, Frame, TypeOK
<1>2. job[d].step # "idle" => TableOf(d) \in Tables
  BY <1>1, FormTables DEF JobRight, TableOf
<1>3. ASSUME job[d].step = "reselect"
      PROVE  /\ lock'[TableOf(d)][job[d].found] = d
             /\ draft'[TableOf(d)][job[d].found].key = LineOf(d).key
             /\ TableOf(d) \in Dated => created'[TableOf(d)][job[d].found] >= job[d].began
  <2>1. job[d].found \in Ids
    BY <1>1, <1>3 DEF JobRight, JobType, Ids
  <2>2. lock[TableOf(d)][job[d].found] = d
    BY <1>1, <1>3 DEF JobRight
  <2>3. /\ draft'[TableOf(d)][job[d].found] = draft[TableOf(d)][job[d].found]
        /\ created'[TableOf(d)][job[d].found] = created[TableOf(d)][job[d].found]
    BY <1>2, <1>3, <2>1, <2>2 DEF Frame
  <2> QED
    BY <1>1, <1>2, <1>3, <2>1, <2>2, <2>3 DEF Frame, JobRight
<1>4. ASSUME job[d].form.kind = "seed", job[d].step # "idle",
             NEW i \in Ids, job[d].seen[i] # NoRow
      PROVE  rows'[TableOf(d)][i] # NoRow
  BY <1>1, <1>2, <1>4 DEF Frame, JobRight
<1>5. TableOf(d)' = TableOf(d) /\ LineOf(d)' = LineOf(d) /\ now' = now
  BY <1>1 DEF TableOf, LineOf, Frame
<1> QED
  BY <1>1, <1>3, <1>4, <1>5 DEF JobRight

\* A step that leaves the database alone.
LEMMA StillKeeps ==
  ASSUME IInv, UNCHANGED <<rows, lock, draft, sold>>
  PROVE  Locks' /\ KeysApart' /\ Stocks'
BY DEF IInv, Locks, KeysApart, Stocks
----------------------------------------------------------------------------
\* A row written keeps the invariant if it is free and its key is nobody else's.
LEMMA PutKeeps ==
  ASSUME IInv, NEW c \in Clerk, NEW t \in Tables, NEW i \in Ids, NEW l \in Line,
         Put(c, t, i, l), UNCHANGED <<rows, sold>>
  PROVE  /\ lock' \in [Tables -> [Ids -> Clerk \cup {Nobody}]]
         /\ draft' \in [Tables -> [Ids -> Row \cup {NoRow}]]
         /\ Locks' /\ KeysApart' /\ Stocks'
         /\ lock'[t][i] = c /\ draft'[t][i].key = l.key
         /\ \A d \in Clerk \ {c}, s \in Tables, j \in Ids :
              lock[s][j] = d => lock'[s][j] = d /\ draft'[s][j] = draft[s][j]
<1> DEFINE w == Written(l, Sold(t, i))
<1>1. Sold(t, i) \in 0 .. MaxSales
  BY ConstantsAssumption DEF Sold, IInv, TypeOK
<1>2. w \in Row /\ w # NoRow /\ w.key = l.key /\ w.stock = w.form /\ w.mark = Sold(t, i)
  BY <1>1, WrittenType
<1>3. /\ lock' = [lock EXCEPT ![t][i] = c] /\ draft' = [draft EXCEPT ![t][i] = w]
      /\ lock[t][i] \in {Nobody, c}
      /\ t \in Unique => ~Taken(c, t, i, l.key) /\ ~InDoubt(c, t, i, l.key)
  BY DEF Put
<1> HIDE DEF w
<1>4. /\ lock \in [Tables -> [Ids -> Clerk \cup {Nobody}]]
      /\ draft \in [Tables -> [Ids -> Row \cup {NoRow}]]
  BY DEF IInv, TypeOK
<1>5. /\ lock'[t][i] = c /\ draft'[t][i] = w
      /\ \A s \in Tables, j \in Ids : s # t \/ j # i =>
           lock'[s][j] = lock[s][j] /\ draft'[s][j] = draft[s][j]
  BY <1>3, <1>4
<1>6. /\ lock' \in [Tables -> [Ids -> Clerk \cup {Nobody}]]
      /\ draft' \in [Tables -> [Ids -> Row \cup {NoRow}]]
  BY <1>2, <1>3, <1>4
<1>7. Locks'
  <2> SUFFICES ASSUME NEW s \in Tables, NEW j \in Ids
               PROVE  lock'[s][j] = Nobody <=> draft'[s][j] = NoRow
    BY DEF Locks
  <2>1. CASE s = t /\ j = i
    BY <1>2, <1>5, <2>1, ConstantsAssumption
  <2>2. CASE s # t \/ j # i
    BY <1>5, <2>2 DEF IInv, Locks
  <2> QED
    BY <2>1, <2>2
<1>8. ASSUME t \in Unique, NEW b \in Ids, b # i
      PROVE  /\ draft[t][b] # NoRow => draft[t][b].key # l.key
             /\ rows[t][b] # NoRow /\ lock[t][b] # c => rows[t][b].key # l.key
  <2>1. b \notin Named(Visible(c, t), l.key)
    BY <1>3, <1>8 DEF Taken
  <2>2. IF lock[t][b] = c THEN draft[t][b] = NoRow \/ draft[t][b].key # l.key
        ELSE rows[t][b] = NoRow \/ rows[t][b].key # l.key
    BY <1>8, <2>1 DEF Named, Visible
  <2>3. lock[t][b] \notin {Nobody, c} => draft[t][b] = NoRow \/ draft[t][b].key # l.key
    BY <1>3, <1>8 DEF InDoubt
  <2>4. lock[t][b] = Nobody => draft[t][b] = NoRow
    BY <1>8 DEF IInv, Locks
  <2> QED
    BY <2>2, <2>3, <2>4
<1>9. KeysApart'
  <2> SUFFICES ASSUME NEW s \in Tables \cap Unique, NEW a \in Ids, NEW b \in Ids, a # b
               PROVE  /\ rows[s][a] # NoRow /\ rows[s][b] # NoRow =>
                           rows[s][a].key # rows[s][b].key
                      /\ draft'[s][a] # NoRow /\ draft'[s][b] # NoRow =>
                           draft'[s][a].key # draft'[s][b].key
                      /\ draft'[s][a] # NoRow /\ rows[s][b] # NoRow
                           /\ lock'[s][b] # lock'[s][a] =>
                           draft'[s][a].key # rows[s][b].key
    BY DEF KeysApart
  <2>1. /\ rows[s][a] # NoRow /\ rows[s][b] # NoRow => rows[s][a].key # rows[s][b].key
        /\ draft[s][a] # NoRow /\ draft[s][b] # NoRow => draft[s][a].key # draft[s][b].key
        /\ draft[s][a] # NoRow /\ rows[s][b] # NoRow /\ lock[s][b] # lock[s][a] =>
             draft[s][a].key # rows[s][b].key
    BY DEF IInv, KeysApart
  <2>2. CASE s # t \/ (a # i /\ b # i)
    BY <1>5, <2>1, <2>2
  <2>3. CASE s = t /\ a = i
    BY <1>2, <1>5, <1>8, <2>1, <2>3
  <2>4. CASE s = t /\ b = i
    <3>1. draft[t][a] # NoRow => lock[t][a] # Nobody
      BY DEF IInv, Locks
    <3>2. draft'[t][a] = draft[t][a] /\ lock'[t][a] = lock[t][a]
      BY <1>5, <2>4
    <3>3. draft[t][a] # NoRow /\ lock[t][a] # c => lock[t][i] # lock[t][a]
      BY <1>3, <3>1
    <3> QED
      BY <1>2, <1>5, <1>8, <2>1, <2>4, <3>2, <3>3
  <2> QED
    BY <2>2, <2>3, <2>4
<1>10. Stocks'
  <2> SUFFICES ASSUME NEW j \in Ids, draft'["products"][j] # NoRow
               PROVE  /\ draft'["products"][j].stock = draft'["products"][j].form
                      /\ draft'["products"][j].mark = sold[j]
    BY DEF Stocks, IInv
  <2>1. CASE t = "products" /\ j = i
    BY <1>2, <1>5, <2>1 DEF Sold
  <2>2. CASE t # "products" \/ j # i
    BY <1>5, <2>2, ProductsIsATable DEF IInv, Stocks
  <2> QED
    BY <2>1, <2>2
<1>11. \A d \in Clerk \ {c}, s \in Tables, j \in Ids :
         lock[s][j] = d => lock'[s][j] = d /\ draft'[s][j] = draft[s][j]
  BY <1>3, <1>5, ConstantsAssumption
<1> QED
  BY <1>2, <1>5, <1>6, <1>7, <1>9, <1>10, <1>11
----------------------------------------------------------------------------
\* The end of a transaction frees what was its own.
LEMMA EndKeeps ==
  ASSUME IInv, NEW c \in Clerk, End(c)
  PROVE  /\ lock' \in [Tables -> [Ids -> Clerk \cup {Nobody}]]
         /\ draft' \in [Tables -> [Ids -> Row \cup {NoRow}]]
         /\ job' \in [Clerk -> JobType] /\ note' \in [Clerk -> SUBSET TrailType]
         /\ Locks' /\ JobRight(c)' /\ note'[c] = {}
         /\ \A t \in Tables, i \in Ids :
              /\ lock[t][i] = c => lock'[t][i] = Nobody /\ draft'[t][i] = NoRow
              /\ lock[t][i] # c => lock'[t][i] = lock[t][i] /\ draft'[t][i] = draft[t][i]
         /\ \A d \in Clerk \ {c} : job'[d] = job[d] /\ note'[d] = note[d]
<1>1. /\ lock \in [Tables -> [Ids -> Clerk \cup {Nobody}]]
      /\ draft \in [Tables -> [Ids -> Row \cup {NoRow}]]
      /\ job \in [Clerk -> JobType] /\ note \in [Clerk -> SUBSET TrailType]
  BY DEF IInv, TypeOK
<1>2. Idle \in JobType
  BY ConstantsAssumption DEF Idle, JobType, Handlers, Unseen, Steps, Time
<1>3. \A t \in Tables, i \in Ids :
        /\ lock[t][i] = c => lock'[t][i] = Nobody /\ draft'[t][i] = NoRow
        /\ lock[t][i] # c => lock'[t][i] = lock[t][i] /\ draft'[t][i] = draft[t][i]
  BY DEF End, Released
<1>4. /\ lock' \in [Tables -> [Ids -> Clerk \cup {Nobody}]]
      /\ draft' \in [Tables -> [Ids -> Row \cup {NoRow}]]
  BY <1>1 DEF End, Released
<1>5. Locks'
  BY <1>1, <1>3, ConstantsAssumption DEF IInv, Locks
<1>6. /\ job'[c] = Idle /\ note'[c] = {}
      /\ \A d \in Clerk \ {c} : job'[d] = job[d] /\ note'[d] = note[d]
  BY <1>1 DEF End
<1>9. now' = now /\ 0 <= now
  BY ConstantsAssumption DEF End, IInv, TypeOK, Time
<1>7. JobRight(c)'
  BY <1>6, <1>9 DEF JobRight, Idle
<1>8. job' \in [Clerk -> JobType] /\ note' \in [Clerk -> SUBSET TrailType]
  BY <1>1, <1>2 DEF End
<1> QED
  BY <1>3, <1>4, <1>5, <1>6, <1>7, <1>8

\* A rollback forgets drafts and notes.
LEMMA RollBackIInv == ASSUME IInv, NEW c \in Clerk, RollBack(c) PROVE IInv'
<1>1. End(c) /\ rows' = rows /\ trail' = trail
  BY DEF RollBack
<1>2. UNCHANGED <<nextId, created, sold, jobs, now>>
  BY <1>1 DEF End
<1> HIDE DEF End
<1>3. /\ lock' \in [Tables -> [Ids -> Clerk \cup {Nobody}]]
      /\ draft' \in [Tables -> [Ids -> Row \cup {NoRow}]]
      /\ job' \in [Clerk -> JobType] /\ note' \in [Clerk -> SUBSET TrailType]
      /\ Locks' /\ JobRight(c)' /\ note'[c] = {}
      /\ \A t \in Tables, i \in Ids :
           /\ lock[t][i] = c => lock'[t][i] = Nobody /\ draft'[t][i] = NoRow
           /\ lock[t][i] # c => lock'[t][i] = lock[t][i] /\ draft'[t][i] = draft[t][i]
      /\ \A d \in Clerk \ {c} : job'[d] = job[d] /\ note'[d] = note[d]
  BY <1>1, EndKeeps
<1>4. TypeOK'
  BY <1>1, <1>2, <1>3 DEF IInv, TypeOK
<1>5. KeysApart'
  <2> SUFFICES ASSUME NEW s \in Tables \cap Unique, NEW a \in Ids, NEW b \in Ids, a # b
               PROVE  /\ rows[s][a] # NoRow /\ rows[s][b] # NoRow =>
                           rows[s][a].key # rows[s][b].key
                      /\ draft'[s][a] # NoRow /\ draft'[s][b] # NoRow =>
                           draft'[s][a].key # draft'[s][b].key
                      /\ draft'[s][a] # NoRow /\ rows[s][b] # NoRow
                           /\ lock'[s][b] # lock'[s][a] =>
                           draft'[s][a].key # rows[s][b].key
    BY <1>1 DEF KeysApart
  <2> QED
    BY <1>3 DEF IInv, KeysApart
<1>6. Stocks'
  BY <1>1, <1>2, <1>3, ProductsIsATable DEF IInv, Stocks
<1>7. Frame(c)
  BY <1>1, <1>2, <1>3 DEF Frame
<1>8. \A d \in Clerk : JobRight(d)' /\ \A e \in note'[d] : Right(e)
  BY <1>3, <1>7, OthersKeep
<1> QED
  BY <1>1, <1>3, <1>4, <1>5, <1>6, <1>8 DEF IInv

\* A commit makes drafts rows and notes the trail.
LEMMA CommitIInv == ASSUME IInv, NEW c \in Clerk, Commit(c) PROVE IInv'
<1>1. End(c) /\ rows' = [t \in Tables |-> Visible(c, t)] /\ trail' = trail \cup note[c]
  BY DEF Commit
<1>2. UNCHANGED <<nextId, created, sold, jobs, now>>
  BY <1>1 DEF End
<1> HIDE DEF End
<1>3. /\ lock' \in [Tables -> [Ids -> Clerk \cup {Nobody}]]
      /\ draft' \in [Tables -> [Ids -> Row \cup {NoRow}]]
      /\ job' \in [Clerk -> JobType] /\ note' \in [Clerk -> SUBSET TrailType]
      /\ Locks' /\ JobRight(c)' /\ note'[c] = {}
      /\ \A t \in Tables, i \in Ids :
           /\ lock[t][i] = c => lock'[t][i] = Nobody /\ draft'[t][i] = NoRow
           /\ lock[t][i] # c => lock'[t][i] = lock[t][i] /\ draft'[t][i] = draft[t][i]
      /\ \A d \in Clerk \ {c} : job'[d] = job[d] /\ note'[d] = note[d]
  BY <1>1, EndKeeps
<1>4. \A t \in Tables, i \in Ids :
        rows'[t][i] = IF lock[t][i] = c THEN draft[t][i] ELSE rows[t][i]
  BY <1>1 DEF Visible
<1>5. TypeOK'
  <2>1. rows' \in [Tables -> [Ids -> Row \cup {NoRow}]]
    BY <1>1 DEF Visible, IInv, TypeOK
  <2>2. trail' \subseteq TrailType
    BY <1>1 DEF IInv, TypeOK
  <2> QED
    BY <1>2, <1>3, <2>1, <2>2 DEF IInv, TypeOK
<1>6. KeysApart'
  <2> SUFFICES ASSUME NEW s \in Tables \cap Unique, NEW a \in Ids, NEW b \in Ids, a # b
               PROVE  /\ rows'[s][a] # NoRow /\ rows'[s][b] # NoRow =>
                           rows'[s][a].key # rows'[s][b].key
                      /\ draft'[s][a] # NoRow /\ draft'[s][b] # NoRow =>
                           draft'[s][a].key # draft'[s][b].key
                      /\ draft'[s][a] # NoRow /\ rows'[s][b] # NoRow
                           /\ lock'[s][b] # lock'[s][a] =>
                           draft'[s][a].key # rows'[s][b].key
    BY DEF KeysApart
  <2>1. \A i, j \in Ids : i # j =>
          /\ rows[s][i] # NoRow /\ rows[s][j] # NoRow => rows[s][i].key # rows[s][j].key
          /\ draft[s][i] # NoRow /\ draft[s][j] # NoRow => draft[s][i].key # draft[s][j].key
          /\ draft[s][i] # NoRow /\ rows[s][j] # NoRow /\ lock[s][j] # lock[s][i] =>
               draft[s][i].key # rows[s][j].key
    BY DEF IInv, KeysApart
  <2>2. rows'[s][a] # NoRow /\ rows'[s][b] # NoRow => rows'[s][a].key # rows'[s][b].key
    BY <1>4, <2>1
  <2>3. draft'[s][a] # NoRow => lock[s][a] # c /\ draft'[s][a] = draft[s][a]
    BY <1>3
  <2>4. draft'[s][b] # NoRow => draft'[s][b] = draft[s][b]
    BY <1>3
  <2>5. ASSUME draft'[s][a] # NoRow, rows'[s][b] # NoRow, lock'[s][b] # lock'[s][a]
        PROVE  draft'[s][a].key # rows'[s][b].key
    <3>1. CASE lock[s][b] = c
      BY <1>4, <2>1, <2>3, <2>5, <3>1
    <3>2. CASE lock[s][b] # c
      BY <1>3, <1>4, <2>1, <2>3, <2>5, <3>2
    <3> QED
      BY <3>1, <3>2
  <2> QED
    BY <2>1, <2>2, <2>3, <2>4, <2>5
<1>7. Stocks'
  <2> SUFFICES ASSUME NEW i \in Ids
               PROVE  /\ rows'["products"][i] # NoRow =>
                           rows'["products"][i].stock = rows'["products"][i].form
                             - (sold[i] - rows'["products"][i].mark)
                      /\ draft'["products"][i] # NoRow =>
                           /\ draft'["products"][i].stock = draft'["products"][i].form
                           /\ draft'["products"][i].mark = sold[i]
    BY <1>2 DEF Stocks
  <2>1. draft["products"][i] \in Row \cup {NoRow} /\ sold[i] \in Nat
    BY ProductsIsATable DEF IInv, TypeOK
  <2>2. draft["products"][i] # NoRow => draft["products"][i].form \in Nat
    BY <2>1 DEF Row, Stock
  <2>3. /\ rows["products"][i] # NoRow => rows["products"][i].stock =
             rows["products"][i].form - (sold[i] - rows["products"][i].mark)
        /\ draft["products"][i] # NoRow =>
             /\ draft["products"][i].stock = draft["products"][i].form
             /\ draft["products"][i].mark = sold[i]
    BY DEF IInv, Stocks
  <2>4. CASE lock["products"][i] = c
    <3>1. rows'["products"][i] = draft["products"][i] /\ draft'["products"][i] = NoRow
      BY <1>3, <1>4, <2>4, ProductsIsATable
    <3>2. draft["products"][i] # NoRow =>
            draft["products"][i].form - (sold[i] - draft["products"][i].mark)
              = draft["products"][i].form
      BY <2>1, <2>2, <2>3
    <3> QED
      BY <2>3, <3>1, <3>2
  <2>5. CASE lock["products"][i] # c
    BY <1>3, <1>4, <2>3, <2>5, ProductsIsATable
  <2> QED
    BY <2>4, <2>5
<1>8. Frame(c)
  <2>1. \A t \in Tables, i \in Ids : rows[t][i] # NoRow => rows'[t][i] # NoRow
    BY <1>4, ConstantsAssumption DEF IInv, Locks
  <2> QED
    BY <1>2, <1>3, <2>1 DEF Frame
<1>9. \A d \in Clerk : JobRight(d)' /\ \A e \in note'[d] : Right(e)
  BY <1>3, <1>8, OthersKeep
<1>10. \A e \in trail' : Right(e)
  BY <1>1 DEF IInv
<1> QED
  BY <1>3, <1>5, <1>6, <1>7, <1>9, <1>10 DEF IInv

\* A sale takes one unit and counts it.
LEMMA OneLess ==
  ASSUME NEW r \in Row, r.stock > 0
  PROVE  LET q == [r EXCEPT !.stock = @ - 1] IN
         /\ q \in Row /\ q # NoRow /\ q.key = r.key /\ q.form = r.form /\ q.mark = r.mark
         /\ q.stock = r.stock - 1 /\ r.form \in Nat /\ r.mark \in Nat /\ r.stock \in Nat
<1>1. r.stock \in Stock /\ r.stock - 1 \in Stock
  BY ConstantsAssumption DEF Row, Stock
<1>2. /\ [r EXCEPT !.stock = @ - 1].key = r.key /\ [r EXCEPT !.stock = @ - 1].form = r.form
      /\ [r EXCEPT !.stock = @ - 1].mark = r.mark
      /\ [r EXCEPT !.stock = @ - 1].stock = r.stock - 1
      /\ r.form \in Nat /\ r.mark \in Nat /\ r.stock \in Nat
  BY DEF Row, Stock
<1>3. [r EXCEPT !.stock = @ - 1] \in Row
  BY <1>1 DEF Row
<1> QED
  BY <1>2, <1>3, ConstantsAssumption

\* A sale keeps stock and count in step.
LEMMA SellIInv == ASSUME IInv, NEW i \in Ids, Sell(i) PROVE IInv'
<1>1. /\ lock["products"][i] = Nobody /\ rows["products"][i] # NoRow
      /\ rows["products"][i].stock > 0 /\ sold[i] < MaxSales
      /\ rows' = [rows EXCEPT !["products"][i].stock = @ - 1]
      /\ sold' = [sold EXCEPT ![i] = @ + 1]
      /\ UNCHANGED <<lock, draft, nextId, created, trail, job, note, jobs, now>>
  BY DEF Sell
<1> DEFINE r == rows["products"][i]
<1>2. /\ rows \in [Tables -> [Ids -> Row \cup {NoRow}]] /\ sold \in [Ids -> 0 .. MaxSales]
      /\ r \in Row
  BY <1>1, ProductsIsATable DEF IInv, TypeOK
<1> DEFINE q == [r EXCEPT !.stock = @ - 1]
<1>3. /\ q \in Row /\ q # NoRow /\ q.key = r.key /\ q.form = r.form /\ q.mark = r.mark
      /\ q.stock = r.stock - 1 /\ r.form \in Nat /\ r.mark \in Nat /\ r.stock \in Nat
  BY <1>1, <1>2, OneLess
<1>0. rows' = [rows EXCEPT !["products"][i] = q]
  BY <1>1
<1> HIDE DEF q
<1>4. /\ rows'["products"][i] = q
      /\ \A t \in Tables, j \in Ids : t # "products" \/ j # i => rows'[t][j] = rows[t][j]
      /\ sold'[i] = sold[i] + 1 /\ \A j \in Ids : j # i => sold'[j] = sold[j]
      /\ sold[i] \in Nat
  BY <1>0, <1>1, <1>2, ProductsIsATable
<1>5. \A t \in Tables, j \in Ids :
        /\ rows'[t][j] = NoRow <=> rows[t][j] = NoRow
        /\ rows[t][j] # NoRow => rows'[t][j].key = rows[t][j].key
  BY <1>1, <1>3, <1>4
<1>6. TypeOK'
  <2>1. rows' \in [Tables -> [Ids -> Row \cup {NoRow}]]
    BY <1>0, <1>2, <1>3, ProductsIsATable
  <2>2. sold' \in [Ids -> 0 .. MaxSales]
    BY <1>1, <1>2, ConstantsAssumption
  <2> QED
    BY <1>1, <2>1, <2>2 DEF IInv, TypeOK
<1>7. Locks'
  BY <1>1 DEF IInv, Locks
<1>8. KeysApart'
  BY <1>1, <1>5 DEF IInv, KeysApart
<1>9. Stocks'
  <2> SUFFICES ASSUME NEW j \in Ids
               PROVE  /\ rows'["products"][j] # NoRow =>
                           rows'["products"][j].stock = rows'["products"][j].form
                             - (sold'[j] - rows'["products"][j].mark)
                      /\ draft["products"][j] # NoRow =>
                           /\ draft["products"][j].stock = draft["products"][j].form
                           /\ draft["products"][j].mark = sold'[j]
    BY <1>1 DEF Stocks
  <2>1. CASE j = i
    <3>1. draft["products"][i] = NoRow
      BY <1>1, ProductsIsATable DEF IInv, Locks
    <3>2. r.stock = r.form - (sold[i] - r.mark)
      BY <1>1 DEF IInv, Stocks
    <3> HIDE DEF r
    <3>3. q.stock = q.form - (sold'[i] - q.mark)
      BY <1>3, <1>4, <3>2
    <3> QED
      BY <1>4, <2>1, <3>1, <3>3
  <2>2. CASE j # i
    BY <1>4, <2>2, ProductsIsATable DEF IInv, Stocks
  <2> QED
    BY <2>1, <2>2
<1>10. \A c \in Clerk : JobRight(c)'
  <2> SUFFICES ASSUME NEW c \in Clerk PROVE JobRight(c)'
    OBVIOUS
  <2>1. JobRight(c) /\ job'[c] = job[c] /\ (job[c].step # "idle" => TableOf(c) \in Tables)
    BY <1>1, FormTables DEF IInv, JobRight, TableOf
  <2> QED
    BY <1>1, <1>5, <2>1 DEF JobRight, TableOf, LineOf
<1> QED
  BY <1>1, <1>6, <1>7, <1>8, <1>9, <1>10 DEF IInv
----------------------------------------------------------------------------
\* What is left to show of a step that changes nothing but its own job: that the
\* new record is of its type and right.
LEMMA OwnJob ==
  ASSUME IInv, NEW c \in Clerk, UNCHANGED <<data, sold, now>>,
         job' \in [Clerk -> JobType], \A d \in Clerk \ {c} : job'[d] = job[d],
         note' \in [Clerk -> SUBSET TrailType], \A d \in Clerk \ {c} : note'[d] = note[d],
         \A e \in note'[c] : Right(e), JobRight(c)', jobs' \in 0 .. MaxJobs
  PROVE  IInv'
<1>1. UNCHANGED <<rows, lock, draft, nextId, created, trail, sold, now>>
  BY DEF data
<1>2. TypeOK'
  BY <1>1 DEF IInv, TypeOK
<1>3. Locks' /\ KeysApart' /\ Stocks'
  BY <1>1, StillKeeps
<1>4. Frame(c)
  BY <1>1 DEF Frame
<1>5. \A d \in Clerk : JobRight(d)' /\ \A e \in note'[d] : Right(e)
  BY <1>4, OthersKeep
<1> QED
  BY <1>1, <1>2, <1>3, <1>5 DEF IInv

\* A transaction begins with nothing written.
LEMMA BeginIInv ==
  ASSUME IInv, NEW c \in Clerk, NEW f \in Forms, NEW i \in 0 .. MaxId,
         NEW lines \in Seq(Line), lines # <<>>, Begin(c, f, i, lines)
  PROVE  IInv'
<1> DEFINE new == [form |-> f, id |-> i, lines |-> lines, step |-> "find", found |-> 0,
                   seen |-> IF f.kind = "seed" THEN rows[f.table] ELSE Unseen,
                   began |-> IF f.table \in Dated THEN now ELSE 0]
<1>1. /\ jobs < MaxJobs /\ jobs' = jobs + 1 /\ job' = [job EXCEPT ![c] = new]
      /\ UNCHANGED <<data, note, sold, now>>
  BY DEF Begin
<1>2. job \in [Clerk -> JobType] /\ note \in [Clerk -> SUBSET TrailType]
  BY DEF IInv, TypeOK
<1>3. new.seen \in [Ids -> Row \cup {NoRow}]
  BY FormTables DEF Unseen, IInv, TypeOK
<1>8. new.began \in Time /\ new.began <= now
  BY ConstantsAssumption DEF IInv, TypeOK, Time
<1>4. new \in JobType
  BY <1>3, <1>8, ConstantsAssumption DEF JobType, Steps
<1>5. /\ job' \in [Clerk -> JobType] /\ job'[c] = new
      /\ \A d \in Clerk \ {c} : job'[d] = job[d]
  BY <1>1, <1>2, <1>4
<1>6. JobRight(c)'
  BY <1>1, <1>5, <1>8 DEF JobRight, TableOf, data
<1>7. jobs' \in 0 .. MaxJobs
  BY <1>1, ConstantsAssumption DEF IInv, TypeOK
<1> QED
  BY <1>1, <1>2, <1>5, <1>6, <1>7, OwnJob DEF IInv

\* What was found was there.
LEMMA FindIInv == ASSUME IInv, NEW c \in Clerk, Find(c) PROVE IInv'
<1> DEFINE view == IF job[c].form.kind = "seed" THEN job[c].seen
                   ELSE Visible(c, job[c].form.table)
           same == Named(view, LineOf(c).key)
<1>1. \/ RollBack(c)
      \/ \E i \in IF job[c].form.kind = "update" THEN {job[c].id}
                  ELSE IF job[c].form.kind # "create" /\ same # {} THEN same ELSE {0} :
           /\ job' = [job EXCEPT ![c].found = i, ![c].step = "write"]
           /\ UNCHANGED <<data, note, sold, jobs, now>>
  BY DEF Find
<1>2. ASSUME NEW i \in IF job[c].form.kind = "update" THEN {job[c].id}
                       ELSE IF job[c].form.kind # "create" /\ same # {} THEN same ELSE {0},
             job' = [job EXCEPT ![c].found = i, ![c].step = "write"],
             UNCHANGED <<data, note, sold, jobs, now>>
      PROVE  IInv'
  <2>1. /\ job \in [Clerk -> JobType] /\ note \in [Clerk -> SUBSET TrailType]
        /\ job[c] \in JobType /\ JobRight(c)
    BY DEF IInv, TypeOK
  <2>2. i \in 0 .. MaxId
    BY <1>2, <2>1, ConstantsAssumption DEF Named, Ids, JobType
  <2>3. /\ job'[c].form = job[c].form /\ job'[c].lines = job[c].lines
        /\ job'[c].seen = job[c].seen /\ job'[c].found = i /\ job'[c].step = "write"
        /\ job'[c].began = job[c].began
        /\ \A d \in Clerk \ {c} : job'[d] = job[d]
    BY <1>2, <2>1 DEF JobType
  <2>4. job' \in [Clerk -> JobType]
    BY <1>2, <2>1, <2>2 DEF JobType, Steps
  <2>5. job[c].step = "find"
    BY DEF Find, Busy
  <2>6. job[c].form.kind = "seed" /\ i # 0 => job[c].seen[i] # NoRow
    BY <1>2, <2>1 DEF Named
  <2>7. JobRight(c)'
    BY <1>2, <2>1, <2>3, <2>5, <2>6 DEF JobRight, TableOf, data
  <2> QED
    BY <1>2, <2>1, <2>3, <2>4, <2>7, OwnJob DEF IInv, TypeOK
<1> QED
  BY <1>1, <1>2, RollBackIInv
----------------------------------------------------------------------------
\* A statement of clerk c writes row i and names its next step.
LEMMA PutIInv ==
  ASSUME IInv, NEW c \in Clerk, NEW i \in Ids, NEW l \in Line, NEW step \in {"name", "reselect"},
         Busy(c, "write"), Put(c, TableOf(c), i, l), l.key = LineOf(c).key \/ step = "name",
         job' = [job EXCEPT ![c].found = i, ![c].step = step],
         nextId' \in [Tables -> 1 .. MaxId + 1],
         \/ created' = [created EXCEPT ![TableOf(c)][i] = Stamp(c)]
         \/ created' = created /\ step = "name",
         UNCHANGED <<rows, trail, note, sold, jobs, now>>
  PROVE  IInv'
<1> DEFINE t == TableOf(c)
<1>1. /\ job \in [Clerk -> JobType] /\ note \in [Clerk -> SUBSET TrailType]
      /\ job[c] \in JobType /\ JobRight(c) /\ job[c].step = "write"
  BY DEF IInv, TypeOK, Busy
<1>2. t \in Tables
  BY <1>1, FormTables DEF JobRight, TableOf
<1>3. /\ lock' \in [Tables -> [Ids -> Clerk \cup {Nobody}]]
      /\ draft' \in [Tables -> [Ids -> Row \cup {NoRow}]]
      /\ Locks' /\ KeysApart' /\ Stocks'
      /\ lock'[t][i] = c /\ draft'[t][i].key = l.key
      /\ \A d \in Clerk \ {c}, s \in Tables, j \in Ids :
           lock[s][j] = d => lock'[s][j] = d /\ draft'[s][j] = draft[s][j]
  BY <1>2, PutKeeps
<1>4. /\ job'[c].form = job[c].form /\ job'[c].lines = job[c].lines
      /\ job'[c].seen = job[c].seen /\ job'[c].found = i /\ job'[c].step = step
      /\ job'[c].began = job[c].began
      /\ \A d \in Clerk \ {c} : job'[d] = job[d]
  BY <1>1 DEF JobType
<1>5. i # 0 /\ i \in 0 .. MaxId
  BY ConstantsAssumption DEF Ids
<1>6. job' \in [Clerk -> JobType]
  BY <1>1, <1>5 DEF JobType, Steps
<1>7. Stamp(c) \in Time /\ (t \in Dated => Stamp(c) >= job[c].began)
  <2>1. now \in Time /\ job[c].began \in Time /\ 0 \in Time /\ job[c].began <= now
    BY <1>1, ConstantsAssumption DEF JobType, JobRight, IInv, TypeOK, Time
  <2>2. Time \subseteq Nat
    BY DEF Time
  <2> QED
    BY <2>1, <2>2 DEF Stamp
<1>8. /\ created' \in [Tables -> [Ids -> Time]]
      /\ step = "reselect" => created'[t][i] = Stamp(c)
      /\ \A s \in Tables, j \in Ids : s # t \/ j # i => created'[s][j] = created[s][j]
  <2>1. created \in [Tables -> [Ids -> Time]]
    BY DEF IInv, TypeOK
  <2> QED
    BY <1>2, <1>7, <2>1
<1>9. TypeOK'
  BY <1>3, <1>6, <1>8 DEF IInv, TypeOK
<1>10. JobRight(c)'
  BY <1>1, <1>3, <1>4, <1>5, <1>7, <1>8 DEF JobRight, TableOf, LineOf
<1>11. Frame(c)
  <2>1. lock[t][i] \in {Nobody, c}
    BY DEF Put
  <2>2. \A d \in Clerk \ {c}, s \in Tables, j \in Ids :
          lock[s][j] = d => created'[s][j] = created[s][j]
    BY <1>8, <2>1, ConstantsAssumption
  <2>3. \A d \in Clerk \ {c}, s \in Tables, j \in Ids :
          lock[s][j] = d =>
            lock'[s][j] = d /\ draft'[s][j] = draft[s][j] /\ created'[s][j] = created[s][j]
    BY <1>3, <2>2
  <2>4. \A d \in Clerk \ {c} : job'[d] = job[d] /\ note'[d] = note[d]
    BY <1>4
  <2>5. UNCHANGED <<rows, now>>
    OBVIOUS
  <2> QED
    BY <2>3, <2>4, <2>5 DEF Frame
<1>12. \A d \in Clerk : JobRight(d)' /\ \A e \in note'[d] : Right(e)
  BY <1>10, <1>11, OthersKeep DEF IInv
<1> QED
  BY <1>3, <1>9, <1>12 DEF IInv

\* A row inserted clashes with none.
LEMMA InsertIInv == ASSUME IInv, NEW c \in Clerk, Insert(c) PROVE IInv'
<1> DEFINE n == nextId[TableOf(c)]
<1>1. /\ Busy(c, "write")
      /\ \/ /\ n <= MaxId /\ Put(c, TableOf(c), n, LineOf(c))
            /\ nextId' = [nextId EXCEPT ![TableOf(c)] = n + 1]
            /\ created' = [created EXCEPT ![TableOf(c)][n] = Stamp(c)]
            /\ job' = [job EXCEPT ![c].found = n, ![c].step = "reselect"]
            /\ UNCHANGED <<rows, trail, note, sold, jobs, now>>
         \/ RollBack(c)
  BY DEF Insert
<1>2. /\ nextId \in [Tables -> 1 .. MaxId + 1] /\ TableOf(c) \in Tables
      /\ job[c].lines \in Seq(Line) /\ job[c].lines # <<>>
  BY <1>1, FormTables DEF IInv, TypeOK, JobRight, JobType, TableOf, Busy
<1>3. LineOf(c) \in Line
  BY <1>2, FirstLine DEF LineOf
<1>4. CASE RollBack(c)
  BY <1>4, RollBackIInv
<1>5. CASE /\ n <= MaxId /\ Put(c, TableOf(c), n, LineOf(c))
           /\ nextId' = [nextId EXCEPT ![TableOf(c)] = n + 1]
           /\ created' = [created EXCEPT ![TableOf(c)][n] = Stamp(c)]
           /\ job' = [job EXCEPT ![c].found = n, ![c].step = "reselect"]
           /\ UNCHANGED <<rows, trail, note, sold, jobs, now>>
  <2>1. n \in Ids
    BY <1>2, <1>5, ConstantsAssumption DEF Ids
  <2>2. nextId' \in [Tables -> 1 .. MaxId + 1]
    BY <1>2, <1>5, <2>1, ConstantsAssumption DEF Ids
  <2> HIDE DEF n
  <2> QED
    BY <1>1, <1>3, <1>5, <2>1, <2>2, PutIInv
<1> QED
  BY <1>1, <1>4, <1>5

\* A row updated keeps its key its own.
LEMMA UpdateIInv == ASSUME IInv, NEW c \in Clerk, Update(c) PROVE IInv'
<1> DEFINE i     == job[c].found
           seeds == job[c].form.kind = "seed"
           same  == seeds /\ job[c].seen[i].stock = LineOf(c).stock
           l     == IF seeds THEN [LineOf(c) EXCEPT !.key = rows[TableOf(c)][i].key]
                    ELSE LineOf(c)
<1>1. /\ Busy(c, "write") /\ i # 0
      /\ \/ job' = To(c, "name") /\ UNCHANGED <<data, note, sold, jobs, now>>
         \/ /\ Put(c, TableOf(c), i, l) /\ job' = To(c, "name")
            /\ UNCHANGED <<rows, nextId, created, trail, note, sold, jobs, now>>
         \/ RollBack(c)
  BY DEF Update
<1>2. /\ job \in [Clerk -> JobType] /\ job[c] \in JobType /\ JobRight(c)
      /\ note \in [Clerk -> SUBSET TrailType] /\ nextId \in [Tables -> 1 .. MaxId + 1]
      /\ job[c].step = "write"
  BY <1>1 DEF IInv, TypeOK, Busy
<1>3. i \in Ids /\ TableOf(c) \in Tables /\ job[c].lines \in Seq(Line) /\ job[c].lines # <<>>
  BY <1>1, <1>2, FormTables DEF JobRight, JobType, TableOf, Ids
<1>4. /\ job'[c].form = job[c].form /\ job'[c].lines = job[c].lines
      /\ job'[c].seen = job[c].seen /\ job'[c].found = i /\ job'[c].step = "name"
      /\ job'[c].began = job[c].began
      /\ job' = [job EXCEPT ![c].found = i, ![c].step = "name"]
      /\ job' \in [Clerk -> JobType] /\ \A d \in Clerk \ {c} : job'[d] = job[d]
      \/ RollBack(c)
  <2>1. ASSUME job' = To(c, "name")
        PROVE  /\ job'[c].form = job[c].form /\ job'[c].lines = job[c].lines
               /\ job'[c].seen = job[c].seen /\ job'[c].found = i /\ job'[c].step = "name"
               /\ job'[c].began = job[c].began
               /\ job' = [job EXCEPT ![c].found = i, ![c].step = "name"]
               /\ job' \in [Clerk -> JobType] /\ \A d \in Clerk \ {c} : job'[d] = job[d]
    BY <1>2, <2>1 DEF To, JobType, Steps
  <2> QED
    BY <1>1, <2>1
<1>5. CASE RollBack(c)
  BY <1>5, RollBackIInv
<1>6. CASE job' = To(c, "name") /\ UNCHANGED <<data, note, sold, jobs, now>>
  <2>1. JobRight(c)' \/ RollBack(c)
    BY <1>1, <1>2, <1>4, <1>6 DEF JobRight, TableOf, data
  <2> QED
    BY <1>2, <1>4, <1>5, <1>6, <2>1, OwnJob DEF IInv, TypeOK
<1>7. CASE /\ Put(c, TableOf(c), i, l) /\ job' = To(c, "name")
           /\ UNCHANGED <<rows, nextId, created, trail, note, sold, jobs, now>>
  <2>1. LineOf(c) \in Line
    BY <1>3, FirstLine DEF LineOf
  <2>2. seeds => rows[TableOf(c)][i] \in Row
    BY <1>1, <1>2, <1>3 DEF JobRight, IInv, TypeOK
  <2>3. l \in Line
    BY <2>1, <2>2 DEF Line, Row
  <2> HIDE DEF i, l
  <2> QED
    BY <1>1, <1>2, <1>3, <1>4, <1>5, <1>7, <2>3, PutIInv
<1> QED
  BY <1>1, <1>5, <1>6, <1>7
----------------------------------------------------------------------------
\* What is named is what was written, or newer.
LEMMA NameIInv == ASSUME IInv, NEW c \in Clerk, Name(c) PROVE IInv'
<1> DEFINE own == job[c].found
           next == IF Len(job[c].lines) = 1 THEN "commit" ELSE "find"
           entry(i) == [table |-> TableOf(c), named |-> i, own |-> own,
                        began |-> job[c].began, made |-> created[TableOf(c)][i]]
<1>1. PICK i \in Names(c) :
        note' = IF job[c].form.names = "none" THEN note
                ELSE [note EXCEPT ![c] = @ \cup
                        {entry(i)}]
  BY DEF Name
<1>2. /\ job' = [job EXCEPT ![c].lines = Tail(@), ![c].found = 0, ![c].step = next]
      /\ UNCHANGED <<data, sold, jobs, now>> /\ job[c].step \in {"name", "reselect"}
  BY DEF Name, Busy
<1>3. /\ job \in [Clerk -> JobType] /\ job[c] \in JobType /\ JobRight(c)
      /\ note \in [Clerk -> SUBSET TrailType] /\ \A e \in note[c] : Right(e)
  BY DEF IInv, TypeOK
<1>4. /\ own \in Ids /\ TableOf(c) \in Tables
      /\ job[c].lines \in Seq(Line) /\ job[c].lines # <<>> /\ job[c].form \in Handlers
  BY <1>2, <1>3, FormTables DEF JobRight, JobType, TableOf, Ids
<1>5. /\ Tail(job[c].lines) \in Seq(Line)
      /\ next # "commit" => Tail(job[c].lines) # <<>>
  BY <1>4, FirstLine
<1>6. /\ job'[c].form = job[c].form /\ job'[c].lines = Tail(job[c].lines)
      /\ job'[c].seen = job[c].seen /\ job'[c].found = 0 /\ job'[c].step = next
      /\ job'[c].began = job[c].began
      /\ \A d \in Clerk \ {c} : job'[d] = job[d]
  BY <1>2, <1>3 DEF JobType
<1>7. job' \in [Clerk -> JobType]
  <2>1. next \in Steps /\ 0 \in 0 .. MaxId
    BY ConstantsAssumption DEF Steps
  <2> HIDE DEF next
  <2> QED
    BY <1>2, <1>3, <1>5, <2>1 DEF JobType
<1>8. JobRight(c)'
  BY <1>2, <1>3, <1>5, <1>6 DEF JobRight, TableOf, data
<1>9. i \in Ids
  BY <1>1, <1>4 DEF Names, Named, Busy
<1>10. job[c].form.names # "none" => Right(entry(i))
  <2>1. CASE job[c].step = "name"
    BY <1>1, <1>4, <2>1 DEF Names, Busy, Right
  <2>2. CASE job[c].step = "reselect"
    <3> DEFINE t == TableOf(c)
               same == Named(Visible(c, t), LineOf(c).key)
    <3>1. lock[t][own] = c /\ draft[t][own].key = LineOf(c).key
      BY <1>3, <2>2 DEF JobRight
    <3>2. draft[t][own] # NoRow
      BY <1>4, <3>1, ConstantsAssumption DEF IInv, Locks
    <3>3. own \in same
      BY <1>4, <3>1, <3>2 DEF Named, Visible
    <3>4. i \in same
      BY <1>1, <2>2 DEF Names, Busy
    <3>5. ASSUME t \in Unique PROVE i = own
      <4>1. SUFFICES ASSUME i # own PROVE FALSE
        OBVIOUS
      <4>2. IF lock[t][i] = c
            THEN draft[t][i] # NoRow /\ draft[t][i].key = LineOf(c).key
            ELSE rows[t][i] # NoRow /\ rows[t][i].key = LineOf(c).key
        BY <1>9, <3>4 DEF Named, Visible
      <4> QED
        BY <1>4, <1>9, <3>1, <3>2, <3>5, <4>1, <4>2 DEF IInv, KeysApart
    <3>6. ASSUME t = "tickets", job[c].form.names = "highest" PROVE i = own \/ i > own
      <4>1. \A j \in same : j <= i
        BY <1>1, <2>2, <3>6 DEF Names, Busy
      <4> QED
        BY <1>4, <1>9, <3>3, <4>1 DEF Ids
    <3>7. ASSUME t \in Dated, job[c].form.names \notin {"key", "highest"}
          PROVE  created[t][i] >= job[c].began
      <4>1. \A j \in same : created[t][j] <= created[t][i]
        BY <1>1, <2>2, <3>7 DEF Names, Busy
      <4>2. created[t][own] >= job[c].began
        BY <1>3, <2>2, <3>7 DEF JobRight
      <4>3. created[t][own] \in Nat /\ created[t][i] \in Nat /\ job[c].began \in Nat
        BY <1>3, <1>4, <1>9 DEF IInv, TypeOK, Time, JobType
      <4> QED
        BY <3>3, <4>1, <4>2, <4>3
    <3> HIDE DEF same
    <3> QED
      BY <1>4, <3>5, <3>6, <3>7, NamingForms DEF Right, TableOf
  <2> QED
    BY <1>2, <2>1, <2>2
<1>11. /\ note' \in [Clerk -> SUBSET TrailType] /\ \A e \in note'[c] : Right(e)
       /\ \A d \in Clerk \ {c} : note'[d] = note[d]
  <2>1. entry(i) \in TrailType
    BY <1>3, <1>4, <1>9 DEF TrailType, IInv, TypeOK, JobType
  <2> HIDE DEF entry
  <2> QED
    BY <1>1, <1>3, <1>10, <2>1
<1>12. jobs' \in 0 .. MaxJobs
  BY <1>2 DEF IInv, TypeOK
<1> QED
  BY <1>2, <1>6, <1>7, <1>8, <1>11, <1>12, OwnJob
----------------------------------------------------------------------------
\* Time passes, and every job has begun before.
LEMMA ElapseIInv == ASSUME IInv, Elapse PROVE IInv'
<1>1. /\ now' = now + 1 /\ now' \in Time /\ now \in Nat
      /\ UNCHANGED <<rows, lock, draft, nextId, created, trail, job, note, sold, jobs>>
  BY ConstantsAssumption DEF Elapse, data, IInv, TypeOK, Time
<1>2. TypeOK' /\ Locks' /\ KeysApart' /\ Stocks'
  BY <1>1, StillKeeps DEF IInv, TypeOK
<1>3. ASSUME NEW c \in Clerk PROVE JobRight(c)'
  <2>1. JobRight(c) /\ job[c].began \in Nat
    BY DEF IInv, TypeOK, JobType, Time
  <2> QED
    BY <1>1, <2>1 DEF JobRight, TableOf, LineOf
<1> QED
  BY <1>1, <1>2, <1>3 DEF IInv

\* Every step keeps the invariant.
LEMMA NextIInv == IInv /\ [Next]_vars => IInv'
<1> SUFFICES ASSUME IInv, [Next]_vars PROVE IInv'
  OBVIOUS
<1>1. ASSUME NEW c \in Clerk, NEW f \in Forms, Submit(c, f) PROVE IInv'
  <2>1. PICK l \in Line, i \in Ids : Begin(c, f, IF f.kind = "update" THEN i ELSE 0, <<l>>)
    BY <1>1 DEF Submit
  <2>2. i \in 0 .. MaxId /\ 0 \in 0 .. MaxId
    BY ConstantsAssumption DEF Ids
  <2>3. (IF f.kind = "update" THEN i ELSE 0) \in 0 .. MaxId
    BY <2>2
  <2>4. <<l>> \in Seq(Line) /\ <<l>> # <<>>
    OBVIOUS
  <2> QED
    BY <2>1, <2>3, <2>4, BeginIInv
<1>2. ASSUME NEW c \in Clerk, NEW f \in Forms, Push(c, f) PROVE IInv'
  <2>1. PICK lines \in Batches : Begin(c, f, 0, lines)
    BY <1>2 DEF Push
  <2>2. lines \in Seq(Line) /\ lines # <<>> /\ 0 \in 0 .. MaxId
    BY ConstantsAssumption
  <2> QED
    BY <2>1, <2>2, BeginIInv
<1>3. ASSUME NEW c \in Clerk, NEW f \in Forms, StartUp(c, f) PROVE IInv'
  <2>1. SeedStock \in Seq(Line) /\ SeedStock # <<>> /\ 0 \in 0 .. MaxId
    BY ConstantsAssumption
  <2> QED
    BY <1>3, <2>1, BeginIInv DEF StartUp
<1>4. ASSUME NEW c \in Clerk,
             Find(c) \/ Insert(c) \/ Update(c) \/ Name(c) \/ Commit(c) \/ GiveUp(c)
      PROVE  IInv'
  BY <1>4, FindIInv, InsertIInv, UpdateIInv, NameIInv, CommitIInv, RollBackIInv DEF GiveUp
<1>5. ASSUME NEW i \in Ids, Sell(i) PROVE IInv'
  BY <1>5, SellIInv
<1>7. CASE Elapse
  BY <1>7, ElapseIInv
<1>6. CASE UNCHANGED vars
  BY <1>6 DEF vars, data, IInv, TypeOK, Locks, KeysApart, Stocks, JobRight, TableOf, LineOf, Right
<1> QED
  BY <1>1, <1>2, <1>3, <1>4, <1>5, <1>6, <1>7 DEF Next

\* The inductive invariant holds in every reachable state.
LEMMA IInvHolds == Spec => []IInv
BY InitIInv, NextIInv, PTL DEF Spec

\* Whatever is submitted, pushed and sold, every variable has its type: a stock
\* is never below zero.
THEOREM TypeCorrect == Spec => []TypeOK
BY IInvHolds, PTL DEF IInv

\* Two forms that both looked and both found a key free do not both insert it.
THEOREM KeysStayUnique == Spec => []KeysUnique
<1>1. IInv => KeysUnique
  BY DEF IInv, KeysApart, KeysUnique
<1> QED
  BY <1>1, IInvHolds, PTL

\* An audit entry names the row its form wrote, for whatever stands under a unique
\* key; a ticket's, that or a later one; a shop's or an order's, that or one created
\* no earlier than the form began, on either database.
THEOREM TrailIsRight == Spec => []TrailNamesItsRow
<1>1. IInv => TrailNamesItsRow
  BY DEF IInv, TrailNamesItsRow
<1> QED
  BY <1>1, IInvHolds, PTL

\* A form replaces the sales before its UPDATE and none after it.
THEOREM SalesAreKept == Spec => []StockKeepsSales
<1>1. IInv => StockKeepsSales
  BY DEF IInv, Stocks, StockKeepsSales
<1> QED
  BY <1>1, IInvHolds, PTL
----------------------------------------------------------------------------
\* The readers of the public API and their cache only look: to the forms, the
\* pushes and the checkouts the catalogue is the back office.
THEOREM CatalogueIsBackOffice == CatalogueSpec => Spec
<1>1. CatalogueInit => Init
  BY DEF CatalogueInit
<1>2. [CatalogueNext]_allVars => [Next]_vars
  <2>1. CatalogueNext => Next \/ UNCHANGED vars
    BY DEF CatalogueNext
  <2>2. UNCHANGED allVars => UNCHANGED vars
    BY DEF allVars
  <2> QED
    BY <2>1, <2>2
<1> QED
  BY <1>1, <1>2, PTL DEF CatalogueSpec, Spec

\* So what is proved of the forms holds while the catalogue is being read, for
\* any readers, keys and time to live.
THEOREM CatalogueKeeps ==
  CatalogueSpec => /\ []TypeOK /\ []KeysUnique
                   /\ []TrailNamesItsRow /\ []StockKeepsSales
BY CatalogueIsBackOffice, TypeCorrect, KeysStayUnique, TrailIsRight, SalesAreKept
=============================================================================
