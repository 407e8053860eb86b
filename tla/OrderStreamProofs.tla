------------------------- MODULE OrderStreamProofs -------------------------
(* What OrderStream promises for any number of orders, workers and entries. *)
EXTENDS OrderStream, TLAPS

\* The initial state has the inductive invariant.
LEMMA InitIInv == Init => IInv
<1> SUFFICES ASSUME Init PROVE IInv  OBVIOUS
<1>1. Live = {} /\ Held = {} /\ dead = {} /\ drain.todo = {}
  BY DEF Init, Live, Held, NoDrain
<1>2. TypeOK
  BY DEF Init, TypeOK, NoDrain, Entry, DeadEntry
<1>3. AckIsSafe
  BY DEF Init, AckIsSafe
<1> QED
  BY <1>1, <1>2, <1>3 DEF IInv, Numbered, MangledIsGone, DeleteIsSafe, DrainIdle, Init

\* What an XADD does to the parts of the invariant it can disturb.
LEMMA XAddTypes ==
  ASSUME TypeOK, NEW e \in Entry, e.id = nextId, XAdd(e)
  PROVE  /\ stream' \subseteq Entry /\ pending' \subseteq Entry
         /\ nextId' = nextId + 1 /\ nextId' \in Nat \ {0}
         /\ gone' \subseteq Order /\ gone \subseteq gone'
         /\ stream' \subseteq stream \cup {e} /\ pending' \subseteq pending
         /\ \A f \in Live : f \in Live' \/ f.order \in gone'
         /\ ~e.intact => e.order \in gone'
<1>1. PICK cut \in {{}} \cup {{f \in Live : f.id <= n} : n \in 1 .. nextId - MaxLen} :
        /\ stream' = (stream \cup {e}) \ cut
        /\ pending' = pending \ cut
        /\ gone' = gone \cup {f.order : f \in cut} \cup (IF e.intact THEN {} ELSE {e.order})
  BY DEF XAdd
<1>2. cut \subseteq Live
  BY <1>1
<1>3. Live \subseteq Entry
  BY DEF TypeOK, Live
<1>4. e.order \in Order /\ \A f \in cut : f.order \in Order
  BY <1>2, <1>3 DEF Entry
<1>5. nextId' = nextId + 1 /\ nextId' \in Nat \ {0}
  BY DEF XAdd, TypeOK
<1> QED
  BY <1>1, <1>2, <1>3, <1>4, <1>5 DEF TypeOK, Live

\* The new entry is on the stream: a cut takes only entries that were there.
LEMMA XAddStays ==
  ASSUME IInv, NEW e \in Entry, e.id = nextId, XAdd(e)
  PROVE  e \in stream'
<1>1. PICK cut \in {{}} \cup {{f \in Live : f.id <= n} : n \in 1 .. nextId - MaxLen} :
        stream' = (stream \cup {e}) \ cut
  BY DEF XAdd
<1>2. \A f \in Live : f.id < nextId
  BY DEF IInv, Numbered, TypeOK
<1>3. e \notin cut
  BY <1>1, <1>2 DEF IInv, TypeOK
<1> QED  BY <1>1, <1>3

\* What a dead letter does.
LEMMA DeadLetterTypes ==
  ASSUME IInv, NEW l \in DeadEntry, l.id = nextId, DeadLetter(l)
  PROVE  /\ dead' \subseteq DeadEntry /\ dead' \subseteq dead \cup {l} /\ l \in dead'
         /\ nextId' = nextId + 1 /\ nextId' \in Nat \ {0}
         /\ gone' \subseteq Order /\ gone \subseteq gone'
         /\ \A f \in dead : f \in dead' \/ f.order \in gone'
<1>1. PICK cut \in {{}} \cup {{f \in dead : f.id <= n} : n \in 1 .. nextId - DlqMaxLen} :
        /\ dead' = (dead \cup {l}) \ cut
        /\ gone' = gone \cup {f.order : f \in cut}
  BY DEF DeadLetter
<1>2. cut \subseteq dead
  BY <1>1
<1>3. \A f \in dead : f.order \in Order /\ f.id < nextId
  BY DEF IInv, TypeOK, DeadEntry, Numbered
<1>4. l \notin cut
  BY <1>2, <1>3 DEF IInv, TypeOK
<1>5. nextId' = nextId + 1 /\ nextId' \in Nat \ {0}
  BY DEF DeadLetter, IInv, TypeOK
<1> QED
  BY <1>1, <1>2, <1>3, <1>4, <1>5 DEF IInv, TypeOK

\* Every variable keeps its type.
LEMMA NextTypeOK == IInv /\ [Next]_vars => TypeOK'
<1> SUFFICES ASSUME IInv, [Next]_vars PROVE TypeOK'  OBVIOUS
<1> USE DEF IInv
<1>1. ASSUME NEW o \in Order, Publish(o) PROVE TypeOK'
  <2>1. NewEntry(o) \in Entry /\ NewEntry(o).id = nextId
    BY ConstantsAssumption DEF NewEntry, Entry, TypeOK
  <2>2. XAdd(NewEntry(o))
    BY <1>1 DEF Publish
  <2> QED
    BY <1>1, <2>1, <2>2, XAddTypes DEF Publish, TypeOK, workers
<1>2. ASSUME NEW w \in Worker, Poll(w) PROVE TypeOK'
  BY <1>2 DEF Poll, TypeOK
<1>3. ASSUME NEW w \in Worker, Recover(w) PROVE TypeOK'
  <2>1. faults' \in Nat
    BY <1>3 DEF Recover, Steals, TypeOK
  <2> QED
    BY <1>3, <2>1 DEF Recover, TypeOK, redis
<1>4. ASSUME NEW w \in Worker, NEW e \in batch[w], Handle(w, e) PROVE TypeOK'
  <2>1. e \in Entry /\ e.order \in Order
    BY DEF TypeOK, Entry
  <2>2. crm' \subseteq Order /\ redirected' \subseteq Order
    BY <1>4, <2>1 DEF Handle, TypeOK
  <2>3. phase' \in [Worker -> {"ready", "park", "refuse", "ack", "down"}]
    BY <1>4 DEF Handle, TypeOK
  <2> QED
    BY <1>4, <2>2, <2>3 DEF Handle, TypeOK, redis
<1>5. ASSUME NEW w \in Worker, NEW e \in batch[w], Park(w, e) PROVE TypeOK'
  <2> DEFINE retry == Again(e, e.attempt + 1)
             letter == [id |-> nextId, order |-> e.order, intact |-> e.intact]
  <2>1. e \in Entry
    BY DEF TypeOK
  <2>2. CASE e.attempt < MaxAttempts /\ XAdd(retry) /\ UNCHANGED dead
    <3>1. retry \in Entry /\ retry.id = nextId
      BY <2>1, <2>2, ConstantsAssumption DEF Again, Entry, TypeOK
    <3> HIDE DEF retry
    <3> QED
      BY <1>5, <2>2, <3>1, XAddTypes DEF Park, TypeOK
  <2>3. CASE DeadLetter(letter) /\ UNCHANGED <<stream, pending>>
    <3>1. letter \in DeadEntry /\ letter.id = nextId
      BY <2>1 DEF Entry, DeadEntry, TypeOK
    <3> HIDE DEF letter
    <3> QED
      BY <1>5, <2>3, <3>1, DeadLetterTypes DEF Park, TypeOK
  <2> QED
    BY <1>5, <2>2, <2>3 DEF Park
<1>6. ASSUME NEW w \in Worker, NEW e \in batch[w], ForceDlq(w, e) PROVE TypeOK'
  <2> DEFINE letter == [id |-> nextId, order |-> e.order, intact |-> FALSE]
  <2>1. letter \in DeadEntry /\ letter.id = nextId
    BY DEF Entry, DeadEntry, TypeOK
  <2>2. DeadLetter(letter)
    BY <1>6 DEF ForceDlq
  <2> HIDE DEF letter
  <2> QED
    BY <1>6, <2>1, <2>2, DeadLetterTypes DEF ForceDlq, TypeOK
<1>7. ASSUME NEW w \in Worker, NEW e \in batch[w], Ack(w, e) PROVE TypeOK'
  BY <1>7 DEF Ack, TypeOK
<1>8. ASSUME NEW w \in Worker, Crash(w) \/ Restart(w) PROVE TypeOK'
  BY <1>8 DEF Crash, Restart, TypeOK, redis
<1>9. CASE DrainStart
  BY <1>9 DEF DrainStart, TypeOK, redis, workers
<1>10. ASSUME NEW l \in drain.todo, DrainAdd(l) PROVE TypeOK'
  <2> DEFINE again == Again(l, 1)
  <2>1. l \in DeadEntry
    BY DEF TypeOK
  <2>2. again \in Entry /\ again.id = nextId
    BY <2>1, ConstantsAssumption DEF Again, Entry, DeadEntry, TypeOK
  <2>3. XAdd(again)
    BY <1>10 DEF DrainAdd
  <2> HIDE DEF again
  <2> QED
    BY <1>10, <2>2, <2>3, XAddTypes DEF DrainAdd, TypeOK, workers
<1>11. ASSUME NEW l \in drain.todo, DrainDel(l) PROVE TypeOK'
  <2>1. l \in DeadEntry /\ l.order \in Order
    BY DEF TypeOK, DeadEntry
  <2>2. gone' \subseteq Order /\ dead' \subseteq DeadEntry
    BY <1>11, <2>1 DEF DrainDel, TypeOK
  <2> QED
    BY <1>11, <2>2 DEF DrainDel, TypeOK, workers
<1>12. CASE DrainDies
  BY <1>12 DEF DrainDies, TypeOK, redis, workers, NoDrain
<1>13. CASE UNCHANGED vars
  BY <1>13 DEF vars, TypeOK
<1> QED
  BY <1>1, <1>2, <1>3, <1>4, <1>5, <1>6, <1>7, <1>8, <1>9, <1>10, <1>11, <1>12, <1>13
  DEF Next, Work, Operate, Quiet

\* Nobody drops the youngest trace of an order: what an order is carried by
\* beyond entry n, it is carried by beyond n after every step.
LEMMA StillCarried ==
  ASSUME IInv, [Next]_vars, NEW o \in Order, NEW n \in Nat, Carried(o, n)
  PROVE  Carried(o, n)'
<1> USE DEF IInv
<1>0. /\ \A e \in Live \cup dead : e.id \in Nat
      /\ nextId \in Nat /\ \A e \in Live \cup dead : e.id < nextId
  BY DEF TypeOK, Live, Entry, DeadEntry, Numbered
<1>a. ASSUME NEW e \in Entry, e.id = nextId, XAdd(e), dead' = dead, crm \subseteq crm',
             redirected \subseteq redirected'
      PROVE  Carried(o, n)'
  <2>1. /\ gone \subseteq gone'
        /\ \A f \in Live : f \in Live' \/ f.order \in gone'
    BY <1>a, XAddTypes
  <2> QED
    BY <1>a, <2>1 DEF Carried
<1>b. ASSUME NEW l \in DeadEntry, l.id = nextId, DeadLetter(l), UNCHANGED <<stream, pending>>,
             crm \subseteq crm', redirected \subseteq redirected'
      PROVE  Carried(o, n)'
  <2>1. /\ gone \subseteq gone'
        /\ \A f \in dead : f \in dead' \/ f.order \in gone'
    BY <1>b, DeadLetterTypes
  <2> QED
    BY <1>b, <2>1 DEF Carried, Live
<1>c. ASSUME Live' = Live, dead' = dead, crm \subseteq crm', gone' = gone,
             redirected \subseteq redirected'
      PROVE  Carried(o, n)'
  BY <1>c DEF Carried
<1>1. ASSUME NEW p \in Order, Publish(p) PROVE Carried(o, n)'
  <2>1. NewEntry(p) \in Entry /\ NewEntry(p).id = nextId
    BY ConstantsAssumption DEF NewEntry, Entry, TypeOK
  <2> QED
    BY <1>1, <1>a, <2>1 DEF Publish
<1>2. ASSUME NEW w \in Worker, Poll(w) PROVE Carried(o, n)'
  BY <1>2, <1>c DEF Poll, Live
<1>3. ASSUME NEW w \in Worker, Recover(w) PROVE Carried(o, n)'
  BY <1>3, <1>c DEF Recover, Live, redis
<1>4. ASSUME NEW w \in Worker, NEW e \in batch[w], Handle(w, e) PROVE Carried(o, n)'
  <2>1. crm \subseteq crm' /\ redirected \subseteq redirected'
    BY <1>4 DEF Handle
  <2> QED
    BY <1>4, <2>1, <1>c DEF Handle, Live, redis
<1>5. ASSUME NEW w \in Worker, NEW e \in batch[w], Park(w, e) PROVE Carried(o, n)'
  <2>1. e \in Entry /\ crm' = crm /\ redirected' = redirected
    BY <1>5 DEF TypeOK, Park
  <2>2. CASE e.attempt < MaxAttempts /\ XAdd(Again(e, e.attempt + 1)) /\ UNCHANGED dead
    <3>1. Again(e, e.attempt + 1) \in Entry /\ Again(e, e.attempt + 1).id = nextId
      BY <2>1, <2>2, ConstantsAssumption DEF Again, Entry, TypeOK
    <3> QED
      BY <2>1, <2>2, <3>1, <1>a
  <2>3. CASE DeadLetter([id |-> nextId, order |-> e.order, intact |-> e.intact])
             /\ UNCHANGED <<stream, pending>>
    BY <2>1, <2>3, <1>b DEF Entry, DeadEntry, TypeOK
  <2> QED
    BY <1>5, <2>2, <2>3 DEF Park
<1>6. ASSUME NEW w \in Worker, NEW e \in batch[w], ForceDlq(w, e) PROVE Carried(o, n)'
  <2>1. [id |-> nextId, order |-> e.order, intact |-> FALSE] \in DeadEntry
    BY DEF Entry, DeadEntry, TypeOK
  <2> QED
    BY <1>6, <2>1, <1>b DEF ForceDlq
<1>7. ASSUME NEW w \in Worker, NEW e \in batch[w], Ack(w, e) PROVE Carried(o, n)'
  <2>1. Carried(e.order, e.id)
    BY <1>7 DEF Ack, AckIsSafe
  <2>2. \A f \in Live \cup dead : f \in Live' \cup dead' \/ f = e
    BY <1>7 DEF Ack, Live
  <2>3. e \in Entry /\ crm' = crm /\ gone' = gone /\ redirected' = redirected
    BY <1>7 DEF Ack, TypeOK
  <2>4. Carried(e.order, e.id)'
    BY <2>1, <2>2, <2>3, <1>0 DEF Carried, Entry
  <2>5. \A f \in Live' \cup dead' : f.id \in Nat
    BY <1>7, <1>0 DEF Ack, Live
  <2>6. CASE e.order = o /\ e.id > n
    BY <2>2, <2>3, <2>4, <2>5, <2>6 DEF Carried, Entry
  <2> QED
    BY <2>2, <2>3, <2>6 DEF Carried
<1>8. ASSUME NEW w \in Worker, Crash(w) \/ Restart(w) PROVE Carried(o, n)'
  BY <1>8, <1>c DEF Crash, Restart, Live, redis
<1>9. CASE DrainStart
  BY <1>9, <1>c DEF DrainStart, Live, redis
<1>10. ASSUME NEW l \in drain.todo, DrainAdd(l) PROVE Carried(o, n)'
  <2>1. Again(l, 1) \in Entry /\ Again(l, 1).id = nextId
    BY ConstantsAssumption DEF Again, Entry, DeadEntry, TypeOK
  <2> QED
    BY <1>10, <2>1, <1>a DEF DrainAdd
<1>11. ASSUME NEW l \in drain.todo, DrainDel(l) PROVE Carried(o, n)'
  <2>1. /\ dead' = dead \ {l} /\ Live' = Live /\ crm' = crm /\ gone \subseteq gone'
        /\ redirected' = redirected /\ l \in DeadEntry
    BY <1>11 DEF DrainDel, Live, TypeOK
  <2>2. CASE drain.mode = "drop"
    <3>1. l.order \in gone'
      BY <1>11, <2>2 DEF DrainDel
    <3> QED
      BY <2>1, <3>1 DEF Carried
  <2>3. CASE drain.mode = "retry"
    <3>1. Carried(l.order, l.id)
      BY <1>11, <2>3 DEF DrainDel, DeleteIsSafe
    <3>2. Carried(l.order, l.id)'
      BY <2>1, <3>1, <1>0 DEF Carried, DeadEntry
    <3> QED
      BY <2>1, <3>2, <1>0 DEF Carried, DeadEntry
  <2>4. CASE drain.mode = "none"
    BY <1>11, <2>4 DEF DrainIdle
  <2> QED
    BY <2>2, <2>3, <2>4 DEF TypeOK
<1>12. CASE DrainDies
  BY <1>12, <1>c DEF DrainDies, Live, redis
<1>13. CASE UNCHANGED vars
  BY <1>13, <1>c DEF vars, Live
<1> QED
  BY <1>1, <1>2, <1>3, <1>4, <1>5, <1>6, <1>7, <1>8, <1>9, <1>10, <1>11, <1>12, <1>13
  DEF Next, Work, Operate, Quiet

\* The invariant's parts about ids, entries and letters.
LEMMA NextNumbered == IInv /\ [Next]_vars => Numbered(Live \cup Held)' /\ Numbered(dead \cup drain.todo)'
<1> SUFFICES ASSUME IInv, [Next]_vars
             PROVE  Numbered(Live \cup Held)' /\ Numbered(dead \cup drain.todo)'
  OBVIOUS
<1> USE DEF IInv
<1>0. /\ nextId \in Nat
      /\ Live \cup Held \subseteq Entry /\ dead \cup drain.todo \subseteq DeadEntry
  BY DEF TypeOK, Live, Held
<1>a. ASSUME NEW e \in Entry, e.id = nextId, XAdd(e), e.order \in published',
             published \subseteq published', Held' \subseteq Held
      PROVE  Numbered(Live \cup Held)'
  <2>1. Live' \cup Held' \subseteq Live \cup Held \cup {e} /\ nextId' = nextId + 1
    BY <1>a, XAddTypes DEF Live
  <2>2. Numbered(Live \cup Held)
    OBVIOUS
  <2>3. \A f \in Live \cup Held : f.id \in 1 .. nextId' - 1 /\ f.id # e.id /\ f.order \in published'
    BY <1>a, <1>0, <2>1, <2>2 DEF Numbered
  <2>4. e.id \in 1 .. nextId' - 1
    BY <1>a, <1>0, <2>1 DEF TypeOK
  <2>5. \A f \in Live' \cup Held' : f.id \in 1 .. nextId' - 1 /\ f.order \in published'
    BY <1>a, <2>1, <2>3, <2>4
  <2>6. \A f, g \in Live' \cup Held' : f.id = g.id => f = g
    BY <2>1, <2>2, <2>3 DEF Numbered
  <2> QED
    BY <2>5, <2>6 DEF Numbered
<1>b. ASSUME nextId' \in {nextId, nextId + 1}, published \subseteq published',
             Live' \cup Held' \subseteq Live \cup Held
      PROVE  Numbered(Live \cup Held)'
  BY <1>b, <1>0 DEF Numbered
<1>c. ASSUME nextId' \in {nextId, nextId + 1}, published \subseteq published',
             dead' \cup drain'.todo \subseteq dead \cup drain.todo
      PROVE  Numbered(dead \cup drain.todo)'
  BY <1>c, <1>0 DEF Numbered
<1>d. ASSUME NEW l \in DeadEntry, l.id = nextId, DeadLetter(l), l.order \in published,
             UNCHANGED <<stream, pending, batch, drain, published>>
      PROVE  Numbered(Live \cup Held)' /\ Numbered(dead \cup drain.todo)'
  <2>1. dead' \cup drain'.todo \subseteq dead \cup drain.todo \cup {l} /\ nextId' = nextId + 1
    BY <1>d, DeadLetterTypes
  <2>2. Live' = Live /\ Held' = Held
    BY <1>d DEF Live, Held
  <2>4. \A f \in dead \cup drain.todo :
          f.id \in 1 .. nextId' - 1 /\ f.id # l.id /\ f.order \in published'
    BY <1>d, <1>0, <2>1 DEF Numbered
  <2>5. l.id \in 1 .. nextId' - 1
    BY <1>d, <1>0, <2>1 DEF TypeOK
  <2>6. \A f \in dead' \cup drain'.todo : f.id \in 1 .. nextId' - 1 /\ f.order \in published'
    BY <1>d, <2>1, <2>4, <2>5
  <2>7. \A f, g \in dead' \cup drain'.todo : f.id = g.id => f = g
    BY <2>1, <2>4 DEF Numbered
  <2>3. Numbered(dead \cup drain.todo)'
    BY <2>6, <2>7 DEF Numbered
  <2> QED
    BY <1>b, <1>d, <2>1, <2>2, <2>3
<1>1. ASSUME NEW o \in Order, Publish(o)
      PROVE  Numbered(Live \cup Held)' /\ Numbered(dead \cup drain.todo)'
  <2>1. NewEntry(o) \in Entry /\ NewEntry(o).id = nextId /\ NewEntry(o).order = o
    BY ConstantsAssumption DEF NewEntry, Entry, TypeOK
  <2>2. XAdd(NewEntry(o)) /\ nextId' = nextId + 1 /\ Held' = Held
    BY <1>1 DEF Publish, XAdd, Held, workers
  <2> QED
    BY <1>1, <2>1, <2>2, <1>a, <1>c DEF Publish
<1>2. ASSUME NEW w \in Worker, Poll(w)
      PROVE  Numbered(Live \cup Held)' /\ Numbered(dead \cup drain.todo)'
  <2>1. Live' \cup Held' \subseteq Live \cup Held
    BY <1>2 DEF Poll, Live, Held, TypeOK
  <2> QED
    BY <1>2, <2>1, <1>b, <1>c DEF Poll
<1>3. ASSUME NEW w \in Worker, Recover(w)
      PROVE  Numbered(Live \cup Held)' /\ Numbered(dead \cup drain.todo)'
  <2>1. Live' \cup Held' \subseteq Live \cup Held
    BY <1>3 DEF Recover, redis, Live, Held, TypeOK
  <2> QED
    BY <1>3, <2>1, <1>b, <1>c DEF Recover, redis
<1>4. ASSUME NEW w \in Worker, NEW e \in batch[w], Handle(w, e) \/ Ack(w, e) \/ Crash(w) \/ Restart(w)
      PROVE  Numbered(Live \cup Held)' /\ Numbered(dead \cup drain.todo)'
  <2>1. Live' \cup Held' \subseteq Live \cup Held
    BY <1>4 DEF Handle, Ack, Crash, Restart, redis, Live, Held, TypeOK
  <2> QED
    BY <1>4, <2>1, <1>b, <1>c DEF Handle, Ack, Crash, Restart, redis
<1>5. ASSUME NEW w \in Worker, NEW e \in batch[w], Park(w, e)
      PROVE  Numbered(Live \cup Held)' /\ Numbered(dead \cup drain.todo)'
  <2>1. e \in Entry /\ e.order \in published
    BY DEF TypeOK, Numbered, Held
  <2>2. CASE e.attempt < MaxAttempts /\ XAdd(Again(e, e.attempt + 1)) /\ UNCHANGED dead
    <3>1. /\ Again(e, e.attempt + 1) \in Entry /\ Again(e, e.attempt + 1).id = nextId
          /\ Again(e, e.attempt + 1).order = e.order
      BY <2>1, <2>2, ConstantsAssumption DEF Again, Entry, TypeOK
    <3>2. Held' = Held /\ nextId' = nextId + 1 /\ UNCHANGED <<published, drain>>
      BY <1>5, <2>2 DEF Park, Held, XAdd
    <3> QED
      BY <2>1, <2>2, <3>1, <3>2, <1>a, <1>c
  <2>3. CASE DeadLetter([id |-> nextId, order |-> e.order, intact |-> e.intact])
             /\ UNCHANGED <<stream, pending>>
    BY <1>5, <2>1, <2>3, <1>d DEF Park, Entry, DeadEntry, TypeOK
  <2> QED
    BY <1>5, <2>2, <2>3 DEF Park
<1>6. ASSUME NEW w \in Worker, NEW e \in batch[w], ForceDlq(w, e)
      PROVE  Numbered(Live \cup Held)' /\ Numbered(dead \cup drain.todo)'
  <2>1. [id |-> nextId, order |-> e.order, intact |-> FALSE] \in DeadEntry /\ e.order \in published
    BY DEF Entry, DeadEntry, TypeOK, Numbered, Held
  <2> QED
    BY <1>6, <2>1, <1>d DEF ForceDlq
<1>7. ASSUME NEW w \in Worker, Crash(w) \/ Restart(w)
      PROVE  Numbered(Live \cup Held)' /\ Numbered(dead \cup drain.todo)'
  <2>1. Live' \cup Held' \subseteq Live \cup Held
    BY <1>7 DEF Crash, Restart, redis, Live, Held, TypeOK
  <2> QED
    BY <1>7, <2>1, <1>b, <1>c DEF Crash, Restart, redis
<1>8. ASSUME DrainStart \/ DrainDies
      PROVE  Numbered(Live \cup Held)' /\ Numbered(dead \cup drain.todo)'
  <2>1. Live' = Live /\ Held' = Held /\ UNCHANGED <<nextId, published>>
    BY <1>8 DEF DrainStart, DrainDies, redis, workers, Live, Held
  <2>2. dead' \cup drain'.todo \subseteq dead \cup drain.todo
    BY <1>8 DEF DrainStart, DrainDies, redis, NoDrain
  <2> QED
    BY <2>1, <2>2, <1>b, <1>c
<1>9. ASSUME NEW l \in drain.todo, DrainAdd(l)
      PROVE  Numbered(Live \cup Held)' /\ Numbered(dead \cup drain.todo)'
  <2>1. /\ Again(l, 1) \in Entry /\ Again(l, 1).id = nextId /\ Again(l, 1).order = l.order
        /\ l.order \in published
    BY ConstantsAssumption DEF Again, Entry, DeadEntry, TypeOK, Numbered
  <2>2. Held' = Held /\ nextId' = nextId + 1 /\ UNCHANGED <<published, dead>>
    BY <1>9 DEF DrainAdd, workers, Held, XAdd
  <2>3. drain'.todo = drain.todo
    BY <1>9 DEF DrainAdd, TypeOK
  <2> QED
    BY <1>9, <2>1, <2>2, <2>3, <1>a, <1>c DEF DrainAdd
<1>10. ASSUME NEW l \in drain.todo, DrainDel(l)
      PROVE  Numbered(Live \cup Held)' /\ Numbered(dead \cup drain.todo)'
  <2>1. Live' = Live /\ Held' = Held /\ UNCHANGED <<nextId, published>>
    BY <1>10 DEF DrainDel, workers, Live, Held
  <2>2. dead' \cup drain'.todo \subseteq dead \cup drain.todo
    BY <1>10 DEF DrainDel, TypeOK
  <2> QED
    BY <2>1, <2>2, <1>b, <1>c
<1>11. CASE UNCHANGED vars
  BY <1>11, <1>b, <1>c DEF vars, Live, Held
<1> QED
  BY <1>1, <1>2, <1>3, <1>4, <1>5, <1>6, <1>7, <1>8, <1>9, <1>10, <1>11
  DEF Next, Work, Operate, Quiet

\* No JSON but the order's own is sent for an order that is not given up.
LEMMA NextMangled == IInv /\ [Next]_vars => MangledIsGone'
<1> SUFFICES ASSUME IInv, [Next]_vars PROVE MangledIsGone'  OBVIOUS
<1> USE DEF IInv
<1>a. ASSUME NEW e \in Entry, e.id = nextId, XAdd(e), Held' \subseteq Held
      PROVE  MangledIsGone'
  <2>1. Live' \subseteq Live \cup {e} /\ gone \subseteq gone' /\ (~e.intact => e.order \in gone')
    BY <1>a, XAddTypes DEF Live
  <2> QED
    BY <1>a, <2>1 DEF MangledIsGone
<1>b. ASSUME Live' \cup Held' \subseteq Live \cup Held, gone \subseteq gone'
      PROVE  MangledIsGone'
  BY <1>b DEF MangledIsGone
<1>1. ASSUME NEW o \in Order, Publish(o) PROVE MangledIsGone'
  <2>1. NewEntry(o) \in Entry /\ NewEntry(o).id = nextId
    BY ConstantsAssumption DEF NewEntry, Entry, TypeOK
  <2> QED
    BY <1>1, <2>1, <1>a DEF Publish, workers, Held
<1>2. ASSUME NEW w \in Worker, Poll(w) \/ Recover(w) \/ Crash(w) \/ Restart(w)
      PROVE MangledIsGone'
  <2>1. Live' \cup Held' \subseteq Live \cup Held /\ gone' = gone
    BY <1>2 DEF Poll, Recover, Crash, Restart, redis, Live, Held, TypeOK
  <2> QED
    BY <2>1, <1>b
<1>3. ASSUME NEW w \in Worker, NEW e \in batch[w], Handle(w, e) \/ Ack(w, e)
      PROVE MangledIsGone'
  <2>1. Live' \cup Held' \subseteq Live \cup Held /\ gone' = gone
    BY <1>3 DEF Handle, Ack, redis, Live, Held, TypeOK
  <2> QED
    BY <2>1, <1>b
<1>4. ASSUME NEW w \in Worker, NEW e \in batch[w], Park(w, e) PROVE MangledIsGone'
  <2>1. e \in Entry /\ Held' = Held
    BY <1>4 DEF TypeOK, Park, Held
  <2>2. CASE e.attempt < MaxAttempts /\ XAdd(Again(e, e.attempt + 1)) /\ UNCHANGED dead
    <3>1. Again(e, e.attempt + 1) \in Entry /\ Again(e, e.attempt + 1).id = nextId
      BY <2>1, <2>2, ConstantsAssumption DEF Again, Entry, TypeOK
    <3> QED
      BY <2>1, <2>2, <3>1, <1>a
  <2>3. CASE DeadLetter([id |-> nextId, order |-> e.order, intact |-> e.intact])
             /\ UNCHANGED <<stream, pending>>
    <3>1. gone \subseteq gone'
      BY <2>3 DEF DeadLetter
    <3> QED
      BY <2>1, <2>3, <3>1, <1>b DEF Live
  <2> QED
    BY <1>4, <2>2, <2>3 DEF Park
<1>5. ASSUME NEW w \in Worker, NEW e \in batch[w], ForceDlq(w, e) PROVE MangledIsGone'
  <2>1. Live' = Live /\ Held' = Held /\ gone \subseteq gone'
    BY <1>5 DEF ForceDlq, DeadLetter, Live, Held
  <2> QED
    BY <2>1, <1>b
<1>6. ASSUME NEW l \in drain.todo, DrainAdd(l) PROVE MangledIsGone'
  <2>1. Again(l, 1) \in Entry /\ Again(l, 1).id = nextId
    BY ConstantsAssumption DEF Again, Entry, DeadEntry, TypeOK
  <2> QED
    BY <1>6, <2>1, <1>a DEF DrainAdd, workers, Held
<1>7. ASSUME DrainStart \/ DrainDies \/ (\E l \in drain.todo : DrainDel(l)) \/ UNCHANGED vars
      PROVE MangledIsGone'
  <2>1. Live' = Live /\ Held' = Held /\ gone \subseteq gone'
    BY <1>7 DEF DrainStart, DrainDies, DrainDel, vars, redis, workers, Live, Held
  <2> QED
    BY <2>1, <1>b
<1> QED
  BY <1>1, <1>2, <1>3, <1>4, <1>5, <1>6, <1>7 DEF Next, Work, Operate, Quiet

\* An acknowledgement never takes the last trace of an order.
LEMMA NextAckIsSafe == IInv /\ [Next]_vars => AckIsSafe'
<1> SUFFICES ASSUME IInv, [Next]_vars, NEW v \in Worker, NEW f \in batch'[v],
                    phase'[v] = "ack", First(f, batch'[v])
             PROVE  Carried(f.order, f.id)'
  BY DEF AckIsSafe, First
<1> USE DEF IInv
<1>0. /\ \A e \in Held : e \in Entry /\ e.order \in Order /\ e.id \in Nat /\ e.id < nextId
      /\ Numbered(Held)
  BY DEF TypeOK, Held, Entry, Numbered
<1>a. ASSUME batch'[v] = batch[v], phase'[v] = phase[v] PROVE Carried(f.order, f.id)'
  <2>1. Carried(f.order, f.id)
    BY <1>a DEF AckIsSafe, First
  <2> QED
    BY <1>0, <1>a, <2>1, StillCarried DEF Held
<1>b. ASSUME NEW e \in batch[v], First(e, batch[v]), batch' = batch PROVE f = e
  <2>1. f.id = e.id
    BY <1>0, <1>b DEF First, Held
  <2> QED
    BY <1>0, <1>b, <2>1 DEF Numbered, Held
<1>1. ASSUME UNCHANGED workers PROVE Carried(f.order, f.id)'
  BY <1>1, <1>a DEF workers
<1>2. ASSUME NEW w \in Worker, Poll(w) \/ Recover(w) \/ Crash(w) \/ Restart(w)
      PROVE Carried(f.order, f.id)'
  <2>1. v # w
    BY <1>2 DEF Poll, Recover, Crash, Restart, TypeOK
  <2> QED
    BY <1>2, <2>1, <1>a DEF Poll, Recover, Crash, Restart, TypeOK
<1>3. ASSUME NEW w \in Worker, NEW e \in batch[w], Handle(w, e) PROVE Carried(f.order, f.id)'
  <2>1. CASE v = w
    <3>1. f = e
      BY <1>3, <2>1, <1>b DEF Handle
    <3>2. /\ e.order \in redirected' \/ (e.intact => e.order \in crm')
          /\ gone' = gone /\ Live' = Live
      BY <1>3, <2>1 DEF Handle, TypeOK, redis, Live
    <3>3. ~e.intact => e.order \in gone
      BY DEF MangledIsGone, Held
    <3> QED
      BY <3>1, <3>2, <3>3 DEF Carried
  <2>2. CASE v # w
    BY <1>3, <2>2, <1>a DEF Handle, TypeOK
  <2> QED  BY <2>1, <2>2
<1>4. ASSUME NEW w \in Worker, NEW e \in batch[w], Park(w, e) PROVE Carried(f.order, f.id)'
  <2>1. e \in Entry
    BY DEF TypeOK
  <2>2. CASE v = w
    <3>1. f = e /\ e.id < nextId
      BY <1>0, <1>4, <2>2, <1>b DEF Park, Held
    <3>2. CASE e.attempt < MaxAttempts /\ XAdd(Again(e, e.attempt + 1)) /\ UNCHANGED dead
      <4>1. Again(e, e.attempt + 1) \in Entry /\ Again(e, e.attempt + 1).id = nextId
            /\ Again(e, e.attempt + 1).order = e.order
        BY <2>1, <3>2, ConstantsAssumption DEF Again, Entry, TypeOK
      <4>2. Again(e, e.attempt + 1) \in stream'
        BY <3>2, <4>1, XAddStays
      <4> QED
        BY <3>1, <4>1, <4>2 DEF Carried, Live
    <3>3. CASE DeadLetter([id |-> nextId, order |-> e.order, intact |-> e.intact])
               /\ UNCHANGED <<stream, pending>>
      <4> DEFINE letter == [id |-> nextId, order |-> e.order, intact |-> e.intact]
      <4>1. letter \in DeadEntry /\ letter.id = nextId /\ letter.order = e.order
        BY <2>1 DEF Entry, DeadEntry, TypeOK
      <4> HIDE DEF letter
      <4>2. letter \in dead'
        BY <3>3, <4>1, DeadLetterTypes DEF letter
      <4> QED
        BY <3>1, <4>1, <4>2 DEF Carried
    <3> QED
      BY <1>4, <3>2, <3>3 DEF Park
  <2>3. CASE v # w
    BY <1>4, <2>3, <1>a DEF Park, TypeOK
  <2> QED  BY <2>2, <2>3
<1>5. ASSUME NEW w \in Worker, NEW e \in batch[w], ForceDlq(w, e) PROVE Carried(f.order, f.id)'
  <2>1. CASE v = w
    <3> DEFINE letter == [id |-> nextId, order |-> e.order, intact |-> FALSE]
    <3>1. f = e /\ e.id < nextId
      BY <1>0, <1>5, <2>1, <1>b DEF ForceDlq, Held
    <3>2. letter \in DeadEntry /\ letter.id = nextId /\ letter.order = e.order
      BY DEF Entry, DeadEntry, TypeOK
    <3>3. DeadLetter(letter)
      BY <1>5 DEF ForceDlq
    <3> HIDE DEF letter
    <3>4. letter \in dead'
      BY <3>2, <3>3, DeadLetterTypes
    <3> QED
      BY <3>1, <3>2, <3>4 DEF Carried
  <2>2. CASE v # w
    BY <1>5, <2>2, <1>a DEF ForceDlq, TypeOK
  <2> QED  BY <2>1, <2>2
<1>6. ASSUME NEW w \in Worker, NEW e \in batch[w], Ack(w, e) PROVE Carried(f.order, f.id)'
  <2>1. v # w
    BY <1>6 DEF Ack, TypeOK
  <2> QED
    BY <1>6, <2>1, <1>a DEF Ack, TypeOK
<1> QED
  BY <1>1, <1>2, <1>3, <1>4, <1>5, <1>6
  DEF Next, Work, Operate, Quiet, Publish, DrainStart, DrainAdd, DrainDel, DrainDies, vars, workers

\* Nor does the drain script's XDEL.
LEMMA NextDeleteIsSafe == IInv /\ [Next]_vars => DeleteIsSafe' /\ DrainIdle'
<1> SUFFICES ASSUME IInv, [Next]_vars PROVE DeleteIsSafe' /\ DrainIdle'  OBVIOUS
<1> USE DEF IInv
<1>0. \A l \in drain.todo : l \in DeadEntry /\ l.order \in Order /\ l.id \in Nat /\ l.id < nextId
  BY DEF TypeOK, DeadEntry, Numbered
<1>1. ASSUME UNCHANGED drain PROVE DeleteIsSafe' /\ DrainIdle'
  <2>1. DrainIdle'
    BY <1>1 DEF DrainIdle
  <2>2. DeleteIsSafe'
    BY <1>0, <1>1, StillCarried DEF DeleteIsSafe, First
  <2> QED  BY <2>1, <2>2
<1>2. CASE DrainStart
  BY <1>2 DEF DrainStart, DeleteIsSafe, DrainIdle
<1>3. CASE DrainDies
  BY <1>3 DEF DrainDies, DeleteIsSafe, DrainIdle, NoDrain
<1>4. ASSUME NEW l \in drain.todo, DrainAdd(l) PROVE DeleteIsSafe' /\ DrainIdle'
  <2>1. Again(l, 1) \in Entry /\ Again(l, 1).id = nextId /\ Again(l, 1).order = l.order
    BY ConstantsAssumption DEF Again, Entry, DeadEntry, TypeOK
  <2>2. Again(l, 1) \in stream'
    BY <1>4, <2>1, XAddStays DEF DrainAdd
  <2>3. drain'.todo = drain.todo /\ drain'.mode = drain.mode
    BY <1>4 DEF DrainAdd, TypeOK
  <2>4. Carried(l.order, l.id)'
    BY <1>0, <2>1, <2>2 DEF Carried, Live
  <2>5. \A m \in drain.todo : First(m, drain.todo) => m = l
    BY <1>0, <1>4 DEF DrainAdd, First, Numbered
  <2>6. DrainIdle'
    BY <2>3 DEF DrainIdle
  <2>7. DeleteIsSafe'
    BY <2>3, <2>4, <2>5 DEF DeleteIsSafe, First
  <2> QED  BY <2>6, <2>7
<1>5. ASSUME NEW l \in drain.todo, DrainDel(l) PROVE DeleteIsSafe' /\ DrainIdle'
  <2>1. /\ drain'.todo = drain.todo \ {l} /\ drain'.mode = drain.mode
        /\ drain'.mode = "retry" => drain'.step = "add"
    BY <1>5 DEF DrainDel, TypeOK
  <2> QED
    BY <2>1 DEF DeleteIsSafe, DrainIdle
<1> QED
  BY <1>1, <1>2, <1>3, <1>4, <1>5
  DEF Next, Work, Operate, Quiet, Publish, Poll, Recover, Handle, Park, ForceDlq, Ack, Crash,
      Restart, vars

\* Everything published stays carried.
LEMMA NextCarried == IInv /\ [Next]_vars => \A o \in published' : Carried(o, 0)'
<1> SUFFICES ASSUME IInv, [Next]_vars, NEW o \in published' PROVE Carried(o, 0)'  OBVIOUS
<1> USE DEF IInv
<1>1. CASE o \in published
  <2>1. o \in Order /\ Carried(o, 0)
    BY <1>1 DEF TypeOK
  <2> QED  BY <2>1, StillCarried
<1>2. CASE o \notin published
  <2>1. Publish(o) /\ o \in Order
    BY <1>2 DEF Next, Work, Operate, Quiet, Publish, Poll, Recover, Handle, Park, ForceDlq, Ack,
                Crash, Restart, DrainStart, DrainAdd, DrainDel, DrainDies, vars
  <2>2. /\ NewEntry(o) \in Entry /\ NewEntry(o).id = nextId /\ NewEntry(o).order = o
    BY <2>1, ConstantsAssumption DEF NewEntry, Entry, TypeOK
  <2>3. NewEntry(o) \in stream'
    BY <2>1, <2>2, XAddStays DEF Publish
  <2> QED
    BY <2>2, <2>3 DEF Carried, Live, TypeOK
<1> QED  BY <1>1, <1>2

\* Every step keeps the invariant.
LEMMA NextIInv == IInv /\ [Next]_vars => IInv'
BY NextTypeOK, NextNumbered, NextMangled, NextAckIsSafe, NextDeleteIsSafe, NextCarried DEF IInv

\* The inductive invariant holds in every reachable state.
THEOREM IInvHolds == Spec => []IInv
BY InitIInv, NextIInv, PTL DEF Spec

\* Every state is well typed.
THEOREM TypeCorrect == Spec => []TypeOK
<1>1. IInv => TypeOK
  BY DEF IInv
<1> QED  BY <1>1, IInvHolds, PTL

\* An order that was published is in the CRM, on its way, dead-lettered, given up
\* by a cap or an operator, or was answered with a redirect (which the handler
\* takes for a success), whichever worker dies after which command.
THEOREM NothingIsForgotten == Spec => []NothingForgotten
<1>1. IInv => NothingForgotten
  BY DEF IInv, NothingForgotten, Carried, Owed, Parked
<1> QED  BY <1>1, IInvHolds, PTL

\* Every state of the abstract queue the stream maps to knows every order an
\* entry or a letter names.
LEMMA NamedIsKnown ==
  ASSUME IInv, NEW o \in published
  PROVE  o \in Order /\ Queue!Known(o)
BY DEF IInv, TypeOK, Carried, Owed, Parked, Queue!Known

\* The stream begins as the queue does.
LEMMA InitQueue == Init => Queue!Init
BY DEF Init, Queue!Init, Owed, Parked, Live

\* Each step of the stream is a step of the queue, or changes nothing of it.
LEMMA NextQueue == IInv /\ [Next]_vars => [Queue!Next]_(Queue!queueVars)
<1> SUFFICES ASSUME IInv, [Next]_vars PROVE [Queue!Next]_(Queue!queueVars)  OBVIOUS
<1> USE DEF IInv
<1>a. ASSUME NEW e \in Entry, e.id = nextId, XAdd(e), dead' = dead, UNCHANGED <<crm, redirected>>
      PROVE  Queue!Next
  <2>1. /\ gone \subseteq gone' /\ Live' \subseteq Live \cup {e}
        /\ \A f \in Live : f \in Live' \/ f.order \in gone'
        /\ e.order \in Order
    BY <1>a, XAddTypes DEF Live, Entry
  <2>2. e \in Live'
    BY <1>a, XAddStays DEF Live
  <2>3. Queue!Accept(e.order)
    BY <1>a, <2>1, <2>2 DEF Queue!Accept, Owed, Parked
  <2> QED
    BY <2>1, <2>3 DEF Queue!Next
<1>b. ASSUME NEW l \in DeadEntry, l.id = nextId, DeadLetter(l), l.order \in published,
             UNCHANGED <<stream, pending, crm, redirected>>
      PROVE  Queue!Next
  <2>1. /\ gone \subseteq gone' /\ dead' \subseteq dead \cup {l} /\ l \in dead'
        /\ \A f \in dead : f \in dead' \/ f.order \in gone'
    BY <1>b, DeadLetterTypes
  <2>2. l.order \in Order /\ Queue!Known(l.order)
    BY <1>b, NamedIsKnown
  <2>3. Queue!DeadLetter(l.order)
    BY <1>b, <2>1, <2>2 DEF Queue!DeadLetter, Owed, Parked, Live
  <2> QED
    BY <2>2, <2>3 DEF Queue!Next
<1>c. ASSUME Live' = Live, UNCHANGED <<dead, crm, gone, redirected>> PROVE UNCHANGED Queue!queueVars
  BY <1>c DEF Queue!queueVars, Owed, Parked
<1>1. ASSUME NEW o \in Order, Publish(o) PROVE Queue!Next
  <2>1. NewEntry(o) \in Entry /\ NewEntry(o).id = nextId
    BY ConstantsAssumption DEF NewEntry, Entry, TypeOK
  <2> QED
    BY <1>1, <2>1, <1>a DEF Publish
<1>2. ASSUME NEW w \in Worker, Poll(w) \/ Recover(w) \/ Crash(w) \/ Restart(w)
      PROVE UNCHANGED Queue!queueVars
  <2>1. Live' = Live /\ UNCHANGED <<dead, crm, gone, redirected>>
    BY <1>2 DEF Poll, Recover, Crash, Restart, redis, Live
  <2> QED  BY <2>1, <1>c
<1>3. ASSUME NEW w \in Worker, NEW e \in batch[w], Handle(w, e)
      PROVE Queue!Next \/ UNCHANGED Queue!queueVars
  <2>1. /\ Live' = Live /\ UNCHANGED <<dead, gone>>
        /\ \/ UNCHANGED <<crm, redirected>>
           \/ crm' = crm \cup {e.order} /\ redirected' = redirected
           \/ crm' = crm /\ redirected' = redirected \cup {e.order}
    BY <1>3 DEF Handle, redis, Live
  <2>2. e.order \in Order /\ Queue!Known(e.order)
    BY NamedIsKnown DEF Numbered, Held, TypeOK
  <2>3. CASE UNCHANGED <<crm, redirected>>
    BY <2>1, <2>3, <1>c
  <2>4. CASE crm' = crm \cup {e.order} /\ redirected' = redirected
    BY <2>1, <2>2, <2>4 DEF Queue!Deliver, Queue!Next, Owed, Parked
  <2>5. CASE crm' = crm /\ redirected' = redirected \cup {e.order}
    BY <2>1, <2>2, <2>5 DEF Queue!Redirect, Queue!Next, Owed, Parked
  <2> QED  BY <2>1, <2>3, <2>4, <2>5
<1>4. ASSUME NEW w \in Worker, NEW e \in batch[w], Park(w, e) PROVE Queue!Next
  <2>1. e \in Entry /\ e.order \in published /\ UNCHANGED <<crm, redirected>>
    BY <1>4 DEF TypeOK, Park, Numbered, Held
  <2>2. CASE e.attempt < MaxAttempts /\ XAdd(Again(e, e.attempt + 1)) /\ UNCHANGED dead
    <3>1. Again(e, e.attempt + 1) \in Entry /\ Again(e, e.attempt + 1).id = nextId
      BY <2>1, <2>2, ConstantsAssumption DEF Again, Entry, TypeOK
    <3> QED
      BY <2>1, <2>2, <3>1, <1>a
  <2>3. CASE DeadLetter([id |-> nextId, order |-> e.order, intact |-> e.intact])
             /\ UNCHANGED <<stream, pending>>
    BY <2>1, <2>3, <1>b DEF Entry, DeadEntry, TypeOK
  <2> QED
    BY <1>4, <2>2, <2>3 DEF Park
<1>5. ASSUME NEW w \in Worker, NEW e \in batch[w], ForceDlq(w, e) PROVE Queue!Next
  <2>1. [id |-> nextId, order |-> e.order, intact |-> FALSE] \in DeadEntry /\ e.order \in published
    BY DEF Entry, DeadEntry, TypeOK, Numbered, Held
  <2> QED
    BY <1>5, <2>1, <1>b DEF ForceDlq
<1>6. ASSUME NEW w \in Worker, NEW e \in batch[w], Ack(w, e) PROVE Queue!Next
  <2>1. Live' \subseteq Live /\ UNCHANGED <<dead, crm, gone, redirected, published>>
    BY <1>6 DEF Ack, Live
  <2>2. \A f \in Live : f.order \in published /\ f.order \in Order
    BY DEF Numbered, TypeOK
  <2>3. \A o \in published : Carried(o, 0)'
    BY <2>1, NextCarried
  <2>4. Owed \ Owed' \subseteq crm \cup Parked \cup gone \cup redirected
    BY <2>1, <2>2, <2>3 DEF Owed, Parked, Carried
  <2>5. Queue!Settle
    BY <2>1, <2>4 DEF Queue!Settle, Owed, Parked
  <2> QED
    BY <2>5 DEF Queue!Next
<1>7. ASSUME DrainStart \/ DrainDies \/ UNCHANGED vars PROVE UNCHANGED Queue!queueVars
  BY <1>7, <1>c DEF DrainStart, DrainDies, vars, redis, Live
<1>8. ASSUME NEW l \in drain.todo, DrainAdd(l) PROVE Queue!Next
  <2>1. Again(l, 1) \in Entry /\ Again(l, 1).id = nextId
    BY ConstantsAssumption DEF Again, Entry, DeadEntry, TypeOK
  <2> QED
    BY <1>8, <2>1, <1>a DEF DrainAdd
<1>9. ASSUME NEW l \in drain.todo, DrainDel(l) PROVE Queue!Next
  <2>1. /\ l.order \in published /\ l.order \in Order
        /\ dead' = dead \ {l} /\ gone' \in {gone, gone \cup {l.order}}
        /\ UNCHANGED <<crm, redirected, published, stream, pending>>
    BY <1>9 DEF DrainDel, Numbered, TypeOK
  <2>2. Carried(l.order, 0)'
    BY <2>1, NextCarried
  <2>3. Parked' \in {Parked, Parked \ {l.order}}
    BY <2>1 DEF Parked
  <2>4. l.order \in Owed \cup crm \cup Parked' \cup gone' \cup redirected
    BY <2>1, <2>2 DEF Carried, Owed, Parked, Live
  <2>5. Queue!Unpark(l.order)
    BY <2>1, <2>3, <2>4 DEF Queue!Unpark, Owed, Live
  <2> QED
    BY <2>1, <2>5 DEF Queue!Next
<1> QED
  BY <1>1, <1>2, <1>3, <1>4, <1>5, <1>6, <1>7, <1>8, <1>9 DEF Next, Work, Operate, Quiet

\* The stream, its workers and its drain script implement the queue that
\* forgets nothing but redirected orders.
THEOREM StreamIsAQueue == Spec => QueueSpec
BY InitQueue, NextQueue, IInvHolds, PTL DEF Spec, QueueSpec, Queue!Spec
=============================================================================
