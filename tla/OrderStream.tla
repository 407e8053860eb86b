---------------------------- MODULE OrderStream ----------------------------
(***************************************************************************)
(* The asynchronous way of an order to the CRM: the shop puts it on a      *)
(* Redis stream (order_sync_async.py), workers of one consumer group read, *)
(* handle and acknowledge entries (services/async-worker), failed entries  *)
(* are put back or dead-lettered, and an operator drains the dead letters  *)
(* (dlq_drain.py).  Workers die between any two Redis commands and leave   *)
(* their entries pending; another worker claims what has been pending for  *)
(* a while, which may be an entry whose worker is only slow.               *)
(***************************************************************************)
EXTENDS Integers, FiniteSets

CONSTANTS
  Order,
  Worker,
  MaxAttempts,   \* max_delivery_attempts
  BatchSize,     \* count_per_poll
  MaxLen,        \* cap of the stream; an XADD may trim down to it
  DlqMaxLen,     \* cap of the dead-letter stream
  MaxFaults      \* bound: workers and operators that die, claims of entries a
                 \* live worker holds, and runs of the drain script

ASSUME ConstantsAssumption ==
  /\ MaxAttempts \in Nat \ {0} /\ BatchSize \in Nat \ {0}
  /\ MaxLen \in Nat \ {0} /\ DlqMaxLen \in Nat \ {0}
  /\ MaxFaults \in Nat

\* An entry's payload is intact unless it is no longer the JSON of the order.
Entry == [id: Nat, order: Order, attempt: 1 .. MaxAttempts, intact: BOOLEAN]

DeadEntry == [id: Nat, order: Order, intact: BOOLEAN]

VARIABLES
  published,  \* the orders the shop has put on the stream
  \* Redis
  stream,     \* entries of octo.orders.to-sync not yet delivered to the group
  pending,    \* entries delivered, neither acknowledged nor trimmed
  dead,       \* the entries of octo.orders.to-sync.dlq
  nextId,     \* ids grow, over both streams
  \* the workers
  batch,      \* the events a worker has read and not finished
  phase,      \* what it does next with the first of them
  \* the operator's drain script
  drain,      \* its mode, the dead letters left to treat, and its next command
  \* outside
  crm,        \* the orders the CRM has
  gone,       \* history: orders an entry of which was trimmed, dropped or mangled
  redirected, \* history: orders whose POST the CRM answered with a redirect
  faults

redis   == <<stream, pending, dead, nextId>>
workers == <<batch, phase>>
vars    == <<published, stream, pending, dead, nextId, batch, phase, drain, crm, gone,
             redirected, faults>>

NoDrain == [mode |-> "none", todo |-> {}, step |-> "add"]

Init ==
  /\ published = {}
  /\ stream = {} /\ pending = {} /\ dead = {} /\ nextId = 1
  /\ batch = [w \in Worker |-> {}]
  /\ phase = [w \in Worker |-> "ready"]
  /\ drain = NoDrain
  /\ crm = {} /\ gone = {} /\ redirected = {}
  /\ faults = 0
----------------------------------------------------------------------------
\* Redis

Live == stream \cup pending

\* XADD with MAXLEN ~: once MaxLen entries were written older ones may be cut
\* off, delivered or not; an acknowledged entry that is cut makes no difference,
\* and XAUTOCLAIM forgets a pending one.  The payload is what the caller has: an
\* order put on the stream in another form is not the order any more.
XAdd(e) ==
  /\ nextId' = nextId + 1
  /\ \E cut \in {{}} \cup {{f \in Live : f.id <= n} : n \in 1 .. nextId - MaxLen} :
       /\ stream' = (stream \cup {e}) \ cut
       /\ pending' = pending \ cut
       /\ gone' = gone \cup {f.order : f \in cut} \cup (IF e.intact THEN {} ELSE {e.order})

\* _event_body: the fields of an event or a letter, for another entry.
Again(e, attempt) ==
  [id |-> nextId, order |-> e.order, attempt |-> attempt, intact |-> e.intact]

\* The first of a worker's events: they are handled in the order of their ids.
First(e, S) == e \in S /\ \A f \in S : e.id <= f.id
----------------------------------------------------------------------------
\* The shop

NewEntry(o) == [id |-> nextId, order |-> o, attempt |-> 1, intact |-> TRUE]

\* publish_order_for_async_sync and the XADD of EventPublisher.  A publish that
\* fails reports it and changes nothing; one whose answer is lost is this one.
Publish(o) ==
  /\ o \notin published
  /\ XAdd(NewEntry(o))
  /\ published' = published \cup {o}
  /\ UNCHANGED <<dead, workers, drain, crm, redirected, faults>>
----------------------------------------------------------------------------
\* The workers

\* XREADGROUP ">": the next entries of the stream, to this worker only.
Poll(w) ==
  /\ phase[w] = "ready" /\ batch[w] = {}
  /\ \E T \in SUBSET stream :
       /\ T # {} /\ Cardinality(T) <= BatchSize
       /\ \A f \in stream \ T : Cardinality(T) = BatchSize /\ \A e \in T : e.id < f.id
       /\ batch' = [batch EXCEPT ![w] = T]
       /\ pending' = pending \cup T
       /\ stream' = stream \ T
  /\ UNCHANGED <<published, dead, nextId, phase, drain, crm, gone, redirected, faults>>

Held == UNION {batch[w] : w \in Worker}

\* An entry is claimed from a live worker when a slow batch made it idle.
Steals(T) ==
  \/ T \cap Held = {} /\ UNCHANGED faults
  \/ T \cap Held # {} /\ faults < MaxFaults /\ faults' = faults + 1

Recover_Forgets(w) ==
  /\ phase[w] = "ready" /\ batch[w] = {}
  /\ \E T \in SUBSET pending :
       /\ T # {}
       /\ Steals(T)
  /\ UNCHANGED <<published, redis, batch, phase, drain, crm, gone, redirected>>

\* recover_pending, every twentieth poll: XAUTOCLAIM hands this worker what has
\* been pending for 60 seconds, whoever has it.
Recover(w) ==
  /\ phase[w] = "ready" /\ batch[w] = {}
  /\ \E T \in SUBSET pending :
       /\ T # {}
       /\ Steals(T)
       /\ batch' = [batch EXCEPT ![w] = T]
  /\ UNCHANGED <<published, redis, phase, drain, crm, gone, redirected>>

\* The handler's POST to the CRM.  4xx (not 429) is refused for good; 429, 5xx
\* and silence are retried, and of these the CRM may have the order.  Anything
\* else is logged as a success: 2xx, and a redirect, which httpx does not follow.
Handle(w, e) ==
  /\ phase[w] = "ready" /\ First(e, batch[w])
  /\ \E outcome \in {"ok", "redirected", "refused", "failed"} :
       /\ phase' = [phase EXCEPT ![w] =
            CASE outcome = "refused" -> "refuse" [] outcome = "failed" -> "park" [] OTHER -> "ack"]
       /\ redirected' = IF outcome = "redirected" THEN redirected \cup {e.order} ELSE redirected
       /\ LET sent == IF e.intact THEN {e.order} ELSE {} IN
          crm' \in CASE outcome = "ok"     -> {crm \cup sent}
                     [] outcome = "failed" -> {crm, crm \cup sent}
                     [] OTHER              -> {crm}
  /\ UNCHANGED <<published, redis, batch, drain, gone, faults>>

\* A dead letter; the cap of the dead-letter stream cuts the oldest.
DeadLetter(letter) ==
  /\ nextId' = nextId + 1
  /\ \E cut \in {{}} \cup {{l \in dead : l.id <= n} : n \in 1 .. nextId - DlqMaxLen} :
       /\ dead' = (dead \cup {letter}) \ cut
       /\ gone' = gone \cup {l.order : l \in cut}

Park_AcksFirst(w, e) ==
  /\ phase[w] = "park" /\ First(e, batch[w])
  /\ IF e \in pending
     THEN pending' = pending \ {e} /\ UNCHANGED <<stream, nextId, gone, phase>>
     ELSE /\ XAdd(Again(e, e.attempt))
          /\ phase' = [phase EXCEPT ![w] = "ack"]
  /\ UNCHANGED <<published, dead, batch, drain, crm, redirected, faults>>

\* park_for_retry_or_dlq up to its XACK: the event goes back on the stream with
\* one attempt more, or to the dead letters after the last.
Park(w, e) ==
  /\ phase[w] = "park" /\ First(e, batch[w])
  /\ \/ /\ e.attempt < MaxAttempts
        /\ XAdd(Again(e, e.attempt + 1))
        /\ UNCHANGED dead
     \/ /\ e.attempt = MaxAttempts
        /\ DeadLetter([id |-> nextId, order |-> e.order, intact |-> e.intact])
        /\ UNCHANGED <<stream, pending>>
  /\ phase' = [phase EXCEPT ![w] = "ack"]
  /\ UNCHANGED <<published, batch, drain, crm, redirected, faults>>

\* _force_dlq up to its XACK.  It writes str(payload), which is not JSON: what
\* is read back from this letter is no longer the order.
ForceDlq(w, e) ==
  /\ phase[w] = "refuse" /\ First(e, batch[w])
  /\ DeadLetter([id |-> nextId, order |-> e.order, intact |-> FALSE])
  /\ phase' = [phase EXCEPT ![w] = "ack"]
  /\ UNCHANGED <<published, stream, pending, batch, drain, crm, redirected, faults>>

\* XACK, whoever the entry is pending for.
Ack(w, e) ==
  /\ phase[w] = "ack" /\ First(e, batch[w])
  /\ pending' = pending \ {e}
  /\ batch' = [batch EXCEPT ![w] = @ \ {e}]
  /\ phase' = [phase EXCEPT ![w] = "ready"]
  /\ UNCHANGED <<published, stream, dead, nextId, drain, crm, gone, redirected, faults>>

\* The pod dies, or a Redis command fails: nothing in the loop catches it.
Crash(w) ==
  /\ phase[w] # "down" /\ faults < MaxFaults
  /\ faults' = faults + 1
  /\ phase' = [phase EXCEPT ![w] = "down"]
  /\ batch' = [batch EXCEPT ![w] = {}]
  /\ UNCHANGED <<published, redis, drain, crm, gone, redirected>>

Restart(w) ==
  /\ phase[w] = "down"
  /\ phase' = [phase EXCEPT ![w] = "ready"]
  /\ UNCHANGED <<published, redis, batch, drain, crm, gone, redirected, faults>>
----------------------------------------------------------------------------
\* The drain script

DrainStart_DeletesFirst ==
  /\ drain.todo = {} /\ dead # {} /\ faults < MaxFaults
  /\ faults' = faults + 1
  /\ drain' = [mode |-> "retry", todo |-> dead, step |-> "del"]
  /\ UNCHANGED <<published, redis, workers, crm, gone, redirected>>

\* XRANGE: the letters there are now.  Mode "list" only prints them.
DrainStart ==
  /\ drain.todo = {} /\ dead # {} /\ faults < MaxFaults
  /\ faults' = faults + 1
  /\ \E mode \in {"retry", "drop"} :
       drain' = [mode |-> mode, todo |-> dead, step |-> IF mode = "retry" THEN "add" ELSE "del"]
  /\ UNCHANGED <<published, redis, workers, crm, gone, redirected>>

\* Mode "retry": the letter's fields go back on the stream as they are.
DrainAdd(l) ==
  /\ drain.step = "add" /\ First(l, drain.todo)
  /\ XAdd(Again(l, 1))
  /\ drain' = [drain EXCEPT !.step = "del"]
  /\ UNCHANGED <<published, dead, workers, crm, redirected, faults>>

\* XDEL of the letter, after it was put back or as mode "drop".
DrainDel(l) ==
  /\ drain.step = "del" /\ First(l, drain.todo)
  /\ dead' = dead \ {l}
  /\ gone' = IF drain.mode = "drop" THEN gone \cup {l.order} ELSE gone
  /\ drain' = [drain EXCEPT !.todo = @ \ {l}, !.step = IF drain.mode = "retry" THEN "add" ELSE "del"]
  /\ UNCHANGED <<published, stream, pending, nextId, workers, crm, redirected, faults>>

DrainDies ==
  /\ drain.todo # {} /\ faults < MaxFaults
  /\ faults' = faults + 1
  /\ drain' = NoDrain
  /\ UNCHANGED <<published, redis, workers, crm, gone, redirected>>
----------------------------------------------------------------------------
Work(w) ==
  \/ Poll(w)
  \/ \E e \in batch[w] : Handle(w, e) \/ Park(w, e) \/ ForceDlq(w, e) \/ Ack(w, e)

Operate == DrainStart \/ DrainDies \/ \E l \in drain.todo : DrainAdd(l) \/ DrainDel(l)

\* Everything is settled and nobody has anything to do.
Quiet ==
  /\ Live = {}
  /\ \A w \in Worker : batch[w] = {}
  /\ UNCHANGED vars

Next ==
  \/ \E o \in Order : Publish(o)
  \/ \E w \in Worker : Work(w) \/ Recover(w) \/ Crash(w) \/ Restart(w)
  \/ Operate
  \/ Quiet

\* The loop of a worker goes on and comes to its recovery pass; the deployment
\* starts a dead worker again.
Fairness ==
  \A w \in Worker : WF_vars(Work(w)) /\ WF_vars(Recover(w)) /\ WF_vars(Restart(w))

Spec == Init /\ [][Next]_vars

FairSpec == Spec /\ Fairness
----------------------------------------------------------------------------
TypeOK ==
  /\ published \subseteq Order
  /\ stream \subseteq Entry
  /\ dead \subseteq DeadEntry
  /\ nextId \in Nat \ {0}
  /\ pending \subseteq Entry
  /\ batch \in [Worker -> SUBSET Entry]
  /\ phase \in [Worker -> {"ready", "park", "refuse", "ack", "down"}]
  /\ drain \in [mode: {"none", "retry", "drop"}, todo: SUBSET DeadEntry, step: {"add", "del"}]
  /\ crm \subseteq Order /\ gone \subseteq Order /\ redirected \subseteq Order
  /\ faults \in Nat

Owed   == {e.order : e \in Live}
Parked == {l.order : l \in dead}

\* An order the shop was told is queued is never forgotten: the CRM has it, an
\* entry of it is still to be handled, it is a dead letter, it was cut off by a
\* cap, dropped by an operator, or put back from a letter _force_dlq had
\* mangled, or the CRM has answered its POST with a redirect.  So XADD before
\* XACK, in every path that parks an entry, loses nothing when the worker dies
\* between the two or another has claimed it.
NothingForgotten ==
  \A o \in published : o \in crm \cup Owed \cup Parked \cup gone \cup redirected

\* Entries claimed twice, put back twice, trimmed, drained: every step is one
\* the queue allows (OrderQueue).
Queue == INSTANCE OrderQueue WITH owed <- Owed, delivered <- crm, parked <- Parked, gone <- gone
QueueSpec == Queue!Spec

\* However workers fail, the stream is worked off: the attempts of an entry are
\* bounded, and what a dead worker left pending is claimed.
StreamDrains == <>[](Owed = {})
----------------------------------------------------------------------------
\* The inductive invariant.  Whoever is about to acknowledge or delete entry n
\* of an order can rely on the CRM (its redirect too), on gone, or on an entry or
\* a letter that is younger than n: younger ones never rely on older ones, so no
\* two workers can each drop an entry because of the other's.
Carried(o, n) ==
  \/ o \in crm \cup gone \cup redirected
  \/ \E e \in Live \cup dead : e.order = o /\ e.id > n

AckIsSafe ==
  \A w \in Worker : \A e \in batch[w] :
    phase[w] = "ack" /\ First(e, batch[w]) => Carried(e.order, e.id)

DeleteIsSafe ==
  \A l \in drain.todo :
    drain.mode = "retry" /\ drain.step = "del" /\ First(l, drain.todo) => Carried(l.order, l.id)

DrainIdle == drain.mode = "none" => drain.todo = {}

\* Ids are given once, and everything was published.
Numbered(S) ==
  /\ \A e \in S : e.id \in 1 .. nextId - 1 /\ e.order \in published
  /\ \A e, f \in S : e.id = f.id => e = f

\* What is not the order's JSON any more came from a mangled letter.
MangledIsGone == \A e \in Live \cup Held : ~e.intact => e.order \in gone

IInv ==
  /\ TypeOK
  /\ Numbered(Live \cup Held)
  /\ Numbered(dead \cup drain.todo)
  /\ MangledIsGone
  /\ AckIsSafe
  /\ DeleteIsSafe
  /\ DrainIdle
  /\ \A o \in published : Carried(o, 0)
=============================================================================
