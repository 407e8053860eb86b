----------------------- MODULE PaymentWebhooksProofs -----------------------
(***************************************************************************)
(* PaymentWebhooks.tla for any number of handlers and crashes, whatever    *)
(* the order's status at first and whatever else the admin may set.        *)
(***************************************************************************)
EXTENDS PaymentWebhooks, TLAPS

\* A handler at work holds an event, and a decision while it writes and tells.
LEMMA HandlerTyped ==
  ASSUME TypeOK, NEW h \in Handler
  PROVE  /\ handler[h] \in {Idle} \cup Handling
         /\ handler[h].at \in {"idle", "read", "write", "emit", "answer"}
         /\ handler[h].at = "idle" <=> handler[h] = Idle
         /\ handler[h].at # "idle" => handler[h].event \in Kind
         /\ handler[h].at = "read" => handler[h].event \in DOMAIN Target
         /\ handler[h].at \in {"write", "emit"} =>
              /\ handler[h] \in [at: {"write", "emit"}, event: Kind \ {"pending"}, target: Terminal]
              /\ handler[h].event \in DOMAIN Target
              /\ handler[h].target \in Terminal
  BY DEF TypeOK, Idle, Handling, Target

\* A legal change of an event's is to a terminal state, and only a paid order is
\* refunded.
LEMMA LegalChanges ==
  ASSUME NEW current, NEW event \in DOMAIN Target, Legal(current, Target[event])
  PROVE  /\ Target[event] \in Terminal
         /\ Target[event] = "refunded" => current = "paid"
         /\ Target[event] = "paid" => event = "succeeded"
  BY DEF Legal, Target, Terminal, Kind

\* A handler that has read the order either answers or has decided on a legal
\* change from the order's state.
LEMMA ReadDecides ==
  ASSUME TypeOK, NEW h \in Handler, Read(h)
  PROVE  \E next \in Handling :
           /\ handler' = [handler EXCEPT ![h] = next]
           /\ next.event = handler[h].event
           /\ next.at \in {"answer", "write"}
           /\ next.at = "write" =>
                /\ next.target = Target[next.event] /\ Legal(Current, next.target)
                /\ next.target = "refunded" => status = "paid"
<1> DEFINE event == handler[h].event
           stop  == [at |-> "answer", event |-> event]
           go    == [at |-> "write", event |-> event, target |-> Target[event]]
<1>1. event \in DOMAIN Target /\ event \in Kind
  BY HandlerTyped DEF Read
<1>2. CASE Legal(Current, Target[event]) /\ Target[event] # Current
  <2>1. handler' = [handler EXCEPT ![h] = go]
    BY <1>2 DEF Read
  <2>2. go \in Handling
    BY <1>1, <1>2, LegalChanges DEF Handling, Target
  <2>3. Target[event] = "refunded" => Current = "paid"
    BY <1>1, <1>2, LegalChanges
  <2>4. Current = "paid" => status = "paid"
    BY DEF Current
  <2>5. go.event = event /\ go.at = "write" /\ go.target = Target[event]
    OBVIOUS
  <2> HIDE DEF go
  <2> QED
    BY <1>2, <2>1, <2>2, <2>3, <2>4, <2>5
<1>3. CASE ~ (Legal(Current, Target[event]) /\ Target[event] # Current)
  <2>1. handler' = [handler EXCEPT ![h] = stop]
    BY <1>3 DEF Read
  <2>2. stop \in Handling
    BY <1>1 DEF Handling
  <2> QED
    BY <2>1, <2>2
<1> QED
  BY <1>2, <1>3

\* Every handler's step keeps the types.
LEMMA StepTyped ==
  ASSUME TypeOK, NEW h \in Handler, Step(h)
  PROVE  TypeOK'
<1>1. CASE Read(h)
  <2>1. PICK next \in Handling : handler' = [handler EXCEPT ![h] = next]
    BY <1>1, ReadDecides
  <2> QED
    BY <1>1, <2>1 DEF Read, TypeOK
<1>2. CASE Write(h)
  <2>1. /\ handler[h] \in [at: {"write", "emit"}, event: Kind \ {"pending"}, target: Terminal]
        /\ handler[h].target \in Status
    BY <1>2, HandlerTyped DEF Write, Terminal, Status, OrderState
  <2>2. [handler[h] EXCEPT !.at = "emit"] \in Handling
    BY <2>1 DEF Handling
  <2> QED
    BY <1>2, <2>1, <2>2 DEF Write, TypeOK
<1>3. CASE Emit(h)
  <2>1. handler[h].event \in Kind /\ handler[h].target \in Terminal
    BY <1>3, HandlerTyped DEF Emit
  <2>2. [at |-> "answer", event |-> handler[h].event] \in Handling
    BY <2>1 DEF Handling
  <2> QED
    BY <1>3, <2>1, <2>2 DEF Emit, TypeOK
<1>4. CASE Answer(h)
  BY <1>4 DEF Answer, TypeOK
<1> QED
  BY <1>1, <1>2, <1>3, <1>4 DEF Step

\* So does everything else.
LEMMA NextTyped == TypeOK /\ [Next]_vars => TypeOK'
<1> SUFFICES ASSUME TypeOK, [Next]_vars PROVE TypeOK'
  OBVIOUS
<1>1. CASE UNCHANGED vars
  BY <1>1 DEF vars, TypeOK
<1>2. CASE ProviderActs
  BY <1>2 DEF ProviderActs, Happens, TypeOK, Kind
<1>3. CASE AdminSaves
  BY <1>3, WebhookAssumption DEF AdminSaves, TypeOK, WebhookAssumption
<1>4. ASSUME NEW h \in Handler, NEW kind \in Kind, Deliver(h, kind) PROVE TypeOK'
  <2>1. [at |-> IF kind \in DOMAIN Target THEN "read" ELSE "answer", event |-> kind] \in Handling
    BY DEF Handling, Target
  <2> QED
    BY <1>4, <2>1 DEF Deliver, TypeOK
<1>5. ASSUME NEW h \in Handler, Crash(h) PROVE TypeOK'
  BY <1>5, WebhookAssumption DEF Crash, TypeOK, WebhookAssumption
<1> QED
  BY <1>1, <1>2, <1>3, <1>4, <1>5, StepTyped DEF Next

\* The tables and the handlers start well typed, and nothing is overtaken.
LEMMA InitTyped == Init => TypeOK /\ ~overtaken
<1> SUFFICES ASSUME Init PROVE TypeOK /\ ~overtaken
  OBVIOUS
<1>1. overtaken \in BOOLEAN /\ ~overtaken
  BY Zenon DEF Init
<1>2. /\ status \in Status
      /\ intent = "open"
      /\ outbox \subseteq Kind
      /\ handler \in [Handler -> {Idle} \cup Handling]
      /\ told \subseteq Terminal
      /\ crashes \in 0 .. MaxCrashes
      /\ reached \subseteq Terminal
  BY WebhookAssumption DEF Init, WebhookAssumption
<1> QED
  BY <1>1, <1>2, Zenon DEF TypeOK

\* Every variable keeps its type: whatever status a handler reads, it decides on
\* a terminal state (receive_webhook).
THEOREM TypeCorrect == Spec => []TypeOK
  BY InitTyped, NextTyped, PTL DEF Spec
----------------------------------------------------------------------------
\* A handler's step keeps what the history says of the handlers.
LEMMA StepRemembers ==
  ASSUME IInv, NEW h \in Handler, Step(h)
  PROVE  IInv'
<1>0. TypeOK /\ TypeOK'
  BY StepTyped DEF IInv
<1>1. CASE Read(h)
  <2>1. PICK next \in Handling :
          /\ handler' = [handler EXCEPT ![h] = next]
          /\ next.at \in {"answer", "write"}
          /\ next.at = "write" /\ next.target = "refunded" => status = "paid"
    BY <1>0, <1>1, ReadDecides
  <2>2. status = "paid" => "paid" \in reached
    BY DEF IInv, StatusReached, Terminal
  <2>3. UNCHANGED <<status, told, reached>>
    BY <1>1 DEF Read
  <2>4. (NoRefundByHand => DecidedOnWhatWas') /\ CommittedBeforeTold'
    BY <1>0, <2>1, <2>2, <2>3 DEF IInv, TypeOK, DecidedOnWhatWas, CommittedBeforeTold
  <2> QED
    BY <1>0, <2>3, <2>4 DEF IInv, StatusReached, EmittedWasCommitted, RefundedWasPaid
<1>2. CASE Write(h)
  <2>1. /\ handler[h].at = "write" /\ handler' = [handler EXCEPT ![h].at = "emit"]
        /\ status' = handler[h].target /\ told' = told
        /\ handler[h].target \in Terminal
    BY <1>0, <1>2, HandlerTyped DEF Write
  <2>2. reached' = reached \cup {handler[h].target}
    BY <1>2, <2>1 DEF Write
  <2>3. handler'[h].at = "emit" /\ handler'[h].target = handler[h].target
    BY <1>0, <2>1, HandlerTyped DEF TypeOK
  <2>4. NoRefundByHand => RefundedWasPaid'
    BY <2>1, <2>2 DEF IInv, DecidedOnWhatWas, RefundedWasPaid
  <2>5. (NoRefundByHand => DecidedOnWhatWas') /\ CommittedBeforeTold'
    BY <1>0, <2>1, <2>2, <2>3 DEF IInv, TypeOK, DecidedOnWhatWas, CommittedBeforeTold
  <2> QED
    BY <1>0, <2>1, <2>2, <2>4, <2>5 DEF IInv, StatusReached, EmittedWasCommitted
<1>3. CASE Emit(h)
  BY <1>0, <1>3
     DEF IInv, TypeOK, Emit, StatusReached, DecidedOnWhatWas, CommittedBeforeTold,
         EmittedWasCommitted, RefundedWasPaid
<1>4. CASE Answer(h)
  BY <1>0, <1>4
     DEF IInv, TypeOK, Answer, Idle, StatusReached, DecidedOnWhatWas, CommittedBeforeTold,
         EmittedWasCommitted, RefundedWasPaid
<1> QED
  BY <1>1, <1>2, <1>3, <1>4 DEF Step

\* So does everything else.
LEMMA NextRemembers ==
  ASSUME IInv, [Next]_vars
  PROVE  IInv'
<1>0. TypeOK /\ TypeOK'
  BY NextTyped DEF IInv
<1> USE DEF IInv, StatusReached, DecidedOnWhatWas, CommittedBeforeTold, EmittedWasCommitted,
            RefundedWasPaid
<1>1. CASE UNCHANGED vars
  BY <1>0, <1>1 DEF vars
<1>2. CASE ProviderActs
  BY <1>0, <1>2 DEF ProviderActs, Happens
<1>3. CASE AdminSaves
  BY <1>0, <1>3 DEF AdminSaves, NoRefundByHand
<1>4. ASSUME NEW h \in Handler, NEW kind \in Kind, Deliver(h, kind) PROVE IInv'
  <2>1. handler' = [handler EXCEPT ![h] =
          [at |-> IF kind \in DOMAIN Target THEN "read" ELSE "answer", event |-> kind]]
    BY <1>4 DEF Deliver
  <2> QED
    BY <1>0, <1>4, <2>1 DEF Deliver, TypeOK
<1>5. ASSUME NEW h \in Handler, Crash(h) PROVE IInv'
  BY <1>0, <1>5 DEF Crash, TypeOK, Idle
<1>6. ASSUME NEW h \in Handler, Step(h) PROVE IInv'
  BY <1>6, StepRemembers
<1> QED
  BY <1>1, <1>2, <1>3, <1>4, <1>5, <1>6 DEF Next

\* The invariant holds at first.
LEMMA InitRemembers == Init => IInv
  BY InitTyped
     DEF Init, IInv, Idle, NoRefundByHand, StatusReached, DecidedOnWhatWas, CommittedBeforeTold,
         EmittedWasCommitted, RefundedWasPaid

\* An order is refunded only if it has been paid, however many handlers are at
\* work and however often they die, unless the admin says so (transition).
THEOREM OnlyPaidIsRefunded ==
  ASSUME NoRefundByHand
  PROVE  Spec => []RefundedWasPaid
<1>1. Init => IInv
  BY InitRemembers
<1>2. IInv /\ [Next]_vars => IInv'
  BY NextRemembers
<1>3. IInv => RefundedWasPaid
  BY DEF IInv
<1> QED
  BY <1>1, <1>2, <1>3, PTL DEF Spec

\* OCI events tell only of states the order has been in (receive_webhook).
THEOREM OnlyCommittedIsTold == Spec => []EmittedWasCommitted
<1>1. Init => IInv
  BY InitRemembers
<1>2. IInv /\ [Next]_vars => IInv'
  BY NextRemembers
<1>3. IInv => EmittedWasCommitted
  BY DEF IInv
<1> QED
  BY <1>1, <1>2, <1>3, PTL DEF Spec
----------------------------------------------------------------------------
\* A handler knows of a success only if the provider has taken the money.
LEMMA SuccessKept ==
  ASSUME TypeOK, SuccessHappened, [Next]_vars
  PROVE  SuccessHappened'
<1>1. CASE UNCHANGED vars
  BY <1>1 DEF vars, SuccessHappened
<1>2. CASE ProviderActs
  BY <1>2 DEF ProviderActs, Happens, SuccessHappened
<1>3. CASE AdminSaves
  BY <1>3 DEF AdminSaves, SuccessHappened
<1>4. ASSUME NEW h \in Handler, NEW kind \in Kind, Deliver(h, kind) PROVE SuccessHappened'
  <2>1. handler' = [handler EXCEPT ![h] =
          [at |-> IF kind \in DOMAIN Target THEN "read" ELSE "answer", event |-> kind]]
    BY <1>4 DEF Deliver
  <2> QED
    BY <1>4, <2>1 DEF Deliver, TypeOK, SuccessHappened
<1>5. ASSUME NEW h \in Handler, Crash(h) PROVE SuccessHappened'
  BY <1>5 DEF Crash, TypeOK, Idle, SuccessHappened
<1>6. ASSUME NEW h \in Handler, Read(h) PROVE SuccessHappened'
  <2>1. PICK next \in Handling :
          /\ handler' = [handler EXCEPT ![h] = next]
          /\ next.event = handler[h].event
          /\ next.at = "write" => next.target = Target[next.event]
    BY <1>6, ReadDecides
  <2> QED
    BY <1>6, <2>1 DEF Read, TypeOK, SuccessHappened
<1>7. ASSUME NEW h \in Handler, Write(h) PROVE SuccessHappened'
  <2>1. handler'[h].at = "emit" /\ handler'[h].event = handler[h].event
    BY <1>7, HandlerTyped DEF Write, TypeOK
  <2> QED
    BY <1>7, <2>1 DEF Write, TypeOK, SuccessHappened
<1>8. ASSUME NEW h \in Handler, Emit(h) PROVE SuccessHappened'
  BY <1>8 DEF Emit, TypeOK, SuccessHappened
<1>9. ASSUME NEW h \in Handler, Answer(h) PROVE SuccessHappened'
  BY <1>9 DEF Answer, TypeOK, Idle, SuccessHappened
<1> QED
  BY <1>1, <1>2, <1>3, <1>4, <1>5, <1>6, <1>7, <1>8, <1>9 DEF Next, Step

\* An order becomes paid only when the provider has taken the money, unless the
\* admin says so: whatever the order of the events and the deaths between them.
THEOREM OnlyChargedIsPaid ==
  ASSUME NoPaymentByHand
  PROVE  Spec => PaidWasCharged
<1> DEFINE Paying == status' # status /\ status' = "paid" => intent \in {"succeeded", "refunded"}
<1>1. Init => TypeOK /\ SuccessHappened
  BY InitTyped DEF Init, Idle, SuccessHappened
<1>2. TypeOK /\ SuccessHappened /\ [Next]_vars => TypeOK' /\ SuccessHappened'
  BY NextTyped, SuccessKept
<1>3. TypeOK /\ SuccessHappened /\ [Next]_vars => [Paying]_vars
  <2> SUFFICES ASSUME TypeOK, SuccessHappened, Next, status' # status, status' = "paid"
               PROVE  intent \in {"succeeded", "refunded"}
    BY DEF vars
  <2>1. ~ AdminSaves
    BY DEF AdminSaves, NoPaymentByHand
  <2>2. PICK h \in Handler : Write(h)
    BY <2>1 DEF Next, ProviderActs, Happens, Deliver, Step, Read, Emit, Answer, Crash
  <2>3. /\ handler[h].at = "write" /\ handler[h].event \in DOMAIN Target
        /\ Target[handler[h].event] = "paid"
    BY <2>2, HandlerTyped DEF Write, SuccessHappened
  <2>4. handler[h].event = "succeeded"
    BY <2>3 DEF Target, Kind
  <2> QED
    BY <2>2, <2>3, <2>4 DEF SuccessHappened
<1> QED
  BY <1>1, <1>2, <1>3, PTL DEF Spec, PaidWasCharged
----------------------------------------------------------------------------
\* The legal changes of an undisturbed order: none from a sink, and from a paid order
\* only a refund.
LEMMA LegalFrom ==
  ASSUME NEW target, Legal(Current, target)
  PROVE  /\ status \notin {"failed", "cancelled", "refunded"}
         /\ status = "paid" => target = "refunded"
         /\ target = "paid" => status \notin Terminal
         /\ status \notin Terminal \/ status = "paid"
  BY DEF Legal, Current, OrderState, Terminal

\* Nothing else than a handler's write and the admin's form replaces a status.
LEMMA StatusChanges ==
  ASSUME [Next]_vars, status' # status
  PROVE  AdminSaves \/ \E h \in Handler : Write(h)
  BY DEF Next, vars, ProviderActs, Happens, Deliver, Step, Read, Emit, Answer, Crash

\* A write that overtakes no decision leaves none open, tells of a state that is new,
\* and is the first to reach it.
LEMMA WriteStands ==
  ASSUME IInv, DecisionsStand, TellersDiffer, OneReached, NEW h \in Handler, Write(h), ~overtaken'
  PROVE  DecisionsStand' /\ TellersDiffer' /\ OneReached'
<1> DEFINE target == handler[h].target
<1>1. /\ handler[h].at = "write" /\ status' = target /\ told' = told
      /\ handler' = [handler EXCEPT ![h].at = "emit"]
      /\ \A g \in Handler \ {h} : handler[g].at # "write"
  BY DEF Write
<1>2. target \in Terminal /\ reached' = reached \cup {target}
  BY <1>1, HandlerTyped DEF IInv, Write
<1>3. handler'[h].at = "emit" /\ handler'[h].target = target
  BY <1>1, HandlerTyped DEF IInv, TypeOK
<1>4. \A g \in Handler \ {h} : handler'[g] = handler[g]
  BY <1>1 DEF IInv, TypeOK
<1>5. Legal(Current, target) /\ target \notin reached
  BY <1>1 DEF DecisionsStand
<1> HIDE DEF target
<1>6. DecisionsStand'
  BY <1>1, <1>3, <1>4 DEF DecisionsStand
<1>7. TellersDiffer'
  <2>1. target \notin told
    BY <1>5 DEF IInv, EmittedWasCommitted
  <2>2. \A g \in Handler \ {h} : handler[g].at = "emit" => handler[g].target # target
    BY <1>5 DEF IInv, CommittedBeforeTold
  <2> QED
    BY <1>1, <1>3, <1>4, <2>1, <2>2 DEF TellersDiffer
<1>8. OneReached'
  <2>1. target = "paid" => reached = {}
    BY <1>5, LegalFrom DEF OneReached
  <2> QED
    BY <1>1, <1>2, <2>1 DEF OneReached
<1> QED
  BY <1>6, <1>7, <1>8

\* What has been overtaken stays so.
LEMMA OvertakenStays == overtaken /\ [Next]_vars => overtaken'
<1> SUFFICES ASSUME overtaken, [Next]_vars PROVE overtaken'
  OBVIOUS
<1>1. CASE UNCHANGED overtaken
  BY <1>1, Zenon
<1>2. CASE AdminSaves
  BY <1>2, Zenon DEF AdminSaves
<1>3. ASSUME NEW h \in Handler, Write(h) PROVE overtaken'
  BY <1>3, Zenon DEF Write
<1> QED
  BY <1>1, <1>2, <1>3 DEF Next, vars, ProviderActs, Happens, Deliver, Step, Read, Emit, Answer,
     Crash

\* Every step keeps what stands until a decision is overtaken.
LEMMA StandKept == IInv /\ StandInv /\ [Next]_vars => StandInv'
<1> SUFFICES ASSUME IInv, StandInv, [Next]_vars, ~overtaken'
             PROVE  DecisionsStand' /\ TellersDiffer' /\ OneReached'
  BY DEF StandInv
<1>0. TypeOK /\ ~overtaken
  BY OvertakenStays DEF IInv
<1>a. DecisionsStand /\ TellersDiffer /\ OneReached
  BY <1>0 DEF StandInv
<1>1. CASE UNCHANGED vars \/ ProviderActs
  BY <1>1, <1>a DEF vars, ProviderActs, Happens, DecisionsStand, TellersDiffer, OneReached, Current
<1>2. CASE AdminSaves
  BY <1>2 DEF AdminSaves
<1>3. ASSUME NEW h \in Handler, UNCHANGED <<status, told, reached>>,
             \A g \in Handler \ {h} : handler'[g] = handler[g],
             handler'[h].at \notin {"write", "emit"}
      PROVE  DecisionsStand' /\ TellersDiffer' /\ OneReached'
  BY <1>3, <1>a DEF DecisionsStand, TellersDiffer, OneReached, Current
<1>4. ASSUME NEW h \in Handler, NEW kind \in Kind, Deliver(h, kind)
      PROVE  DecisionsStand' /\ TellersDiffer' /\ OneReached'
  <2>1. handler'[h].at \in {"read", "answer"} /\ \A g \in Handler \ {h} : handler'[g] = handler[g]
    BY <1>0, <1>4 DEF Deliver, TypeOK
  <2> QED
    BY <1>3, <1>4, <2>1 DEF Deliver
<1>5. ASSUME NEW h \in Handler, Answer(h) \/ Crash(h)
      PROVE  DecisionsStand' /\ TellersDiffer' /\ OneReached'
  BY <1>0, <1>3, <1>5 DEF Answer, Crash, TypeOK, Idle
<1>6. ASSUME NEW h \in Handler, Read(h)
      PROVE  DecisionsStand' /\ TellersDiffer' /\ OneReached'
  <2>1. PICK next \in Handling :
          /\ handler' = [handler EXCEPT ![h] = next]
          /\ next.at \in {"answer", "write"}
          /\ next.at = "write" => Legal(Current, next.target)
    BY <1>0, <1>6, ReadDecides
  <2>2. next.at = "write" => next.target \notin reached
    BY <1>a, <2>1, LegalFrom DEF OneReached
  <2>3. handler'[h] = next /\ \A g \in Handler \ {h} : handler'[g] = handler[g]
    BY <1>0, <2>1 DEF TypeOK
  <2>4. UNCHANGED <<status, told, reached>>
    BY <1>6 DEF Read
  <2> QED
    BY <1>a, <2>1, <2>2, <2>3, <2>4 DEF DecisionsStand, TellersDiffer, OneReached, Current
<1>7. ASSUME NEW h \in Handler, Emit(h)
      PROVE  DecisionsStand' /\ TellersDiffer' /\ OneReached'
  <2>1. /\ UNCHANGED <<status, reached>>
        /\ handler[h].at = "emit" /\ told' \subseteq told \cup {handler[h].target}
    BY <1>7 DEF Emit
  <2>2. handler'[h].at = "answer" /\ \A g \in Handler \ {h} : handler'[g] = handler[g]
    BY <1>0, <1>7 DEF Emit, TypeOK
  <2> QED
    BY <1>a, <2>1, <2>2 DEF DecisionsStand, TellersDiffer, OneReached, Current
<1>8. ASSUME NEW h \in Handler, Write(h)
      PROVE  DecisionsStand' /\ TellersDiffer' /\ OneReached'
  BY <1>a, <1>8, WriteStands
<1> QED
  BY <1>1, <1>2, <1>4, <1>5, <1>6, <1>7, <1>8 DEF Next, Step

\* It stands at first.
LEMMA InitStands == Init => StandInv
<1> SUFFICES ASSUME Init PROVE DecisionsStand /\ TellersDiffer /\ OneReached
  BY DEF StandInv
<1>1. reached = {status} \cap Terminal /\ \A h \in Handler : handler[h].at = "idle"
  BY DEF Init, Idle
<1> QED
  BY <1>1 DEF DecisionsStand, TellersDiffer, OneReached, Terminal

\* Terminal states are sinks for any number of handlers, deaths and redeliveries, as long
\* as no status is replaced under a handler that has decided by it.
THEOREM SinksStand == Spec => SinksHoldUntilOvertaken
<1> DEFINE Sinks == \/ overtaken \/ AdminSaves
                    \/ /\ status \in {"failed", "cancelled", "refunded"} => status' = status
                       /\ status = "paid" => status' \in {"paid", "refunded"}
<1>1. IInv /\ StandInv /\ [Next]_vars => [Sinks]_vars
  <2> SUFFICES ASSUME IInv, StandInv, [Next]_vars, ~overtaken, ~AdminSaves, status' # status
               PROVE  /\ status \notin {"failed", "cancelled", "refunded"}
                      /\ status = "paid" => status' = "refunded"
    OBVIOUS
  <2>1. PICK h \in Handler : Write(h)
    BY StatusChanges
  <2>2. Legal(Current, status')
    BY <2>1 DEF StandInv, DecisionsStand, Write
  <2> QED
    BY <2>2, LegalFrom
<1> QED
  BY <1>1, InitRemembers, NextRemembers, InitStands, StandKept, PTL
     DEF Spec, SinksHoldUntilOvertaken

\* And no state is told of twice.
THEOREM ToldOnceStands == Spec => ToldOnceUntilOvertaken
<1> DEFINE Once == \A h \in Handler : Emit(h) /\ handler[h].target \in told => overtaken
<1>1. StandInv => [Once]_vars
  BY DEF StandInv, TellersDiffer, Emit
<1> QED
  BY <1>1, InitRemembers, NextRemembers, InitStands, StandKept, PTL
     DEF Spec, ToldOnceUntilOvertaken
=============================================================================
