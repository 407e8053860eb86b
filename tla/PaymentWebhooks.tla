-------------------------- MODULE PaymentWebhooks --------------------------
(***************************************************************************)
(* Webhook deliveries of a payment provider against one order              *)
(* (server/modules/payments/webhooks.py, state_machine.py).                *)
(*                                                                         *)
(* The provider sends an event until it is acknowledged, so an event may   *)
(* be handled twice, by two workers at once, and after a later one.  A     *)
(* handler reads the order, decides, and only then writes its status; the  *)
(* admin's form writes it without looking.                                 *)
(***************************************************************************)
EXTENDS Integers, FiniteSets

CONSTANTS
  Handler,         \* requests that may be handling a delivery at one time
  InitialStatuses, \* what the order may be when its first event arrives
  AdminStatuses,   \* what the admin's form may set it to
  MaxCrashes       \* bound: how often a handler dies

\* OrderState, and the other statuses an order can have (admin.py).
OrderState  == {"pending", "payment_pending", "paid", "failed", "cancelled", "refunded"}
OtherStatus == {"queued", "processing", "completed", "shipped"}
Status      == OrderState \cup OtherStatus
Terminal    == {"paid", "failed", "cancelled", "refunded"}

ASSUME WebhookAssumption ==
  /\ InitialStatuses \subseteq Status
  /\ AdminStatuses \subseteq Status
  /\ MaxCrashes \in Nat

\* PaymentEventKind
Kind == {"succeeded", "failed", "cancelled", "refunded", "pending"}

VARIABLES
  status,   \* orders.status, committed
  intent,   \* the provider's side: what has become of the payment
  outbox,   \* events the provider has not seen acknowledged
  handler,  \* what each handler is doing
  told,     \* the states OCI events have told of
  crashes,
  reached,  \* history: the terminal states the order has been in
  overtaken \* history: has a decision been made on a status that was then replaced?

vars == <<status, intent, outbox, handler, told, crashes, reached, overtaken>>

\* at: the next operation; target: the state decided on.
Idle     == [at |-> "idle"]
Handling ==
  [at: {"read"}, event: Kind \ {"pending"}] \cup [at: {"answer"}, event: Kind]
    \cup [at: {"write", "emit"}, event: Kind \ {"pending"}, target: Terminal]

Init ==
  /\ status \in InitialStatuses
  /\ intent = "open" /\ outbox = {}
  /\ handler = [h \in Handler |-> Idle]
  /\ told = {}
  /\ crashes = 0
  /\ reached = {status} \cap Terminal
  /\ overtaken = FALSE
----------------------------------------------------------------------------
\* The provider (external): a payment may fail and be tried again, succeed and
\* be refunded, or be cancelled; each time an event is sent.
Happens(from, to, kind) ==
  /\ intent = from /\ intent' = to
  /\ outbox' = outbox \cup {kind}
  /\ UNCHANGED <<status, handler, told, crashes, reached, overtaken>>

ProviderActs ==
  \/ Happens("open", "open", "pending")
  \/ Happens("open", "open", "failed")
  \/ Happens("open", "succeeded", "succeeded")
  \/ Happens("succeeded", "refunded", "refunded")
  \/ Happens("open", "cancelled", "cancelled")
----------------------------------------------------------------------------
\* The handler

Target_PendingPays ==
  [kind \in Kind |-> IF kind \in {"succeeded", "pending"} THEN "paid" ELSE kind]

\* _event_kind_to_target_state; a "pending" event, which only informs, has none.
Target == [kind \in Kind \ {"pending"} |-> IF kind = "succeeded" THEN "paid" ELSE kind]

Legal_RefundUnpaid(current, target) ==
  target = "refunded" \/ <<current, target>> = <<"payment_pending", "paid">>

Legal_Reopened(current, target) ==
  current \in {"payment_pending", "failed"} \/ <<current, target>> = <<"paid", "refunded">>

\* _LEGAL_TRANSITIONS
Legal(current, target) ==
  <<current, target>> \in
    {<<"pending", "payment_pending">>, <<"pending", "cancelled">>,
     <<"payment_pending", "paid">>, <<"payment_pending", "failed">>,
     <<"payment_pending", "cancelled">>, <<"paid", "refunded">>}

Current_AlwaysOpen == "payment_pending"

\* A status that is no OrderState is taken for PENDING.
Current == IF status \in OrderState THEN status ELSE "pending"

\* A delivery arrives.  An informational event changes nothing.
Deliver(h, kind) ==
  /\ handler[h] = Idle /\ kind \in outbox
  /\ handler' = [handler EXCEPT ![h] =
       [at |-> IF kind \in DOMAIN Target THEN "read" ELSE "answer", event |-> kind]]
  /\ UNCHANGED <<status, intent, outbox, told, crashes, reached, overtaken>>

\* _find_order_by_provider_reference and transition: an illegal change, or none
\* at all, is acknowledged too.
Read(h) ==
  LET event  == handler[h].event
      target == Target[event] IN
  /\ handler[h].at = "read"
  /\ handler' = [handler EXCEPT ![h] =
       IF Legal(Current, target) /\ target # Current
       THEN [at |-> "write", event |-> event, target |-> target]
       ELSE [at |-> "answer", event |-> event]]
  /\ UNCHANGED <<status, intent, outbox, told, crashes, reached, overtaken>>

Write_NotCommitted(h) ==
  /\ handler[h].at = "write"
  /\ handler' = [handler EXCEPT ![h].at = "emit"]
  /\ UNCHANGED <<status, intent, outbox, told, crashes, reached, overtaken>>

\* UPDATE orders SET status, WHERE id, and the commit.
Write(h) ==
  /\ handler[h].at = "write"
  /\ status' = handler[h].target
  /\ reached' = reached \cup ({status'} \cap Terminal)
  /\ overtaken' = (overtaken \/ \E g \in Handler \ {h} : handler[g].at = "write")
  /\ handler' = [handler EXCEPT ![h].at = "emit"]
  /\ UNCHANGED <<intent, outbox, told, crashes>>

\* emit_order_state_change, whose failure is logged and no more.
Emit(h) ==
  /\ handler[h].at = "emit"
  /\ \/ told' = told \cup {handler[h].target}
     \/ UNCHANGED told
  /\ handler' = [handler EXCEPT ![h] = [at |-> "answer", event |-> @.event]]
  /\ UNCHANGED <<status, intent, outbox, crashes, reached, overtaken>>

Answer_Error(h) ==
  /\ handler[h].at = "answer"
  /\ outbox' = IF handler[h].event = status THEN outbox \ {handler[h].event} ELSE outbox
  /\ handler' = [handler EXCEPT ![h] = Idle]
  /\ UNCHANGED <<status, intent, told, crashes, reached, overtaken>>

\* 200: the provider stops retrying.
Answer(h) ==
  /\ handler[h].at = "answer"
  /\ outbox' = outbox \ {handler[h].event}
  /\ handler' = [handler EXCEPT ![h] = Idle]
  /\ UNCHANGED <<status, intent, told, crashes, reached, overtaken>>

\* The worker dies or loses its connection: no answer reaches the provider, and
\* what was not committed is gone.
Crash(h) ==
  /\ handler[h] # Idle /\ crashes < MaxCrashes
  /\ crashes' = crashes + 1
  /\ handler' = [handler EXCEPT ![h] = Idle]
  /\ UNCHANGED <<status, intent, outbox, told, reached, overtaken>>

\* PUT /api/admin/orders: the status of the form, whatever the order's is.
AdminSaves ==
  /\ status' \in AdminStatuses
  /\ reached' = reached \cup ({status'} \cap Terminal)
  /\ overtaken' = TRUE
  /\ UNCHANGED <<intent, outbox, handler, told, crashes>>

Step(h) == Read(h) \/ Write(h) \/ Emit(h) \/ Answer(h)

Next ==
  \/ ProviderActs
  \/ AdminSaves
  \/ \E h \in Handler : (\E kind \in Kind : Deliver(h, kind)) \/ Step(h) \/ Crash(h)

Spec == Init /\ [][Next]_vars

\* Handlers go on, and the provider delivers again what is not acknowledged.
Fairness ==
  /\ \A h \in Handler : WF_vars(Step(h))
  /\ \A kind \in Kind : SF_vars(\E h \in Handler : Deliver(h, kind))

FairSpec == Spec /\ Fairness
----------------------------------------------------------------------------

\* Every variable is of its type: among others, a handler decides on
\* a terminal state, whatever status it reads (receive_webhook).
TypeOK ==
  /\ status \in Status
  /\ intent \in {"open", "succeeded", "refunded", "cancelled"}
  /\ outbox \subseteq Kind
  /\ handler \in [Handler -> {Idle} \cup Handling]
  /\ told \subseteq Terminal
  /\ crashes \in 0 .. MaxCrashes
  /\ reached \subseteq Terminal
  /\ overtaken \in BOOLEAN

\* An order becomes paid only when the provider has taken the money, however
\* the events of one payment overtake one another (receive_webhook).
PaidWasCharged ==
  [][status' # status /\ status' = "paid" => intent \in {"succeeded", "refunded"}]_vars

\* An order is refunded only if it has been paid, also when the refund is
\* delivered first or two handlers are at work (transition).
RefundedWasPaid == "refunded" \in reached => "paid" \in reached

\* An OCI event tells only of what has been committed (receive_webhook), though
\* by the time it is sent another handler or the admin may have changed it.
EmittedWasCommitted == told \subseteq reached

\* The provider stops retrying: every delivery is acknowledged in the end, legal
\* or not ("ack anyway so they stop retrying"), since handlers seldom die.
EveryEventAnswered == \A kind \in Kind : []<>(kind \notin outbox)

\* "Terminal states (paid/failed/cancelled/refunded) are sinks - the only
\* exception is paid -> refunded" (state_machine.py).
SinksHold ==
  [][/\ status \in {"failed", "cancelled", "refunded"} => status' = status
     /\ status = "paid" => status' \in {"paid", "refunded"}]_vars

\* So they are, redeliveries and deaths included, until a status is replaced under a
\* handler that has decided by it (receive_webhook), or by the admin.
SinksHoldUntilOvertaken ==
  [][\/ overtaken \/ AdminSaves
     \/ /\ status \in {"failed", "cancelled", "refunded"} => status' = status
        /\ status = "paid" => status' \in {"paid", "refunded"}]_vars

\* "Self-transitions are no-ops so duplicate webhook deliveries are idempotent"
\* (payments/README.md): up to then no state is told of twice, be it delivered again
\* after a lost answer or to two handlers.
ToldOnceUntilOvertaken ==
  [][\A h \in Handler : Emit(h) /\ handler[h].target \in told => overtaken]_vars
----------------------------------------------------------------------------
\* The inductive invariant of the order's history: a handler that is to tell of a
\* state has committed it, and, unless somebody declares it refunded by hand, one
\* that is to write a refund has read a paid order.
NoRefundByHand == "refunded" \notin InitialStatuses \cup AdminStatuses

StatusReached == {status} \cap Terminal \subseteq reached

DecidedOnWhatWas ==
  \A h \in Handler : handler[h].at = "write" /\ handler[h].target = "refunded" => "paid" \in reached

CommittedBeforeTold == \A h \in Handler : handler[h].at = "emit" => handler[h].target \in reached

IInv ==
  /\ TypeOK
  /\ StatusReached
  /\ CommittedBeforeTold
  /\ EmittedWasCommitted
  /\ NoRefundByHand => DecidedOnWhatWas /\ RefundedWasPaid

\* And that of the payment: a success is known only once it has happened.
NoPaymentByHand == "paid" \notin AdminStatuses

SuccessHappened ==
  /\ "succeeded" \in outbox => intent \in {"succeeded", "refunded"}
  /\ \A h \in Handler :
       /\ handler[h].at # "idle" /\ handler[h].event = "succeeded" => intent \in {"succeeded", "refunded"}
       /\ handler[h].at = "write" => handler[h].target = Target[handler[h].event]

\* That of what is decided, told and still to be told, until a decision is overtaken:
\* decisions are legal still, the states to tell are each to be told by one handler, and
\* only one is ever told of that a refund can follow.
DecisionsStand ==
  \A h \in Handler : handler[h].at = "write" =>
    /\ Legal(Current, handler[h].target)
    /\ handler[h].target \notin reached

TellersDiffer ==
  \A h \in Handler : handler[h].at = "emit" =>
    /\ handler[h].target \notin told
    /\ \A g \in Handler \ {h} : handler[g].at = "emit" => handler[g].target # handler[h].target

OneReached ==
  /\ status \notin Terminal => reached = {}
  /\ status = "paid" => reached = {"paid"}

StandInv == overtaken \/ (DecisionsStand /\ TellersDiffer /\ OneReached)
=============================================================================
