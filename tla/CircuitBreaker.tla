-------------------------- MODULE CircuitBreaker ---------------------------
(***************************************************************************)
(* The circuit breaker in front of the CRM and the calls it admits         *)
(* (server/middleware/circuit_breaker.py, server/modules/integrations.py). *)
(*                                                                         *)
(* The callers are coroutines of one event loop.  A call asks the breaker  *)
(* and, if admitted, waits for the CRM; what it records when it resumes    *)
(* finds the breaker in whatever state the other calls have left it.       *)
(* The breaker's own methods run without a pause.                          *)
(***************************************************************************)
EXTENDS Integers, FiniteSets

CONSTANTS
  Caller,          \* requests that may be calling the CRM at one time
  Threshold,       \* failure_threshold
  RecoveryTimeout, \* recovery_timeout, in ticks
  HalfOpenMax      \* half_open_max

ASSUME BreakerAssumption ==
  /\ IsFiniteSet(Caller)
  /\ Threshold \in Nat \ {0}
  /\ RecoveryTimeout \in Nat \ {0}
  /\ HalfOpenMax \in Nat \ {0}

VARIABLES
  breaker,  \* the fields of the CircuitBreaker object
  call,     \* [Caller -> {"idle", "customers", "order"}]: the CRM call it waits for
  healthy,  \* the CRM answers every request, and the shop's database too
  streak,   \* history: failures recorded since the last success, up to Threshold
  probes,   \* history: the waiting calls admitted in the present HALF_OPEN period
  silent    \* history: one of them has come back and recorded nothing

vars == <<breaker, call, healthy, streak, probes, silent>>

State == {"closed", "open", "half_open"}

\* age is the time since _last_failure_time, and failureCount the failure
\* count: neither is compared with anything above its bound, where both stop.
Breaker == [state: State, failureCount: 0 .. Threshold, age: 0 .. RecoveryTimeout,
            halfOpenCalls: 0 .. HalfOpenMax]

OneMore(n) == IF n < Threshold THEN n + 1 ELSE Threshold

Init ==
  /\ breaker = [state |-> "closed", failureCount |-> 0, age |-> RecoveryTimeout,
                halfOpenCalls |-> 0]
  /\ call = [c \in Caller |-> "idle"]
  /\ healthy \in BOOLEAN
  /\ streak = 0 /\ probes = {} /\ silent = FALSE
----------------------------------------------------------------------------
\* The methods of CircuitBreaker

Observed_AtOnce(b) ==
  IF b.state = "open" THEN [b EXCEPT !.state = "half_open", !.halfOpenCalls = 0] ELSE b

Observed_KeepsSlots(b) ==
  IF b.state = "open" /\ b.age >= RecoveryTimeout THEN [b EXCEPT !.state = "half_open"] ELSE b

\* Reading the state property moves an OPEN breaker whose time has come.
Observed(b) ==
  IF b.state = "open" /\ b.age >= RecoveryTimeout
  THEN [b EXCEPT !.state = "half_open", !.halfOpenCalls = 0]
  ELSE b

\* allow_request, for a breaker just observed.
Allows(b) == b.state = "closed" \/ (b.state = "half_open" /\ b.halfOpenCalls < HalfOpenMax)

Slotted_Uncounted(b) == b

Slotted(b) == IF b.state = "half_open" THEN [b EXCEPT !.halfOpenCalls = @ + 1] ELSE b

AfterSuccess_AnyState(b) == [b EXCEPT !.state = "closed", !.failureCount = 0]

\* record_success
AfterSuccess(b) ==
  CASE b.state = "half_open" -> [b EXCEPT !.state = "closed", !.failureCount = 0]
    [] b.state = "closed"    -> [b EXCEPT !.failureCount = 0]
    [] b.state = "open"      -> b

AfterFailure_TripsEarly(b) ==
  [b EXCEPT !.failureCount = OneMore(@), !.age = 0,
            !.state = IF b.state = "half_open" \/ OneMore(b.failureCount) >= Threshold - 1
                      THEN "open" ELSE @]

\* record_failure
AfterFailure(b) ==
  [b EXCEPT !.failureCount = OneMore(@), !.age = 0,
            !.state = IF b.state = "half_open" \/ OneMore(b.failureCount) >= Threshold
                      THEN "open" ELSE @]
----------------------------------------------------------------------------
\* The callers

\* The calls of the present HALF_OPEN period, of those given, after a step.
Probing(waiting) ==
  IF breaker'.state # "half_open" THEN {}
  ELSE IF breaker.state = "half_open" THEN waiting \cap (probes \cup {c \in Caller : call[c] = "idle"})
  ELSE {c \in waiting : call[c] = "idle"}

\* sync_customers_from_crm and sync_order_to_crm ask the breaker; a refused
\* caller returns.  (A customer sync less than five minutes old asks nothing.)
Ask(c, kind) ==
  LET b == Observed(breaker) IN
  /\ call[c] = "idle"
  /\ IF Allows(b)
     THEN /\ breaker' = Slotted(b)
          /\ call' = [call EXCEPT ![c] = kind]
          /\ probes' = Probing(probes \cup {c})
     ELSE /\ breaker' = b
          /\ probes' = Probing(probes)
          /\ UNCHANGED call
  /\ UNCHANGED <<healthy, streak, silent>>

\* What a call can record.  A customer sync records an exception as a failure,
\* the database's too, and any answer as a success, whatever its status.  An
\* order sync records nothing when the customer can be neither found nor
\* created, or has no address or id, and records both when the CRM accepts the
\* order in a body that is no JSON.
Outcomes(kind) ==
  IF kind = "customers"
  THEN IF healthy THEN {"success"} ELSE {"success", "failure"}
  ELSE IF healthy THEN {"success", "nothing"} ELSE {"success", "failure", "nothing", "both"}

Answer(c, outcome) ==
  /\ call[c] # "idle" /\ outcome \in Outcomes(call[c])
  /\ \/ outcome = "success" /\ breaker' = AfterSuccess(breaker) /\ streak' = 0
     \/ outcome = "failure" /\ breaker' = AfterFailure(breaker) /\ streak' = OneMore(streak)
     \/ outcome = "nothing" /\ UNCHANGED <<breaker, streak>>
     \/ outcome = "both" /\ breaker' = AfterFailure(AfterSuccess(breaker)) /\ streak' = OneMore(0)
  /\ call' = [call EXCEPT ![c] = "idle"]
  /\ probes' = Probing(probes \ {c})
  /\ silent' = (breaker'.state = "half_open" /\ (silent \/ c \in probes))
  /\ UNCHANGED healthy

\* status(), for the dashboards and the integration endpoints.
ReadStatus ==
  /\ breaker' = Observed(breaker)
  /\ probes' = Probing(probes)
  /\ UNCHANGED <<call, healthy, streak, silent>>
----------------------------------------------------------------------------
\* The surroundings

Tick ==
  /\ breaker.age < RecoveryTimeout
  /\ breaker' = [breaker EXCEPT !.age = @ + 1]
  /\ UNCHANGED <<call, healthy, streak, probes, silent>>

ChangeHealth == healthy' = ~healthy /\ UNCHANGED <<breaker, call, streak, probes, silent>>

AskAny(c) == \E kind \in {"customers", "order"} : Ask(c, kind)

AnswerAny(c) == \E outcome \in {"success", "failure", "nothing", "both"} : Answer(c, outcome)

Next == (\E c \in Caller : AskAny(c) \/ AnswerAny(c)) \/ ReadStatus \/ Tick \/ ChangeHealth

\* Time passes, every call ends (the HTTP clients have timeouts), and the shop
\* has visitors: its storefront and its checkout call the CRM.
Fairness ==
  /\ WF_vars(Tick)
  /\ \A c \in Caller : WF_vars(AskAny(c)) /\ WF_vars(AnswerAny(c))

Spec == Init /\ [][Next]_vars

FairSpec == Spec /\ Fairness
----------------------------------------------------------------------------

TypeOK ==
  /\ breaker \in Breaker
  /\ call \in [Caller -> {"idle", "customers", "order"}]
  /\ healthy \in BOOLEAN
  /\ streak \in 0 .. Threshold
  /\ probes \subseteq {c \in Caller : call[c] # "idle"}
  /\ silent \in BOOLEAN

\* The breaker trips only on failure_threshold consecutive failures ("CLOSED ->
\* OPEN (%d consecutive failures)"), late answers to calls admitted before an
\* earlier trip and its recovery included (record_failure, record_success).
TripsOnStreak ==
  [][breaker.state = "closed" /\ breaker'.state = "open" => streak' = Threshold]_vars

\* A call begins on a breaker that is not CLOSED only when nothing has failed
\* for the whole recovery timeout (allow_request, state).
ShelterAfterFailure ==
  [][\A c \in Caller : call[c] = "idle" /\ call'[c] # "idle" /\ breaker.state # "closed" =>
       breaker.age = RecoveryTimeout]_vars

\* No HALF_OPEN period has more than half_open_max probes waiting, whichever
\* calls of earlier periods are still on their way (allow_request).
ProbesBounded == Cardinality(probes) <= HalfOpenMax

\* A late success does not close an OPEN breaker, and no trip or recovery skips
\* a state (record_success, record_failure, state).
OnlyDrawnTransitions ==
  [][breaker'.state # breaker.state =>
       <<breaker.state, breaker'.state>> \in
          {<<"closed", "open">>, <<"open", "half_open">>,
           <<"half_open", "closed">>, <<"half_open", "open">>}]_vars

\* All the probes of the period have come back, one of them without recording
\* anything, and none with an answer that decides.
ProbesSpent ==
  /\ breaker.state = "half_open" /\ breaker.halfOpenCalls = HalfOpenMax
  /\ probes = {} /\ silent

\* Once the CRM is well for good the breaker closes, unless its probes are
\* spent (allow_request, record_success).
Recovers == <>[]healthy => []<>(breaker.state = "closed" \/ ProbesSpent)

\* "OPEN -> HALF_OPEN -> CLOSED": a HALF_OPEN breaker leaves the state with its
\* probe's answer, good or bad.
HalfOpenEnds == breaker.state = "half_open" ~> breaker.state # "half_open"

\* "HALF_OPEN --> CLOSED: probe succeeds": a recovery is the answer to a call
\* that was admitted as a probe.
ProbeDecides ==
  [][breaker.state = "half_open" /\ breaker'.state = "closed" =>
       \E c \in probes : call'[c] = "idle"]_vars
----------------------------------------------------------------------------
\* The inductive invariant: the failure count of a CLOSED breaker is a streak,
\* nothing has failed since a HALF_OPEN period could begin, and each waiting
\* probe holds one of its slots.
CountsAStreak == breaker.state = "closed" => breaker.failureCount = streak

RestedWhenHalfOpen == breaker.state = "half_open" => breaker.age = RecoveryTimeout

ProbesHoldSlots ==
  /\ breaker.state # "half_open" => probes = {}
  /\ Cardinality(probes) <= breaker.halfOpenCalls

IInv == TypeOK /\ CountsAStreak /\ RestedWhenHalfOpen /\ ProbesHoldSlots
=============================================================================
