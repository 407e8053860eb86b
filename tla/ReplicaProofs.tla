--------------------------- MODULE ReplicaProofs ---------------------------
(***************************************************************************)
(* The two parts of the shop that are about its processes and not its      *)
(* requests: CircuitBreaker.tla, the breaker of one process, for any       *)
(* number of callers, any threshold, recovery timeout and number of        *)
(* probes; and Startup.tla, the start of any number of replicas on one     *)
(* database as some release left it, with any bounds on orders and deaths. *)
(* The two share nothing but the process.                                  *)
(***************************************************************************)
EXTENDS CircuitBreaker, Startup, FiniteSetTheorems, TLAPS

\* The methods return breakers, and observing one only moves it to HALF_OPEN.
LEMMA MethodsTyped ==
  ASSUME NEW b \in Breaker
  PROVE  /\ Observed(b) \in Breaker /\ AfterSuccess(b) \in Breaker /\ AfterFailure(b) \in Breaker
         /\ Allows(b) => Slotted(b) \in Breaker
<1>1. /\ b.state \in State /\ b.failureCount \in 0 .. Threshold
      /\ b.age \in 0 .. RecoveryTimeout /\ b.halfOpenCalls \in 0 .. HalfOpenMax
      /\ 0 \in 0 .. Threshold /\ 0 \in 0 .. RecoveryTimeout /\ 0 \in 0 .. HalfOpenMax
      /\ OneMore(b.failureCount) \in 0 .. Threshold
  BY BreakerAssumption DEF BreakerAssumption, Breaker, OneMore
<1>2. Observed(b) \in Breaker
  <2>1. [b EXCEPT !.state = "half_open", !.halfOpenCalls = 0] \in Breaker
    BY <1>1 DEF Breaker, State
  <2> QED
    BY <2>1 DEF Observed
<1>3. AfterSuccess(b) \in Breaker
  <2>1. /\ [b EXCEPT !.state = "closed", !.failureCount = 0] \in Breaker
        /\ [b EXCEPT !.failureCount = 0] \in Breaker
    BY <1>1 DEF Breaker, State
  <2> QED
    BY <1>1, <2>1 DEF AfterSuccess, State
<1>4. AfterFailure(b) \in Breaker
  <2>1. \A s \in State :
          [b EXCEPT !.failureCount = OneMore(b.failureCount), !.age = 0, !.state = s] \in Breaker
    BY <1>1 DEF Breaker
  <2> QED
    BY <1>1, <2>1 DEF AfterFailure, State
<1>5. Allows(b) => Slotted(b) \in Breaker
  BY <1>1, BreakerAssumption DEF Allows, Slotted, Breaker, BreakerAssumption
<1> QED
  BY <1>2, <1>3, <1>4, <1>5

\* The waiting callers are finitely many, so the probes can be counted.
LEMMA ProbesFinite == TypeOK => IsFiniteSet(probes)
  BY FS_Subset, BreakerAssumption DEF TypeOK, BreakerAssumption

\* The invariant holds of a breaker just made.
LEMMA BreakerInitKeeps == Init => IInv
<1> SUFFICES ASSUME Init PROVE IInv
  OBVIOUS
<1>1. breaker \in Breaker
  BY BreakerAssumption DEF Init, Breaker, State, BreakerAssumption
<1>2. TypeOK
  <2>1. silent \in BOOLEAN /\ healthy \in BOOLEAN /\ probes = {} /\ streak = 0
    BY Zenon DEF Init
  <2>2. call \in [Caller -> {"idle", "customers", "order"}]
    BY DEF Init
  <2> QED
    BY <1>1, <2>1, <2>2, BreakerAssumption DEF TypeOK, BreakerAssumption
<1>3. CountsAStreak /\ RestedWhenHalfOpen /\ ProbesHoldSlots
  BY FS_EmptySet DEF Init, CountsAStreak, RestedWhenHalfOpen, ProbesHoldSlots
<1> QED
  BY <1>2, <1>3 DEF IInv

\* Asking keeps the invariant: an admitted probe takes a slot of its own.
LEMMA AskKeeps ==
  ASSUME IInv, NEW c \in Caller, NEW kind \in {"customers", "order"}, Ask(c, kind)
  PROVE  IInv'
<1> DEFINE b == Observed(breaker)
<1>1. breaker \in Breaker /\ b \in Breaker /\ (Allows(b) => Slotted(b) \in Breaker)
  BY MethodsTyped DEF IInv, TypeOK
<1>2. /\ b.state = "closed" <=> breaker.state = "closed"
      /\ b.failureCount = breaker.failureCount /\ b.age = breaker.age
      /\ b.state = "half_open" => b.age = RecoveryTimeout
      /\ b.halfOpenCalls >= 0
  BY <1>1, BreakerAssumption
     DEF IInv, RestedWhenHalfOpen, Observed, Breaker, State, BreakerAssumption
<1>3. /\ b.state = "half_open" /\ breaker.state = "half_open" => b = breaker
      /\ breaker.state # "half_open" => probes = {}
  BY DEF IInv, ProbesHoldSlots, Observed
<1>4. IsFiniteSet(probes) /\ Cardinality(probes) <= breaker.halfOpenCalls
      /\ (breaker.state # "half_open" => Cardinality(probes) = 0)
  BY ProbesFinite, FS_EmptySet DEF IInv, ProbesHoldSlots
<1>5. CASE Allows(b)
  <2>1. /\ breaker' = Slotted(b) /\ call' = [call EXCEPT ![c] = kind] /\ call[c] = "idle"
        /\ probes' = Probing(probes \cup {c}) /\ UNCHANGED <<healthy, streak, silent>>
    BY <1>5 DEF Ask
  <2>2. /\ breaker' \in Breaker /\ breaker'.state = b.state
        /\ breaker'.failureCount = b.failureCount /\ breaker'.age = b.age
        /\ b.state = "half_open" => breaker'.halfOpenCalls = b.halfOpenCalls + 1
    BY <1>1, <1>5, <2>1 DEF Slotted, Breaker
  <2>3. probes' = IF b.state = "half_open" THEN probes \cup {c} ELSE {}
    BY <2>1, <2>2, <1>3 DEF Probing, IInv, TypeOK
  <2>4. c \notin probes /\ IsFiniteSet(probes \cup {c})
        /\ Cardinality(probes \cup {c}) = Cardinality(probes) + 1
    BY <2>1, <1>4, FS_AddElement DEF IInv, TypeOK
  <2>5. TypeOK'
    BY <2>1, <2>2, <2>3 DEF IInv, TypeOK
  <2>6. CountsAStreak' /\ RestedWhenHalfOpen'
    BY <1>2, <2>1, <2>2 DEF IInv, CountsAStreak, RestedWhenHalfOpen
  <2>7. ProbesHoldSlots'
    <3>1. CASE b.state = "half_open"
      <4>1. Cardinality(probes) <= b.halfOpenCalls
        BY <1>2, <1>3, <1>4, <3>1, <1>1 DEF Breaker
      <4>2. Cardinality(probes) \in Nat /\ b.halfOpenCalls \in Nat
        BY <1>1, <1>4, FS_CardinalityType, BreakerAssumption DEF Breaker, BreakerAssumption
      <4> QED
        BY <3>1, <4>1, <4>2, <2>2, <2>3, <2>4 DEF ProbesHoldSlots
    <3>2. CASE b.state # "half_open"
      BY <3>2, <2>2, <2>3, FS_EmptySet, BreakerAssumption
         DEF ProbesHoldSlots, Breaker, BreakerAssumption
    <3> QED
      BY <3>1, <3>2
  <2> QED
    BY <2>5, <2>6, <2>7 DEF IInv
<1>6. CASE ~Allows(b)
  <2>1. breaker' = b /\ probes' = Probing(probes) /\ UNCHANGED <<call, healthy, streak, silent>>
    BY <1>6 DEF Ask
  <2>2. probes' = probes
    BY <2>1, <1>3 DEF Probing, IInv, TypeOK, Observed
  <2>3. TypeOK' /\ CountsAStreak' /\ RestedWhenHalfOpen'
    BY <1>1, <1>2, <2>1, <2>2 DEF IInv, TypeOK, CountsAStreak, RestedWhenHalfOpen
  <2>4. ProbesHoldSlots'
    BY <1>1, <1>2, <1>3, <1>4, <2>1, <2>2, FS_EmptySet
       DEF IInv, ProbesHoldSlots, Observed, Breaker, State
  <2> QED
    BY <2>3, <2>4 DEF IInv
<1> QED
  BY <1>5, <1>6

\* A failure count and a streak grow alike and reset alike while CLOSED.
LEMMA Recorded ==
  ASSUME NEW b \in Breaker, NEW n \in 0 .. Threshold,
         b.state = "closed" => b.failureCount = n
  PROVE  /\ AfterSuccess(b).state = "closed" => AfterSuccess(b).failureCount = 0
         /\ AfterFailure(b).state = "closed" => AfterFailure(b).failureCount = OneMore(n)
         /\ AfterFailure(b).state # "half_open" /\ AfterFailure(b).age = 0
         /\ AfterSuccess(b).state = "half_open" => FALSE
         /\ AfterSuccess(b).halfOpenCalls = b.halfOpenCalls
         /\ AfterFailure(b).halfOpenCalls = b.halfOpenCalls
<1>1. /\ b.state \in State /\ b.failureCount \in 0 .. Threshold
  BY DEF Breaker
<1>2. AfterSuccess(b).state = "closed" => AfterSuccess(b).failureCount = 0
  BY <1>1 DEF AfterSuccess, State, Breaker
<1>3. AfterSuccess(b).state # "half_open" /\ AfterSuccess(b).halfOpenCalls = b.halfOpenCalls
  BY <1>1 DEF AfterSuccess, State, Breaker
<1>4. AfterFailure(b).state = "closed" => AfterFailure(b).failureCount = OneMore(n)
  BY <1>1 DEF AfterFailure, State, Breaker
<1>5. AfterFailure(b).state # "half_open" /\ AfterFailure(b).age = 0
      /\ AfterFailure(b).halfOpenCalls = b.halfOpenCalls
  BY <1>1 DEF AfterFailure, State, Breaker
<1> QED
  BY <1>2, <1>3, <1>4, <1>5

\* An answer keeps the invariant, whatever the state it finds.
LEMMA AnswerKeeps ==
  ASSUME IInv, NEW c \in Caller, NEW outcome, Answer(c, outcome)
  PROVE  IInv'
<1>1. breaker \in Breaker /\ streak \in 0 .. Threshold /\ call' = [call EXCEPT ![c] = "idle"]
      /\ UNCHANGED healthy /\ call[c] # "idle"
  BY DEF IInv, TypeOK, Answer
<1>2. /\ breaker' \in Breaker /\ streak' \in 0 .. Threshold
      /\ breaker'.halfOpenCalls = breaker.halfOpenCalls
      /\ breaker'.state = "closed" => breaker'.failureCount = streak'
      /\ breaker'.state = "half_open" => UNCHANGED breaker
  <2>1. CASE outcome = "success" /\ breaker' = AfterSuccess(breaker) /\ streak' = 0
    BY <1>1, <2>1, MethodsTyped, Recorded, BreakerAssumption
       DEF IInv, CountsAStreak, BreakerAssumption
  <2>2. CASE outcome = "failure" /\ breaker' = AfterFailure(breaker) /\ streak' = OneMore(streak)
    BY <1>1, <2>2, MethodsTyped, Recorded, BreakerAssumption
       DEF IInv, CountsAStreak, OneMore, BreakerAssumption
  <2>3. CASE outcome = "nothing" /\ UNCHANGED <<breaker, streak>>
    BY <1>1, <2>3 DEF IInv, CountsAStreak
  <2>4. CASE /\ outcome = "both" /\ breaker' = AfterFailure(AfterSuccess(breaker))
             /\ streak' = OneMore(0)
    <3>1. /\ AfterSuccess(breaker) \in Breaker
          /\ AfterSuccess(breaker).state = "closed" => AfterSuccess(breaker).failureCount = 0
          /\ AfterSuccess(breaker).halfOpenCalls = breaker.halfOpenCalls
      BY <1>1, MethodsTyped, Recorded DEF IInv, CountsAStreak
    <3>2. 0 \in 0 .. Threshold /\ OneMore(0) \in 0 .. Threshold
      BY BreakerAssumption DEF OneMore, BreakerAssumption
    <3> QED
      BY <2>4, <3>1, <3>2, MethodsTyped, Recorded
  <2> QED
    BY <2>1, <2>2, <2>3, <2>4 DEF Answer
<1>3. probes' = IF breaker'.state = "half_open" THEN probes \ {c} ELSE {}
  <2>1. probes' = Probing(probes \ {c})
    BY DEF Answer
  <2> QED
    BY <1>2, <2>1 DEF Probing
<1>4. TypeOK'
  <2>1. silent' \in BOOLEAN
    BY DEF Answer
  <2> QED
    BY <1>1, <1>2, <1>3, <2>1 DEF IInv, TypeOK
<1>5. CountsAStreak' /\ RestedWhenHalfOpen'
  BY <1>2 DEF IInv, CountsAStreak, RestedWhenHalfOpen
<1>6. ProbesHoldSlots'
  <2>1. IsFiniteSet(probes) /\ Cardinality(probes) \in Nat /\ Cardinality(probes') \in Nat
        /\ Cardinality(probes') <= Cardinality(probes)
    BY <1>3, ProbesFinite, FS_CardinalityType, FS_Subset, FS_EmptySet DEF IInv
  <2>2. breaker.halfOpenCalls \in Nat
    BY <1>1, BreakerAssumption DEF Breaker, BreakerAssumption
  <2> QED
    BY <1>2, <1>3, <2>1, <2>2 DEF IInv, ProbesHoldSlots
<1> QED
  BY <1>4, <1>5, <1>6 DEF IInv

\* Reading the status keeps the invariant, and so do time and the CRM's health.
LEMMA SurroundingsKeep ==
  ASSUME IInv, ReadStatus \/ Tick \/ ChangeHealth
  PROVE  IInv'
<1>1. breaker \in Breaker
  BY DEF IInv, TypeOK
<1>2. CASE ReadStatus
  <2>1. breaker' \in Breaker
    BY <1>1, <1>2, MethodsTyped DEF ReadStatus
  <2>2. probes' = probes
    BY <1>2 DEF ReadStatus, Probing, Observed, IInv, TypeOK, ProbesHoldSlots
  <2>3. TypeOK'
    BY <1>2, <2>1, <2>2 DEF ReadStatus, IInv, TypeOK
  <2>4. CountsAStreak' /\ RestedWhenHalfOpen'
    BY <1>1, <1>2, BreakerAssumption DEF ReadStatus, Observed, IInv, CountsAStreak,
       RestedWhenHalfOpen, Breaker, State, BreakerAssumption
  <2>5. ProbesHoldSlots'
    <3>1. CASE UNCHANGED breaker
      BY <3>1, <2>2 DEF IInv, ProbesHoldSlots
    <3>2. CASE breaker.state = "open" /\ breaker' = [breaker EXCEPT !.state = "half_open",
                                                                  !.halfOpenCalls = 0]
      BY <3>2, <2>2, <1>1, FS_EmptySet DEF IInv, ProbesHoldSlots, Breaker
    <3> QED
      BY <1>2, <3>1, <3>2 DEF ReadStatus, Observed
  <2> QED
    BY <2>3, <2>4, <2>5 DEF IInv
<1>3. CASE Tick
  <2>1. /\ breaker' \in Breaker /\ breaker'.state = breaker.state
        /\ breaker'.failureCount = breaker.failureCount
        /\ breaker'.halfOpenCalls = breaker.halfOpenCalls
        /\ breaker.state # "half_open"
    BY <1>1, <1>3, BreakerAssumption
       DEF Tick, Breaker, IInv, RestedWhenHalfOpen, BreakerAssumption
  <2> QED
    BY <1>3, <2>1 DEF Tick, IInv, TypeOK, CountsAStreak, RestedWhenHalfOpen, ProbesHoldSlots
<1>4. CASE ChangeHealth
  BY <1>4 DEF ChangeHealth, IInv, TypeOK, CountsAStreak, RestedWhenHalfOpen, ProbesHoldSlots
<1> QED
  BY <1>2, <1>3, <1>4

\* The breaker and its callers never leave the invariant.
THEOREM BreakerInvariant == Spec => []IInv
<1>1. IInv /\ [Next]_vars => IInv'
  <2> SUFFICES ASSUME IInv, [Next]_vars PROVE IInv'
    OBVIOUS
  <2>1. CASE UNCHANGED vars
    BY <2>1 DEF vars, IInv, TypeOK, CountsAStreak, RestedWhenHalfOpen, ProbesHoldSlots
  <2>2. ASSUME NEW c \in Caller, AskAny(c) PROVE IInv'
    BY <2>2, AskKeeps DEF AskAny
  <2>3. ASSUME NEW c \in Caller, AnswerAny(c) PROVE IInv'
    BY <2>3, AnswerKeeps DEF AnswerAny
  <2>4. CASE ReadStatus \/ Tick \/ ChangeHealth
    BY <2>4, SurroundingsKeep
  <2> QED
    BY <2>1, <2>2, <2>3, <2>4 DEF Next
<1> QED
  BY <1>1, BreakerInitKeeps, PTL DEF Spec

\* Whatever the callers do, every variable of the breaker keeps its type: its
\* counters stay within the bounds the methods compare them with.
THEOREM BreakerTypes == Spec => []TypeOK
<1>1. IInv => TypeOK
  BY DEF IInv
<1> QED
  BY <1>1, BreakerInvariant, PTL

\* No HALF_OPEN period has more than half_open_max probes waiting.
THEOREM AtMostItsProbes == Spec => []ProbesBounded
<1>1. IInv => ProbesBounded
  <2> SUFFICES ASSUME IInv PROVE ProbesBounded
    OBVIOUS
  <2>1. Cardinality(probes) \in Nat
    BY ProbesFinite, FS_CardinalityType DEF IInv
  <2>2. breaker.halfOpenCalls \in 0 .. HalfOpenMax
    BY DEF IInv, TypeOK, Breaker
  <2> QED
    BY <2>1, <2>2, BreakerAssumption DEF IInv, ProbesHoldSlots, ProbesBounded, BreakerAssumption
<1> QED
  BY <1>1, BreakerInvariant, PTL

\* A call that begins on a breaker that is not CLOSED follows a whole recovery
\* timeout without a failure.
THEOREM Shelter == Spec => ShelterAfterFailure
<1>1. IInv /\ [Next]_vars =>
        [\A c \in Caller : call[c] = "idle" /\ call'[c] # "idle" /\ breaker.state # "closed" =>
           breaker.age = RecoveryTimeout]_vars
  <2> SUFFICES ASSUME IInv, Next, NEW c \in Caller, call[c] = "idle", call'[c] # "idle",
                      breaker.state # "closed"
               PROVE  breaker.age = RecoveryTimeout
    BY DEF vars
  <2>1. PICK d \in Caller, kind \in {"customers", "order"} : Ask(d, kind)
    <3>1. ASSUME NEW d \in Caller, AnswerAny(d) PROVE FALSE
      BY <3>1 DEF AnswerAny, Answer, IInv, TypeOK
    <3> QED
      BY <3>1 DEF Next, AskAny, ReadStatus, Tick, ChangeHealth
  <2>2. Allows(Observed(breaker))
    BY <2>1 DEF Ask
  <2>3. breaker.age \in 0 .. RecoveryTimeout
    BY DEF IInv, TypeOK, Breaker
  <2> QED
    BY <2>2, <2>3, BreakerAssumption
       DEF IInv, RestedWhenHalfOpen, Observed, Allows, BreakerAssumption
<1> QED
  BY <1>1, BreakerInvariant, PTL DEF Spec, ShelterAfterFailure

\* The breaker trips on failure_threshold consecutive failures and no fewer.
THEOREM TripsLate == Spec => TripsOnStreak
<1>1. IInv /\ [Next]_vars =>
        [breaker.state = "closed" /\ breaker'.state = "open" => streak' = Threshold]_vars
  <2> SUFFICES ASSUME IInv, Next, breaker.state = "closed", breaker'.state = "open"
               PROVE  streak' = Threshold
    BY DEF vars
  <2>1. breaker \in Breaker /\ streak \in 0 .. Threshold /\ breaker.failureCount = streak
    BY DEF IInv, TypeOK, CountsAStreak
  <2>2. Observed(breaker) = breaker /\ Slotted(breaker) = breaker
    BY DEF Observed, Slotted
  <2>3. PICK c \in Caller : AnswerAny(c)
    BY <2>2 DEF Next, AskAny, Ask, ReadStatus, Tick, ChangeHealth, Breaker, IInv, TypeOK
  <2>4. AfterSuccess(breaker) = [breaker EXCEPT !.failureCount = 0]
    BY DEF AfterSuccess
  <2>5. CASE breaker' = AfterFailure(breaker) /\ streak' = OneMore(streak)
    BY <2>1, <2>5, BreakerAssumption DEF AfterFailure, OneMore, Breaker, BreakerAssumption
  <2>6. CASE breaker' = AfterFailure(AfterSuccess(breaker)) /\ streak' = OneMore(0)
    BY <2>1, <2>4, <2>6, BreakerAssumption DEF AfterFailure, OneMore, Breaker, BreakerAssumption
  <2>7. CASE breaker' = AfterSuccess(breaker) \/ UNCHANGED breaker
    BY <2>1, <2>4, <2>7 DEF Breaker
  <2> QED
    BY <2>3, <2>5, <2>6, <2>7 DEF AnswerAny, Answer
<1> QED
  BY <1>1, BreakerInvariant, PTL DEF Spec, TripsOnStreak

\* The breaker goes only round its diagram: a late success does not close an OPEN
\* breaker, and a trip does not skip HALF_OPEN's test.
THEOREM RoundTheDiagram == Spec => OnlyDrawnTransitions
<1> DEFINE Drawn == breaker'.state # breaker.state =>
                      <<breaker.state, breaker'.state>> \in
                         {<<"closed", "open">>, <<"open", "half_open">>,
                          <<"half_open", "closed">>, <<"half_open", "open">>}
<1>1. IInv /\ [Next]_vars => [Drawn]_vars
  <2> SUFFICES ASSUME IInv, Next PROVE Drawn
    BY DEF vars
  <2>1. breaker \in Breaker
    BY DEF IInv, TypeOK
  <2>2. ASSUME NEW c \in Caller, AskAny(c) PROVE Drawn
    BY <2>1, <2>2 DEF AskAny, Ask, Observed, Slotted, Breaker, State
  <2>3. ASSUME NEW c \in Caller, AnswerAny(c) PROVE Drawn
    <3>1. /\ breaker.state = "open" => AfterSuccess(breaker) = breaker
          /\ breaker.state # "open" => AfterSuccess(breaker).state = "closed"
      BY <2>1 DEF AfterSuccess, Breaker, State
    <3>2. AfterFailure(breaker).state \in {"open", breaker.state}
      BY <2>1 DEF AfterFailure, Breaker
    <3>3. AfterSuccess(breaker) \in Breaker
      <4>1. \/ AfterSuccess(breaker) = breaker
            \/ AfterSuccess(breaker) = [breaker EXCEPT !.failureCount = 0]
            \/ AfterSuccess(breaker) = [breaker EXCEPT !.state = "closed", !.failureCount = 0]
        BY <2>1 DEF AfterSuccess, Breaker, State
      <4>2. 0 \in 0 .. Threshold
        BY BreakerAssumption DEF BreakerAssumption
      <4> QED
        BY <2>1, <4>1, <4>2 DEF Breaker, State
    <3>4. AfterFailure(AfterSuccess(breaker)).state \in {"open", AfterSuccess(breaker).state}
      BY <3>3 DEF AfterFailure, Breaker
    <3>5. breaker.state \in {"closed", "open", "half_open"}
      BY <2>1 DEF Breaker, State
    <3>6. CASE breaker' = AfterSuccess(breaker)
      BY <3>1, <3>5, <3>6
    <3>7. CASE breaker' = AfterFailure(breaker)
      BY <3>2, <3>5, <3>7
    <3>8. CASE breaker' = AfterFailure(AfterSuccess(breaker))
      BY <3>1, <3>4, <3>5, <3>8
    <3> QED
      BY <2>3, <3>6, <3>7, <3>8 DEF AnswerAny, Answer
  <2>4. CASE ReadStatus
    BY <2>1, <2>4 DEF ReadStatus, Observed, Breaker, State
  <2>5. CASE Tick
    BY <2>1, <2>5 DEF Tick, Breaker
  <2>6. CASE ChangeHealth
    BY <2>6 DEF ChangeHealth
  <2> QED
    BY <2>2, <2>3, <2>4, <2>5, <2>6 DEF Next
<1> QED
  BY <1>1, BreakerInvariant, PTL DEF Spec, OnlyDrawnTransitions

-----------------------------------------------------------------------------

\* What the tables and columns are, spelled out.
LEMMA Values ==
  /\ Late["products"] = {"image_url"}
  /\ Late["users"] = {}
  /\ Late["orders"] = {"checkout_idempotency_key"}
  /\ Late["invoices"] = {"customer_id", "due_at"}
  /\ RefersTo["products"] = {} /\ RefersTo["users"] = {}
  /\ RefersTo["orders"] = {"users"} /\ RefersTo["invoices"] = {"orders"}
BY DEF Late, RefersTo, Metadata

\* A late column belongs to one table only.
LEMMA LateApart ==
  ASSUME NEW t \in Metadata, NEW u \in Metadata, t # u
  PROVE  Late[t] \cap Late[u] = {}
BY Values DEF Metadata

\* Whose columns the late columns of some tables are.
LEMMA LateOfSome ==
  ASSUME NEW ts \in SUBSET Metadata, NEW c
  PROVE  c \in LateOf(ts) <=> \E t \in ts : c \in Late[t]
BY DEF LateOf

\* The columns of the tables that stay are not among those of the tables that go.
LEMMA LateOfRest ==
  ASSUME NEW ts \in SUBSET Metadata, NEW us \in SUBSET Metadata
  PROVE  LateOf(ts) \ LateOf(us) \subseteq LateOf(ts \ us)
<1> SUFFICES ASSUME NEW c \in LateOf(ts), c \notin LateOf(us) PROVE c \in LateOf(ts \ us)
  OBVIOUS
<1>1. PICK t \in ts : c \in Late[t]
  BY LateOfSome
<1>2. t \notin us
  BY <1>1, LateOfSome
<1> QED
  BY <1>1, <1>2, LateOfSome

\* Tables that come bring their late columns, and no others.
LEMMA LateOfMore ==
  ASSUME NEW ts \in SUBSET Metadata, NEW us \in SUBSET Metadata
  PROVE  LateOf(ts) \cup LateOf(us) = LateOf(ts \cup us)
BY DEF LateOf

\* A database as a release leaves it, with every replica down, satisfies the
\* invariant.
LEMMA InitKeeps == StartupAssumption /\ StartupInit => StartupInv
<1> SUFFICES ASSUME StartupInit PROVE StartupInv
  OBVIOUS
<1>1. PICK d \in Databases :
        /\ tables = d.tables /\ columns = d.columns /\ keyIndex = d.keyIndex
        /\ users = d.users /\ history = d.history
        /\ invoiced = (d.history > 0 /\ "invoices" \in d.tables)
        /\ unfilled = d.unfilled
  BY DEF StartupInit
<1>2. AsReleased(d)
  BY StartupAssumption DEF StartupAssumption
<1>3. /\ invoiced \in BOOLEAN /\ (invoiced => "invoices" \in tables)
      /\ keyIndex \in BOOLEAN /\ (keyIndex => "orders" \in tables)
      /\ spent \in BOOLEAN /\ cut \in BOOLEAN
  BY <1>1, <1>2, Zenon DEF AsReleased, StartupInit
<1>4. /\ tables = d.tables /\ columns = d.columns
      /\ users = d.users /\ history = d.history /\ unfilled = d.unfilled
      /\ placed = 0 /\ deaths = 0
  BY <1>1, Zenon DEF StartupInit
<1>5. StartupTypeOK
  <2>1. SchemaTyped
    BY <1>3, <1>4, <1>2 DEF AsReleased, SchemaTyped
  <2>2. RowsTyped
    BY <1>3, <1>4, <1>2, StartupAssumption DEF AsReleased, RowsTyped, StartupAssumption
  <2>3. ReplicasTyped
    BY DEF StartupInit, ReplicasTyped
  <2>4. deployment \in Deployments /\ deaths \in 0 .. MaxDeaths
    BY <1>4, StartupAssumption DEF StartupInit, StartupAssumption
  <2> QED
    BY <2>1, <2>2, <2>3, <2>4, <1>3 DEF StartupTypeOK
<1>6. ReferencesHold /\ SeededOnce
  BY <1>4, <1>2 DEF AsReleased, ReferencesHold, SeededOnce
<1>7. \A r \in Replica : pc[r] = "down" /\ missing[r] = {}
  BY DEF StartupInit
<1>8. ListsFit
  BY <1>7 DEF ListsFit, Columns
<1>9. HoldersAlone
  BY <1>7 DEF HoldersAlone, Holds
<1>10. FilledUnlessCut
  BY <1>4, <1>2 DEF AsReleased, FilledUnlessCut
<1> QED
  BY <1>5, <1>6, <1>8, <1>9, <1>10 DEF StartupInv

\* A step that only looked, and did not leave the late columns of invoices
\* behind, moves on to where nothing is held or worked through.
LEMMA MovesKeep ==
  ASSUME StartupInv, NEW r \in Replica, pc[r] \notin {"alterInvoices", "fill"},
         NEW label \in Starting \ ({"drop", "create", "rest", "billMerged"}
                                     \cup {Columns[t].alter : t \in DOMAIN Columns}),
         Moves(r, label), UNCHANGED <<deployment, deaths>>
  PROVE  StartupInv'
<1>1. /\ UNCHANGED <<tables, columns, keyIndex, users, history, placed, invoiced, unfilled,
                     spent, todo, names, missing, resetting, cut, deployment, deaths>>
      /\ pc' = [pc EXCEPT ![r] = label]
  BY DEF Moves, Goes, schema, rows, local
<1>2. pc \in [Replica -> Starting \cup {"down", Serving}]
  BY DEF StartupInv, StartupTypeOK, ReplicasTyped
<1>3. StartupTypeOK'
  BY <1>1, <1>2 DEF StartupInv, StartupTypeOK, SchemaTyped, RowsTyped, ReplicasTyped
<1>4. /\ label \notin {"drop", "create", "rest", "billMerged"}
      /\ label \notin {"alterProducts", "alterOrders", "alterInvoices"}
  BY DEF Columns
<1>5. ListsFit'
  BY <1>1, <1>2, <1>4 DEF StartupInv, ListsFit, Columns
<1>6. HoldersAlone'
  BY <1>1, <1>2, <1>4 DEF StartupInv, HoldersAlone, HeldByOther, Holds
<1>7. ReferencesHold' /\ SeededOnce' /\ FilledUnlessCut'
  BY <1>1 DEF StartupInv, ReferencesHold, SeededOnce, FilledUnlessCut
<1> QED
  BY <1>3, <1>5, <1>6, <1>7 DEF StartupInv

\* A start that ends before its time leaves no trace but the numbers it drew, and
\* is known to have broken off a back-fill.
LEMMA EndsKeep ==
  ASSUME StartupInv, NEW r \in Replica, NEW label \in {"down", Serving},
         Goes(r, label), RollsBack(r), UNCHANGED deployment, deaths' \in 0 .. MaxDeaths
  PROVE  StartupInv'
<1>1. /\ UNCHANGED <<tables, columns, keyIndex, users, history, placed, invoiced, unfilled,
                     deployment>>
      /\ pc' = [pc EXCEPT ![r] = label]
      /\ todo' = [todo EXCEPT ![r] = {}] /\ names' = [names EXCEPT ![r] = {}]
      /\ missing' = [missing EXCEPT ![r] = {}] /\ resetting' = resetting \ {r}
  BY DEF Goes, RollsBack, Clears, schema
<1>2. ReplicasTyped
  BY DEF StartupInv, StartupTypeOK
<1>3. spent' \in BOOLEAN /\ cut' \in BOOLEAN /\ (cut => cut')
      /\ (HalfDone(r) # {} => cut')
  BY Zenon DEF RollsBack, StartupInv, StartupTypeOK, RowsTyped
<1>4. StartupTypeOK'
  <2>1. SchemaTyped' /\ RowsTyped'
    BY <1>1, <1>3 DEF StartupInv, StartupTypeOK, SchemaTyped, RowsTyped
  <2>2. ReplicasTyped'
    BY <1>1, <1>2 DEF ReplicasTyped
  <2> QED
    BY <1>1, <1>3, <2>1, <2>2 DEF StartupInv, StartupTypeOK
<1>5. ListsFit'
  BY <1>1, <1>2 DEF StartupInv, ReplicasTyped, ListsFit, Columns, Serving
<1>6. HoldersAlone'
  BY <1>1, <1>2 DEF StartupInv, ReplicasTyped, HoldersAlone, HeldByOther, Holds, Serving
<1>7. FilledUnlessCut'
  BY <1>1, <1>2, <1>3 DEF StartupInv, ReplicasTyped, FilledUnlessCut, HalfDone
<1>8. ReferencesHold' /\ SeededOnce'
  BY <1>1 DEF StartupInv, ReferencesHold, SeededOnce
<1> QED
  BY <1>4, <1>5, <1>6, <1>7, <1>8 DEF StartupInv

\* So does one that fails at a statement.
LEMMA FailsKeep ==
  ASSUME StartupInv, NEW r \in Replica, Fails(r), UNCHANGED <<deployment, deaths>>
  PROVE  StartupInv'
<1>1. deaths' \in 0 .. MaxDeaths
  BY DEF StartupInv, StartupTypeOK
<1> QED
  BY <1>1, EndsKeep DEF Fails

\* How a list is worked through.
LEMMA WorksSteps ==
  ASSUME ReplicasTyped, NEW r \in Replica, NEW same \in Starting, NEW after \in Starting,
         NEW left \in SUBSET (Metadata \cup LateOf(Metadata)), Works(r, left, same, after)
  PROVE  /\ UNCHANGED <<names, resetting, cut>>
         /\ todo'[r] = left
         /\ pc'[r] = IF left = {} THEN after ELSE same
         /\ \A o \in Replica \ {r} : pc'[o] = pc[o] /\ todo'[o] = todo[o]
         /\ missing' \in [Replica -> SUBSET LateOf(Metadata)] => ReplicasTyped'
         /\ UNCHANGED missing => ReplicasTyped'
BY DEF Works, Goes, ReplicasTyped

\* A list of tables is made, or one of columns: nothing is changed yet.
LEMMA ListKeeps ==
  ASSUME StartupInv, NEW r \in Replica, pc[r] \notin {"alterInvoices", "fill"},
         NEW left \in SUBSET Metadata, NEW same \in {"drop", "create"},
         NEW after \in {"createAll", "seed", "names"},
         Works(r, left, same, after), UNCHANGED <<schema, rows, missing, deployment, deaths>>
  PROVE  StartupInv'
<1>1. ReplicasTyped
  BY DEF StartupInv, StartupTypeOK
<1>2. same \in Starting /\ after \in Starting
      /\ left \in SUBSET (Metadata \cup LateOf(Metadata))
  BY DEF Starting
<1>3. /\ UNCHANGED <<names, resetting, cut>>
      /\ ReplicasTyped'
      /\ todo'[r] = left /\ pc'[r] \in {same, after}
      /\ \A o \in Replica \ {r} : pc'[o] = pc[o] /\ todo'[o] = todo[o]
  BY <1>1, <1>2, WorksSteps
<1>4. UNCHANGED <<tables, columns, keyIndex, users, history, placed, invoiced, unfilled,
                  spent, missing, deployment, deaths>>
  BY DEF schema, rows
<1>5. StartupTypeOK'
  BY <1>3, <1>4 DEF StartupInv, StartupTypeOK, SchemaTyped, RowsTyped
<1>6. ListsFit'
  BY <1>3, <1>4 DEF StartupInv, ListsFit, Columns
<1>7. HoldersAlone'
  BY <1>3, <1>4 DEF StartupInv, HoldersAlone, HeldByOther, Holds
<1>8. ReferencesHold' /\ SeededOnce' /\ FilledUnlessCut'
  BY <1>3, <1>4 DEF StartupInv, ReferencesHold, SeededOnce, FilledUnlessCut
<1> QED
  BY <1>5, <1>6, <1>7, <1>8 DEF StartupInv

\* drop_all lists the tables it found.
LEMMA DropAllKeeps ==
  ASSUME StartupInv, NEW r \in Replica, DropAll(r), UNCHANGED <<deployment, deaths>>
  PROVE  StartupInv'
BY ListKeeps DEF DropAll

\* create_all lists the tables it did not find.
LEMMA CreateAllKeeps ==
  ASSUME StartupInv, NEW r \in Replica, CreateAll(r), UNCHANGED <<deployment, deaths>>
  PROVE  StartupInv'
BY ListKeeps DEF CreateAll, ToCreate, AfterCreating

\* Tables go, with everything in them: no table that refers to one of them stays,
\* so the seed's orders do not outlive its users.
LEMMA DropKeeps ==
  ASSUME StartupInv, NEW r \in Replica, Drop(r), UNCHANGED <<deployment, deaths>>
  PROVE  StartupInv'
<1>1. CASE Fails(r)
  BY <1>1, FailsKeep
<1>2. ASSUME NEW batch \in SUBSET todo[r], Droppable(batch), Loses(batch), UNCHANGED missing,
             Works(r, todo[r] \ batch, "drop", "createAll")
      PROVE  StartupInv'
  <2>1. ReplicasTyped /\ SchemaTyped /\ RowsTyped
    BY DEF StartupInv, StartupTypeOK
  <2>2. pc[r] = "drop" /\ todo[r] \subseteq Metadata
    BY DEF Drop, StartupInv, ListsFit
  <2>3. /\ "drop" \in Starting /\ "createAll" \in Starting
        /\ todo[r] \ batch \in SUBSET (Metadata \cup LateOf(Metadata))
    BY <2>2 DEF Starting
  <2>4. /\ UNCHANGED <<missing, names, resetting, cut, deployment, deaths>>
        /\ ReplicasTyped'
        /\ todo'[r] = todo[r] \ batch /\ pc'[r] \in {"drop", "createAll"}
        /\ \A o \in Replica \ {r} : pc'[o] = pc[o] /\ todo'[o] = todo[o]
    BY <1>2, <2>1, <2>3, WorksSteps
  <2>5. /\ tables' = tables \ batch /\ columns' = columns \ LateOf(batch)
        /\ users' = IF "users" \in batch THEN {} ELSE users
        /\ history' = IF "orders" \in batch THEN 0 ELSE history
        /\ placed' = IF "orders" \in batch THEN 0 ELSE placed
        /\ unfilled' = IF "invoices" \in batch THEN {} ELSE unfilled
    BY <1>2 DEF Loses
  <2>6. SchemaTyped'
    <3>1. columns' \subseteq LateOf(tables' \cap Metadata)
      <4>1. LateOf(tables \cap Metadata) \ LateOf(batch)
              \subseteq LateOf((tables \cap Metadata) \ batch)
        BY <2>2, LateOfRest
      <4>2. (tables \cap Metadata) \ batch = tables' \cap Metadata
        BY <2>5
      <4> QED
        BY <2>1, <2>5, <4>1, <4>2 DEF SchemaTyped
    <3>2. keyIndex' \in BOOLEAN /\ (keyIndex' => "orders" \in tables')
      BY <1>2, <2>1, Zenon DEF Loses, SchemaTyped
    <3> QED
      BY <2>1, <2>5, <3>1, <3>2 DEF SchemaTyped
  <2>7. RowsTyped'
    <3>1. /\ invoiced' \in BOOLEAN /\ (invoiced' => "invoices" \in tables')
          /\ spent' \in BOOLEAN
      BY <1>2, <2>1, Zenon DEF Loses, RowsTyped
    <3>2. 0 \in 0 .. MaxOrders
      BY StartupAssumption DEF StartupAssumption
    <3>3. /\ history' \in Nat /\ placed' \in 0 .. MaxOrders
          /\ history' + placed' > 0 => "orders" \in tables'
      <4>1. CASE "orders" \in batch
        BY <2>5, <3>2, <4>1
      <4>2. CASE "orders" \notin batch
        BY <2>1, <2>5, <4>2 DEF RowsTyped
      <4> QED
        BY <4>1, <4>2
    <3>4. /\ users' \subseteq {"seed", "person"}
          /\ users' # {} => "users" \in tables'
          /\ unfilled' \subseteq Late["invoices"]
          /\ unfilled' # {} => "invoices" \in tables'
      BY <2>1, <2>5 DEF RowsTyped
    <3> QED
      BY <3>1, <3>3, <3>4 DEF RowsTyped
  <2>8. ReferencesHold'
    BY <1>2, <2>5 DEF StartupInv, ReferencesHold, Droppable
  <2>9. ListsFit'
    BY <2>2, <2>4 DEF StartupInv, ListsFit, Columns
  <2>10. HoldersAlone'
    BY <2>4, <2>5 DEF StartupInv, HoldersAlone, HeldByOther, Holds
  <2>11. SeededOnce'
    <3>1. "users" \in batch /\ "orders" \notin batch => "orders" \notin tables
      BY <1>2, Values DEF Droppable, Metadata
    <3>2. history' \in Nat /\ history' <= history
      BY <2>1, <2>5 DEF RowsTyped
    <3>3. "orders" \notin tables => history = 0
      BY <2>1 DEF RowsTyped
    <3> QED
      BY <2>1, <2>5, <3>1, <3>2, <3>3 DEF StartupInv, SeededOnce, RowsTyped
  <2>12. FilledUnlessCut'
    BY <2>4, <2>5 DEF StartupInv, FilledUnlessCut
  <2> QED
    BY <2>1, <2>4, <2>6, <2>7, <2>8, <2>9, <2>10, <2>11, <2>12 DEF StartupInv, StartupTypeOK
<1>3. DropBatch(todo[r]) \subseteq todo[r]
  BY DEF DropBatch
<1> QED
  BY <1>1, <1>2, <1>3 DEF Drop

\* Tables come, empty: what is unfilled is in a table that was there.
LEMMA CreateKeeps ==
  ASSUME StartupInv, NEW r \in Replica, Create(r), UNCHANGED <<deployment, deaths>>
  PROVE  StartupInv'
<1>1. CASE Fails(r)
  BY <1>1, FailsKeep
<1>2. ASSUME NEW batch \in SUBSET todo[r], Creatable(batch),
             tables' = tables \cup batch, columns' = columns \cup LateOf(batch),
             keyIndex' = (keyIndex \/ "orders" \in batch), UNCHANGED <<rows, missing>>,
             Works(r, todo[r] \ batch, "create", AfterCreating(r))
      PROVE  StartupInv'
  <2>1. ReplicasTyped /\ SchemaTyped /\ RowsTyped
    BY DEF StartupInv, StartupTypeOK
  <2>2. pc[r] = "create" /\ todo[r] \subseteq Metadata
    BY DEF Create, StartupInv, ListsFit
  <2>3. /\ "create" \in Starting /\ AfterCreating(r) \in Starting
        /\ todo[r] \ batch \in SUBSET (Metadata \cup LateOf(Metadata))
    BY <2>2 DEF Starting, AfterCreating
  <2>4. /\ UNCHANGED <<users, history, placed, invoiced, unfilled, spent, missing, names,
                       resetting, cut, deployment, deaths>>
        /\ ReplicasTyped'
        /\ todo'[r] = todo[r] \ batch /\ pc'[r] \in {"create", "seed", "names"}
        /\ \A o \in Replica \ {r} : pc'[o] = pc[o] /\ todo'[o] = todo[o]
    BY <1>2, <2>1, <2>3, WorksSteps DEF AfterCreating, rows
  <2>5. SchemaTyped'
    <3>1. columns' \subseteq LateOf(tables' \cap Metadata)
      <4>1. LateOf(tables \cap Metadata) \cup LateOf(batch)
              = LateOf((tables \cap Metadata) \cup batch)
        BY <2>2, LateOfMore
      <4>2. (tables \cap Metadata) \cup batch = tables' \cap Metadata
        BY <1>2, <2>2
      <4> QED
        BY <1>2, <2>1, <4>1, <4>2 DEF SchemaTyped
    <3>2. keyIndex' \in BOOLEAN /\ (keyIndex' => "orders" \in tables')
      BY <1>2, <2>1, Zenon DEF SchemaTyped
    <3> QED
      BY <1>2, <2>1, <2>2, <3>1, <3>2 DEF SchemaTyped
  <2>6. RowsTyped'
    BY <1>2, <2>1, <2>4 DEF RowsTyped
  <2>7. ReferencesHold'
    BY <1>2, <2>2 DEF StartupInv, ReferencesHold, Creatable
  <2>8. ListsFit'
    BY <2>2, <2>4 DEF StartupInv, ListsFit, Columns
  <2>9. HoldersAlone'
    BY <2>2, <2>4 DEF StartupInv, HoldersAlone, HeldByOther, Holds
  <2>10. FilledUnlessCut'
    <3>1. ASSUME NEW c \in unfilled \cap LateOf(batch) PROVE FALSE
      <4>1. PICK t \in batch : c \in Late[t]
        BY <2>2, LateOfSome
      <4>2. t = "invoices"
        BY <4>1, <2>1, <2>2, LateApart DEF RowsTyped, Metadata
      <4> QED
        BY <1>2, <2>1, <4>1, <4>2 DEF Creatable, RowsTyped
    <3> QED
      BY <1>2, <2>4, <3>1 DEF StartupInv, FilledUnlessCut
  <2> QED
    BY <2>1, <2>4, <2>5, <2>6, <2>7, <2>8, <2>9, <2>10 DEF StartupInv, StartupTypeOK, SeededOnce
<1>3. CreateBatch(todo[r]) \subseteq todo[r]
  BY DEF CreateBatch
<1> QED
  BY <1>1, <1>2, <1>3 DEF Create

\* Reading the names of the tables only fills in what the replica knows of them.
LEMMA ReadNamesKeeps ==
  ASSUME StartupInv, NEW r \in Replica, ReadNames(r), UNCHANGED <<deployment, deaths>>
  PROVE  StartupInv'
<1>1. /\ UNCHANGED <<tables, columns, keyIndex, users, history, placed, invoiced, unfilled,
                     spent, todo, missing, resetting, cut>>
      /\ names' = [names EXCEPT ![r] = tables] /\ pc' = [pc EXCEPT ![r] = "products"]
      /\ pc[r] = "names"
  BY DEF ReadNames, Goes, schema, rows
<1>2. StartupTypeOK'
  BY <1>1 DEF StartupInv, StartupTypeOK, SchemaTyped, RowsTyped, ReplicasTyped, Starting
<1>3. ListsFit'
  BY <1>1 DEF StartupInv, StartupTypeOK, ReplicasTyped, ListsFit, Columns
<1>4. HoldersAlone'
  BY <1>1 DEF StartupInv, StartupTypeOK, ReplicasTyped, HoldersAlone, HeldByOther, Holds
<1>5. ReferencesHold' /\ SeededOnce' /\ FilledUnlessCut'
  BY <1>1 DEF StartupInv, ReferencesHold, SeededOnce, FilledUnlessCut
<1> QED
  BY <1>2, <1>3, <1>4, <1>5 DEF StartupInv

\* The columns found missing replace those of the table before, none of which was
\* waiting to be filled.
LEMMA LookKeeps ==
  ASSUME StartupInv, NEW r \in Replica, NEW t \in DOMAIN Columns, Look(r, t),
         UNCHANGED <<deployment, deaths>>
  PROVE  StartupInv'
<1>1. CASE Fails(r)
  BY <1>1, FailsKeep
<1>2. ASSUME NEW found \in SUBSET Late[t], missing' = [missing EXCEPT ![r] = found],
             Works(r, found, Columns[t].alter, Columns[t].next), UNCHANGED <<schema, rows>>
      PROVE  StartupInv'
  <2>1. ReplicasTyped /\ SchemaTyped /\ RowsTyped
    BY DEF StartupInv, StartupTypeOK
  <2>2. t \in {"products", "orders", "invoices"} /\ pc[r] = t
    BY DEF Look, Columns
  <2>3. found \subseteq LateOf(Metadata) /\ (t # "invoices" => found \cap Late["invoices"] = {})
    <3>1. t \in Metadata
      BY <2>2 DEF Metadata
    <3> QED
      BY <3>1, LateOfSome, LateApart DEF Metadata
  <2>4. Columns[t].alter \in Starting /\ Columns[t].next \in Starting
    BY <2>2 DEF Columns, Starting
  <2>5. /\ UNCHANGED <<names, resetting, cut>>
        /\ ReplicasTyped'
        /\ todo'[r] = found
        /\ pc'[r] = IF found = {} THEN Columns[t].next ELSE Columns[t].alter
        /\ \A o \in Replica \ {r} : pc'[o] = pc[o] /\ todo'[o] = todo[o]
    <3>1. missing' \in [Replica -> SUBSET LateOf(Metadata)]
      BY <1>2, <2>1, <2>3 DEF ReplicasTyped
    <3> QED
      BY <1>2, <2>1, <2>3, <2>4, <3>1, WorksSteps
  <2>6. /\ UNCHANGED <<tables, columns, keyIndex, users, history, placed, invoiced, unfilled,
                       spent, deployment, deaths>>
        /\ missing'[r] = found
        /\ \A o \in Replica \ {r} : missing'[o] = missing[o]
    BY <1>2, <2>1 DEF schema, rows, ReplicasTyped
  <2>7. StartupTypeOK'
    BY <2>5, <2>6 DEF StartupInv, StartupTypeOK, SchemaTyped, RowsTyped
  <2>8. ListsFit'
    BY <2>2, <2>3, <2>5, <2>6 DEF StartupInv, ListsFit, Columns
  <2>9. HoldersAlone'
    BY <2>2, <2>5, <2>6 DEF StartupInv, HoldersAlone, HeldByOther, Holds, Columns
  <2>10. FilledUnlessCut'
    <3>1. missing[r] \cap Late["invoices"] = {}
      BY <2>2 DEF StartupInv, ListsFit
    <3> QED
      BY <2>1, <2>5, <2>6, <3>1 DEF StartupInv, FilledUnlessCut, RowsTyped
  <2>11. ReferencesHold' /\ SeededOnce'
    BY <2>6 DEF StartupInv, ReferencesHold, SeededOnce
  <2> QED
    BY <2>7, <2>8, <2>9, <2>10, <2>11 DEF StartupInv
<1> QED
  BY <1>1, <1>2, Zenon DEF Look

\* Whether an ALTER adds the column or is refused, the replica that asked for it
\* remembers that it has to be filled.
LEMMA AddsKeep ==
  ASSUME StartupInv, NEW r \in Replica, NEW t \in DOMAIN Columns, pc[r] = Columns[t].alter,
         NEW c \in todo[r],
         \/ columns' = columns \cup {c} /\ t \in tables
         \/ UNCHANGED columns,
         Works(r, todo[r] \ {c}, Columns[t].alter, Columns[t].next),
         UNCHANGED <<tables, keyIndex, rows, missing, deployment, deaths>>
  PROVE  StartupInv'
<1>1. ReplicasTyped /\ SchemaTyped /\ RowsTyped
  BY DEF StartupInv, StartupTypeOK
<1>2. t \in {"products", "orders", "invoices"} /\ t \in Metadata
  BY DEF Columns, Metadata
<1>3. todo[r] \subseteq missing[r] \cap Late[t]
  BY DEF StartupInv, ListsFit
<1>4. /\ Columns[t].alter \in Starting /\ Columns[t].next \in Starting
      /\ todo[r] \ {c} \in SUBSET (Metadata \cup LateOf(Metadata))
  BY <1>1, <1>2 DEF Columns, Starting, ReplicasTyped
<1>5. /\ UNCHANGED <<names, resetting, cut>>
      /\ ReplicasTyped'
      /\ todo'[r] = todo[r] \ {c} /\ pc'[r] \in {Columns[t].alter, Columns[t].next}
      /\ \A o \in Replica \ {r} : pc'[o] = pc[o] /\ todo'[o] = todo[o]
  BY <1>1, <1>4, WorksSteps
<1>6. UNCHANGED <<tables, users, history, placed, invoiced, unfilled, spent, missing, keyIndex,
                  deployment, deaths>>
  BY DEF rows
<1>7. SchemaTyped'
  <2>1. t \in tables => c \in LateOf(tables \cap Metadata)
    BY <1>2, <1>3, LateOfSome
  <2>2. columns' \subseteq LateOf(tables' \cap Metadata)
    BY <1>1, <1>6, <2>1 DEF SchemaTyped
  <2> QED
    BY <1>1, <1>6, <2>2 DEF SchemaTyped
<1>8. RowsTyped'
  BY <1>1, <1>6 DEF RowsTyped
<1>9. ListsFit'
  <2>1. t # "invoices" => missing[r] \cap Late["invoices"] = {}
    BY <1>2 DEF StartupInv, ListsFit, Columns
  <2> QED
    BY <1>2, <1>3, <1>5, <1>6, <2>1 DEF StartupInv, ListsFit, Columns
<1>10. HoldersAlone'
  BY <1>2, <1>5, <1>6 DEF StartupInv, HoldersAlone, HeldByOther, Holds, Columns
<1>11. FilledUnlessCut'
  BY <1>3, <1>5, <1>6 DEF StartupInv, FilledUnlessCut
<1>12. ReferencesHold' /\ SeededOnce'
  BY <1>6 DEF StartupInv, ReferencesHold, SeededOnce
<1> QED
  BY <1>5, <1>6, <1>7, <1>8, <1>9, <1>10, <1>11, <1>12 DEF StartupInv, StartupTypeOK

\* The column of products is added, or the start fails.
LEMMA AlterProductsKeeps ==
  ASSUME StartupInv, NEW r \in Replica, AlterProducts(r), UNCHANGED <<deployment, deaths>>
  PROVE  StartupInv'
<1>1. PICK c \in todo[r] :
        \/ /\ Added(c, "products")
           /\ Works(r, todo[r] \ {c}, "alterProducts", "orders")
           /\ UNCHANGED <<tables, keyIndex, rows, missing>>
        \/ Refused(c, "products") /\ Fails(r)
  BY DEF AlterProducts
<1>2. /\ "products" \in DOMAIN Columns /\ Columns["products"].alter = "alterProducts"
      /\ Columns["products"].next = "orders" /\ pc[r] = "alterProducts"
  BY DEF Columns, AlterProducts
<1>3. CASE Fails(r)
  BY <1>3, FailsKeep
<1>4. CASE ~Fails(r)
  BY <1>1, <1>2, <1>4, AddsKeep DEF Added
<1> QED
  BY <1>3, <1>4

\* Those of orders and invoices are added, or the refusal passes unnoticed.
LEMMA AlterGuardedKeeps ==
  ASSUME StartupInv, NEW r \in Replica, NEW t \in {"orders", "invoices"}, AlterGuarded(r, t),
         UNCHANGED <<deployment, deaths>>
  PROVE  StartupInv'
<1>1. t \in DOMAIN Columns
  BY DEF Columns
<1>2. PICK c \in todo[r] :
        /\ Added(c, t) \/ Refused(c, t)
        /\ Works(r, todo[r] \ {c}, Columns[t].alter, Columns[t].next)
  BY DEF AlterGuarded
<1> QED
  BY <1>1, <1>2, AddsKeep DEF AlterGuarded, Added, Refused

\* The index comes only where the table is, whose column says so.
LEMMA KeyKeeps ==
  ASSUME StartupInv, NEW r \in Replica, Key(r), UNCHANGED <<deployment, deaths>>
  PROVE  StartupInv'
<1>1. CASE Fails(r)
  BY <1>1, FailsKeep
<1>2. CASE ~Fails(r)
  <2>1. /\ UNCHANGED <<tables, columns, users, history, placed, invoiced, unfilled,
                       spent, todo, names, missing, resetting, cut>>
        /\ pc' = [pc EXCEPT ![r] = "invoices"] /\ pc[r] = "key"
    BY <1>2 DEF Key, Goes, rows, local
  <2>2. "checkout_idempotency_key" \in columns => "orders" \in tables
    <3>1. columns \subseteq LateOf(tables \cap Metadata)
      BY DEF StartupInv, StartupTypeOK, SchemaTyped
    <3> QED
      BY <3>1, LateOfSome, Values DEF Metadata
  <2>3. keyIndex' \in BOOLEAN /\ (keyIndex' => "orders" \in tables)
    <3>1. keyIndex \in BOOLEAN /\ (keyIndex => "orders" \in tables)
      BY DEF StartupInv, StartupTypeOK, SchemaTyped
    <3>2. keyIndex' = keyIndex
          \/ (keyIndex' = TRUE /\ "checkout_idempotency_key" \in columns)
      BY <1>2 DEF Key
    <3>3. CASE keyIndex' = keyIndex
      BY <3>1, <3>3
    <3>4. CASE keyIndex' = TRUE /\ "checkout_idempotency_key" \in columns
      BY <2>2, <3>4
    <3> QED
      BY <3>2, <3>3, <3>4
  <2>4. SchemaTyped'
    BY <2>1, <2>3 DEF StartupInv, StartupTypeOK, SchemaTyped
  <2>5. StartupTypeOK'
    BY <2>1, <2>4 DEF StartupInv, StartupTypeOK, RowsTyped, ReplicasTyped, Starting
  <2>6. ListsFit'
    BY <2>1 DEF StartupInv, StartupTypeOK, ReplicasTyped, ListsFit, Columns
  <2>7. HoldersAlone'
    BY <2>1 DEF StartupInv, StartupTypeOK, ReplicasTyped, HoldersAlone, HeldByOther, Holds
  <2>8. ReferencesHold' /\ SeededOnce' /\ FilledUnlessCut'
    BY <2>1 DEF StartupInv, ReferencesHold, SeededOnce, FilledUnlessCut
  <2> QED
    BY <2>5, <2>6, <2>7, <2>8 DEF StartupInv
<1> QED
  BY <1>1, <1>2

\* A replica forgets the columns it found missing when it has filled them all.
LEMMA FillKeeps ==
  ASSUME StartupInv, NEW r \in Replica, Fill(r), UNCHANGED <<deployment, deaths>>
  PROVE  StartupInv'
<1>1. CASE Fails(r)
  BY <1>1, FailsKeep
<1>2. CASE ~Fails(r)
  <2>1. /\ UNCHANGED <<tables, columns, keyIndex, users, history, placed, invoiced,
                       spent, todo, names, resetting, cut>>
        /\ unfilled' = unfilled \ missing[r] /\ missing' = [missing EXCEPT ![r] = {}]
        /\ pc' = [pc EXCEPT ![r] = "shops"] /\ pc[r] = "fill"
    BY <1>2 DEF Fill, ToFill, Goes, schema
  <2>2. StartupTypeOK'
    BY <2>1 DEF StartupInv, StartupTypeOK, SchemaTyped, RowsTyped, ReplicasTyped, Starting
  <2>3. ListsFit'
    BY <2>1 DEF StartupInv, StartupTypeOK, ReplicasTyped, ListsFit, Columns
  <2>4. HoldersAlone'
    BY <2>1 DEF StartupInv, StartupTypeOK, ReplicasTyped, HoldersAlone, HeldByOther, Holds
  <2>5. FilledUnlessCut'
    BY <2>1 DEF StartupInv, StartupTypeOK, ReplicasTyped, FilledUnlessCut
  <2>6. ReferencesHold' /\ SeededOnce'
    BY <2>1 DEF StartupInv, ReferencesHold, SeededOnce
  <2> QED
    BY <2>2, <2>3, <2>4, <2>5, <2>6 DEF StartupInv
<1> QED
  BY <1>1, <1>2

\* The shops table stands apart: no column, row or other table depends on it.
LEMMA ShopsKeeps ==
  ASSUME StartupInv, NEW r \in Replica, Shops(r), UNCHANGED <<deployment, deaths>>
  PROVE  StartupInv'
<1>1. CASE Fails(r)
  BY <1>1, FailsKeep
<1>2. CASE ~Fails(r)
  <2>1. /\ UNCHANGED <<columns, keyIndex, users, history, placed, invoiced, unfilled,
                       spent, todo, names, missing, resetting, cut>>
        /\ tables' = tables \cup {"shops"}
        /\ pc' = [pc EXCEPT ![r] = "seed"] /\ pc[r] = "shops"
    BY <1>2 DEF Shops, Goes, rows, local
  <2>2. tables' \cap Metadata = tables \cap Metadata
    BY <2>1 DEF Metadata
  <2>3. StartupTypeOK'
    <3>1. SchemaTyped'
      BY <2>1, <2>2 DEF StartupInv, StartupTypeOK, SchemaTyped
    <3>2. RowsTyped'
      BY <2>1 DEF StartupInv, StartupTypeOK, RowsTyped
    <3>3. ReplicasTyped'
      BY <2>1 DEF StartupInv, StartupTypeOK, ReplicasTyped, Starting
    <3> QED
      BY <2>1, <3>1, <3>2, <3>3 DEF StartupInv, StartupTypeOK
  <2>4. ListsFit'
    BY <2>1 DEF StartupInv, StartupTypeOK, ReplicasTyped, ListsFit, Columns
  <2>5. HoldersAlone'
    BY <2>1 DEF StartupInv, StartupTypeOK, ReplicasTyped, HoldersAlone, HeldByOther, Holds
  <2>6. ReferencesHold'
    BY <2>1, <2>2 DEF StartupInv, ReferencesHold
  <2>7. SeededOnce' /\ FilledUnlessCut'
    BY <2>1 DEF StartupInv, SeededOnce, FilledUnlessCut
  <2> QED
    BY <2>3, <2>4, <2>5, <2>6, <2>7 DEF StartupInv
<1> QED
  BY <1>1, <1>2

\* The seed's users are inserted, and not committed, where none are and nobody else
\* has them inserted.
LEMMA HoldsKeep ==
  ASSUME StartupInv, NEW r \in Replica, pc[r] \notin {"alterInvoices", "fill"},
         NEW label \in {"rest", "billMerged"}, Moves(r, label),
         "seed" \notin users, ~HeldByOther(r), UNCHANGED <<deployment, deaths>>
  PROVE  StartupInv'
<1>1. /\ UNCHANGED <<tables, columns, keyIndex, users, history, placed, invoiced, unfilled,
                     spent, todo, names, missing, resetting, cut, deployment, deaths>>
      /\ pc' = [pc EXCEPT ![r] = label]
  BY DEF Moves, Goes, schema, rows, local
<1>2. pc \in [Replica -> Starting \cup {"down", Serving}]
  BY DEF StartupInv, StartupTypeOK, ReplicasTyped
<1>3. StartupTypeOK'
  BY <1>1, <1>2 DEF StartupInv, StartupTypeOK, SchemaTyped, RowsTyped, ReplicasTyped, Starting
<1>4. ListsFit'
  BY <1>1, <1>2 DEF StartupInv, ListsFit, Columns
<1>5. HoldersAlone'
  <2>1. \A o \in Replica \ {r} : ~Holds(o)'
    BY <1>1, <1>2 DEF HeldByOther, Holds
  <2> QED
    BY <1>1, <2>1 DEF HoldersAlone, HeldByOther
<1>6. ReferencesHold' /\ SeededOnce' /\ FilledUnlessCut'
  BY <1>1 DEF StartupInv, ReferencesHold, SeededOnce, FilledUnlessCut
<1> QED
  BY <1>3, <1>4, <1>5, <1>6 DEF StartupInv

\* The insert that starts a seeding waits for the other holder and is refused
\* where the seed's users are.
LEMMA SeedUsersKeeps ==
  ASSUME StartupInv, NEW r \in Replica, SeedUsers(r), UNCHANGED <<deployment, deaths>>
  PROVE  StartupInv'
<1>1. CASE Fails(r)
  BY <1>1, FailsKeep
<1>2. CASE ~Fails(r)
  BY <1>2, HoldsKeep DEF SeedUsers, Refuses
<1> QED
  BY <1>1, <1>2

\* A seeding commits: its users are there, and perhaps its orders and invoices.
LEMMA CommitsKeep ==
  ASSUME StartupInv, NEW r \in Replica, Metadata \subseteq tables,
         pc[r] \in {"rest", "settle", "merge", "bill", "billMerged"},
         \/ users' = users
         \/ users' = users \cup {"seed"} /\ ~HeldByOther(r),
         \/ history' = history
         \/ pc[r] = "rest" /\ history' = history + 1 /\ users' = users \cup {"seed"},
         invoiced' = TRUE \/ invoiced' = invoiced,
         Serves(r),
         UNCHANGED <<schema, placed, unfilled, spent, cut, deployment, deaths>>
  PROVE  StartupInv'
<1>1. /\ UNCHANGED <<tables, columns, keyIndex>>
      /\ pc' = [pc EXCEPT ![r] = Serving]
      /\ todo' = [todo EXCEPT ![r] = {}] /\ names' = [names EXCEPT ![r] = {}]
      /\ missing' = [missing EXCEPT ![r] = {}] /\ resetting' = resetting \ {r}
  BY DEF Serves, Goes, Clears, schema
<1>2. ReplicasTyped /\ SchemaTyped /\ RowsTyped
  BY DEF StartupInv, StartupTypeOK
<1>3. {"users", "orders", "invoices"} \subseteq tables
  BY DEF Metadata
<1>4. history' \in Nat /\ users' \subseteq {"seed", "person"}
  BY <1>2 DEF RowsTyped
<1>5. SchemaTyped'
  BY <1>1, <1>2 DEF SchemaTyped
<1>6. RowsTyped'
  <2>1. invoiced' \in BOOLEAN
    BY <1>2, Zenon DEF RowsTyped
  <2> QED
    BY <1>1, <1>2, <1>3, <1>4, <2>1 DEF RowsTyped
<1>7. ReplicasTyped'
  BY <1>1, <1>2 DEF ReplicasTyped
<1>8. ListsFit'
  BY <1>1, <1>2 DEF StartupInv, ReplicasTyped, ListsFit, Columns, Serving
<1>9. HoldersAlone'
  <2>1. \A o \in Replica : Holds(o)' => o # r /\ Holds(o)
    BY <1>1, <1>2 DEF ReplicasTyped, Holds, Serving
  <2>2. ASSUME NEW o \in Replica, Holds(o)'
        PROVE  "seed" \notin users' /\ ~HeldByOther(o)'
    <3>1. HeldByOther(r) /\ "seed" \notin users /\ ~HeldByOther(o)
      BY <2>1, <2>2 DEF StartupInv, HoldersAlone, HeldByOther
    <3> QED
      BY <2>1, <3>1 DEF HeldByOther
  <2> QED
    BY <2>2 DEF HoldersAlone
<1>10. SeededOnce'
  <2>1. pc[r] = "rest" => history = 0
    BY <1>2 DEF StartupInv, HoldersAlone, Holds, SeededOnce, RowsTyped
  <2> QED
    BY <1>2, <2>1 DEF StartupInv, SeededOnce, RowsTyped
<1>11. FilledUnlessCut'
  <2>1. missing[r] \cap Late["invoices"] = {}
    BY DEF StartupInv, ListsFit
  <2> QED
    BY <1>1, <1>2, <2>1 DEF StartupInv, ReplicasTyped, RowsTyped, FilledUnlessCut
<1>12. ReferencesHold'
  BY <1>1 DEF StartupInv, ReferencesHold
<1> QED
  BY <1>5, <1>6, <1>7, <1>8, <1>9, <1>10, <1>11, <1>12 DEF StartupInv, StartupTypeOK

\* Who holds the rows of the seed's users is the only one.
LEMMA HolderIsOnly ==
  ASSUME HoldersAlone, NEW r \in Replica, Holds(r)
  PROVE  "seed" \notin users /\ ~HeldByOther(r)
BY DEF HoldersAlone

\* The rest of a seeding commits: the seed's orders come where none were, for its
\* users were not there.
LEMMA SeedRestKeeps ==
  ASSUME StartupInv, NEW r \in Replica, SeedRest(r), UNCHANGED <<deployment, deaths>>
  PROVE  StartupInv'
<1>1. CASE Fails(r)
  BY <1>1, FailsKeep
<1>2. CASE ~Fails(r)
  <2>1. ~HeldByOther(r)
    BY HolderIsOnly DEF SeedRest, Holds, StartupInv
  <2> QED
    BY <1>2, <2>1, CommitsKeep DEF SeedRest, RestFits
<1> QED
  BY <1>1, <1>2

\* A seed that finds users merges its own, which nobody else may be inserting, or
\* finds them there.
LEMMA SettleKeeps ==
  ASSUME StartupInv, NEW r \in Replica, Settle(r), UNCHANGED <<deployment, deaths>>
  PROVE  StartupInv'
<1>1. CASE Fails(r)
  BY <1>1, FailsKeep
<1>2. ASSUME Metadata \subseteq tables, pc[r] = "merge" => "seed" \notin users,
             Moves(r, IF pc[r] = "merge" THEN "billMerged" ELSE "bill")
      PROVE  StartupInv'
  <2>1. CASE pc[r] = "merge"
    BY <1>2, <2>1, HoldsKeep DEF Settle
  <2>2. CASE pc[r] = "settle"
    BY <1>2, <2>2, MovesKeep DEF Starting, Columns
  <2> QED
    BY <2>1, <2>2 DEF Settle
<1>3. ASSUME Metadata \subseteq tables, users' = Merged(r), Serves(r),
             UNCHANGED <<schema, history, placed, invoiced, unfilled, spent, cut>>
      PROVE  StartupInv'
  BY <1>3, CommitsKeep DEF Settle, Merged
<1> QED
  BY <1>1, <1>2, <1>3 DEF Settle, Refuses

\* The invoices are billed in the transaction that settled or merged.
LEMMA BillKeeps ==
  ASSUME StartupInv, NEW r \in Replica, Bill(r), UNCHANGED <<deployment, deaths>>
  PROVE  StartupInv'
<1>1. CASE Fails(r)
  BY <1>1, FailsKeep
<1>2. CASE ~Fails(r)
  <2>1. pc[r] = "billMerged" => ~HeldByOther(r)
    BY HolderIsOnly DEF Holds, StartupInv
  <2> QED
    BY <1>2, <2>1, CommitsKeep DEF Bill, Merged
<1> QED
  BY <1>1, <1>2

\* Serving replicas hold nothing, find nothing missing, and only add rows.
LEMMA ServingKeeps ==
  ASSUME StartupInv, NEW r \in Replica, ServingStep(r)
  PROVE  StartupInv'
<1>1. /\ UNCHANGED <<tables, columns, keyIndex, invoiced, unfilled, spent, todo, names, missing,
                     deployment, deaths, cut, history>>
      /\ pc[r] = Serving
      /\ pc' \in {pc, [pc EXCEPT ![r] = "seed"], [pc EXCEPT ![r] = "dropAll"]}
      /\ resetting' \in {resetting, resetting \cup {r}}
      /\ users' = users \/ (users' = users \cup {"person"} /\ "users" \in tables)
      /\ placed' = placed
         \/ (placed' = placed + 1 /\ placed < MaxOrders /\ "orders" \in tables)
  BY DEF ServingStep, SignUp, PlaceOrder, TriggerSeed, Reset, MayReset, Goes, schema
<1>2. ReplicasTyped /\ SchemaTyped /\ RowsTyped
  BY DEF StartupInv, StartupTypeOK
<1>3. StartupTypeOK'
  <2>1. SchemaTyped'
    BY <1>1, <1>2 DEF SchemaTyped
  <2>2. RowsTyped'
    <3>1. users' \subseteq {"seed", "person"} /\ (users' # {} => "users" \in tables')
      BY <1>1, <1>2 DEF RowsTyped
    <3>2. /\ placed' \in 0 .. MaxOrders
          /\ history' + placed' > 0 => "orders" \in tables'
      <4>1. CASE placed' = placed
        BY <1>1, <1>2, <4>1 DEF RowsTyped
      <4>2. CASE placed' = placed + 1 /\ placed < MaxOrders /\ "orders" \in tables
        BY <1>1, <1>2, <4>2, StartupAssumption DEF RowsTyped, StartupAssumption
      <4> QED
        BY <1>1, <4>1, <4>2
    <3> QED
      BY <1>1, <1>2, <3>1, <3>2 DEF RowsTyped
  <2>3. ReplicasTyped'
    BY <1>1, <1>2 DEF ReplicasTyped, Starting
  <2> QED
    BY <1>1, <2>1, <2>2, <2>3 DEF StartupInv, StartupTypeOK
<1>4. /\ \A o \in Replica : pc'[o] = pc[o] \/ (o = r /\ pc'[o] \in {"seed", "dropAll"})
  BY <1>1, <1>2 DEF ReplicasTyped
<1>5. ListsFit'
  BY <1>1, <1>4 DEF StartupInv, ListsFit, Columns, Serving
<1>6. HoldersAlone'
  BY <1>1, <1>4 DEF StartupInv, HoldersAlone, HeldByOther, Holds
<1>7. ReferencesHold' /\ SeededOnce' /\ FilledUnlessCut'
  BY <1>1 DEF StartupInv, ReferencesHold, SeededOnce, FilledUnlessCut
<1> QED
  BY <1>3, <1>5, <1>6, <1>7 DEF StartupInv

\* A replica dies: its transaction is rolled back.
LEMMA DieKeeps ==
  ASSUME StartupInv, NEW r \in Replica, Die(r)
  PROVE  StartupInv'
<1>1. deaths' \in 0 .. MaxDeaths
  BY StartupAssumption DEF Die, StartupInv, StartupTypeOK, StartupAssumption
<1> QED
  BY <1>1, EndsKeep DEF Die

\* Every statement of a start keeps the invariant.
LEMMA StartStepKeeps ==
  ASSUME StartupInv, NEW r \in Replica, StartStep(r)
  PROVE  StartupInv'
<1>1. UNCHANGED <<deployment, deaths>>
  BY DEF StartStep
<1>2. CASE Start(r) \/ InitTables(r) \/ CountUsers(r) \/ SeedData(r)
  <2>1. CASE Fails(r)
    BY <1>1, <2>1, FailsKeep
  <2>2. PICK label \in {"init", "count", "createAll", "dropAll", "insert", "settle", "merge"} :
          Fails(r) \/ Moves(r, label)
    BY <1>2 DEF Start, InitTables, CountUsers, SeedData
  <2>3. pc[r] \notin {"alterInvoices", "fill"}
    BY <1>2 DEF Start, InitTables, CountUsers, SeedData
  <2>4. label \in Starting \ ({"drop", "create", "rest", "billMerged"}
                               \cup {Columns[t].alter : t \in DOMAIN Columns})
    BY DEF Starting, Columns
  <2> QED
    BY <1>1, <2>1, <2>2, <2>3, <2>4, MovesKeep
<1>3. CASE DropAll(r) \/ Drop(r) \/ CreateAll(r) \/ Create(r)
  BY <1>1, <1>3, DropAllKeeps, DropKeeps, CreateAllKeeps, CreateKeeps
<1>4. CASE ReadNames(r) \/ \E t \in DOMAIN Columns : Look(r, t)
  BY <1>1, <1>4, ReadNamesKeeps, LookKeeps
<1>5. CASE AlterProducts(r) \/ \E t \in {"orders", "invoices"} : AlterGuarded(r, t)
  BY <1>1, <1>5, AlterProductsKeeps, AlterGuardedKeeps
<1>6. CASE Key(r) \/ Fill(r) \/ Shops(r)
  BY <1>1, <1>6, KeyKeeps, FillKeeps, ShopsKeeps
<1>7. CASE SeedUsers(r) \/ SeedRest(r) \/ Settle(r) \/ Bill(r)
  BY <1>1, <1>7, SeedUsersKeeps, SeedRestKeeps, SettleKeeps, BillKeeps
<1> QED
  BY <1>2, <1>3, <1>4, <1>5, <1>6, <1>7 DEF StartStep

\* However many replicas start, fail, die, reseed and serve on one database, the
\* invariant holds.
THEOREM StartupInvariant == StartupSpec => []StartupInv
<1>1. StartupInit => StartupInv
  BY InitKeeps, StartupAssumption
<1>2. StartupInv /\ [StartupNext]_startupVars => StartupInv'
  <2> SUFFICES ASSUME StartupInv, [StartupNext]_startupVars PROVE StartupInv'
    OBVIOUS
  <2>1. CASE StartupNext
    BY <2>1, StartStepKeeps, ServingKeeps, DieKeeps DEF StartupNext
  <2>2. CASE UNCHANGED startupVars
    BY <2>2 DEF startupVars, schema, rows, local, StartupInv, StartupTypeOK, SchemaTyped, RowsTyped,
         ReplicasTyped, ReferencesHold, ListsFit, HoldersAlone, HeldByOther, Holds, SeededOnce,
         FilledUnlessCut
  <2> QED
    BY <2>1, <2>2
<1> QED
  BY <1>1, <1>2, PTL DEF StartupSpec

\* With any number of replicas, orders and deaths: the types hold, and nothing is
\* without its table.
THEOREM StartupTypes == StartupSpec => []StartupTypeOK
BY StartupInvariant, PTL DEF StartupInv

\* The seed's orders come at most once, and with its users.
THEOREM SeedComesOnce == StartupSpec => []SeededOnce
BY StartupInvariant, PTL DEF StartupInv

\* A column that stands there unfilled is some replica's to fill, unless a
\* back-fill was broken off.
THEOREM BackFillIsRemembered == StartupSpec => []FilledUnlessCut
BY StartupInvariant, PTL DEF StartupInv

\* In production a database in use keeps its users, orders and invoices, and no
\* replica begins to drop it: a drop follows only from finding users empty, and the
\* users of a settled database go only with a drop.
THEOREM UsedStays == StartupSpec => SettledStays
<1> DEFINE A == deployment.production /\ Settled
                => /\ Settled'
                   /\ users \subseteq users' /\ history <= history'
                   /\ placed <= placed' /\ (invoiced => invoiced')
<1>1. StartupInv /\ [StartupNext]_startupVars => [A]_startupVars
  <2> SUFFICES ASSUME StartupInv, StartupNext, deployment.production, Settled
               PROVE  /\ Settled'
                      /\ users \subseteq users' /\ history <= history'
                      /\ placed <= placed' /\ (invoiced => invoiced')
    OBVIOUS
  <2>1. history \in Nat /\ placed \in Nat
        /\ pc \in [Replica -> Starting \cup {"down", Serving}]
    BY StartupAssumption
       DEF StartupInv, StartupTypeOK, RowsTyped, ReplicasTyped, StartupAssumption
  <2>2. PICK r \in Replica : StartStep(r) \/ ServingStep(r) \/ Die(r)
    BY DEF StartupNext
  <2>3. users # {} /\ \A o \in Replica : pc[o] \notin {"dropAll", "drop"}
    BY DEF Settled
  <2> DEFINE Keeps ==
        /\ users \subseteq users' /\ history <= history'
        /\ placed <= placed' /\ (invoiced => invoiced')
        /\ \A o \in Replica : pc'[o] \notin {"dropAll", "drop"}
  <2> SUFFICES Keeps
    BY <2>3 DEF Settled
  <2>4. CASE Fails(r) \/ Die(r)
    <3>1. UNCHANGED <<users, history, placed, invoiced>>
      BY <2>4 DEF Die, Fails, RollsBack
    <3>2. Goes(r, Serving) \/ Goes(r, "down")
      BY <2>4 DEF Die, Fails
    <3>3. \A o \in Replica : pc'[o] \notin {"dropAll", "drop"}
      BY <2>1, <2>3, <3>2 DEF Goes, Serving
    <3> QED
      BY <2>1, <3>1, <3>3
  <2>5. CASE Start(r) \/ InitTables(r) \/ CountUsers(r)
    BY <2>1, <2>3, <2>4, <2>5 DEF Start, InitTables, CountUsers, Empty, Moves, Goes, rows
  <2>6. CASE SeedData(r) \/ SeedUsers(r)
    BY <2>1, <2>3, <2>4, <2>6 DEF SeedData, SeedUsers, Moves, Goes, rows
  <2>7. CASE DropAll(r) \/ Drop(r)
    BY <2>3, <2>7 DEF DropAll, Drop
  <2>8. CASE CreateAll(r) \/ Create(r)
    BY <2>1, <2>3, <2>4, <2>8 DEF CreateAll, Create, AfterCreating, Works, Goes, rows
  <2>9. CASE ReadNames(r) \/ Key(r) \/ Fill(r) \/ Shops(r)
    BY <2>1, <2>3, <2>4, <2>9 DEF ReadNames, Key, Fill, Shops, Goes, rows
  <2>10. CASE \E t \in DOMAIN Columns : Look(r, t)
    BY <2>1, <2>3, <2>4, <2>10 DEF Look, Columns, Works, Goes, rows
  <2>11. CASE AlterProducts(r) \/ \E t \in {"orders", "invoices"} : AlterGuarded(r, t)
    BY <2>1, <2>3, <2>4, <2>11 DEF AlterProducts, AlterGuarded, Columns, Works, Goes, rows
  <2>12. CASE SeedRest(r) \/ Settle(r) \/ Bill(r)
    BY <2>1, <2>3, <2>4, <2>12
       DEF SeedRest, Settle, Bill, Merged, Serves, Moves, Goes, Serving, rows
  <2>13. CASE ServingStep(r)
    BY <2>1, <2>3, <2>13 DEF ServingStep, SignUp, PlaceOrder, TriggerSeed, Reset, MayReset, Goes
  <2> QED
    BY <2>2, <2>4, <2>5, <2>6, <2>7, <2>8, <2>9, <2>10, <2>11, <2>12, <2>13 DEF StartStep
<1> QED
  BY <1>1, StartupInvariant, PTL DEF StartupSpec, SettledStays

=============================================================================
