----------------------- MODULE PaymentGatewayProofs ------------------------
(***************************************************************************)
(* The scores stay in their scale, the merges are vetoes, and what is      *)
(* stored agrees with what was answered, for all amounts, domains, digests *)
(* and answers of the sidecar.                                             *)
(***************************************************************************)
EXTENDS PaymentGateway, TLAPS

\* The score of a payment lies between 0 and 99, whatever its reasons.
LEMMA ScoreType ==
  ASSUME NEW amount \in Nat, NEW domain, NEW R
  PROVE  Score(BaseRisk(amount, domain), R) \in Risk
  <1> DEFINE base == BaseRisk(amount, domain)
  <1>1. amount \div 2 \in Nat
    BY SMT
  <1>2. base \in Nat
    BY <1>1 DEF BaseRisk, AtMost
  <1>3. \A reason, points : points \in Nat => Weight(R, reason, points) \in Nat
    BY DEF Weight
  <1> HIDE DEF base
  <1>4. base + Weight(R, "invalid_luhn", 80) + Weight(R, "expired_card", 70)
          + Weight(R, "invalid_cvv", 45) + Weight(R, "missing_wallet_token", 80)
          + Weight(R, "unsupported_card_network", 35)
          + Weight(R, "unsupported_wallet_network", 20)
          + Weight(R, "missing_expiry", 20) + Weight(R, "issuer_decline_test_card", 90)
          + Weight(R, "billing_postal_code_format", 15) \in Nat
    BY <1>2, <1>3
  <1>5. Score(base, R) \in Risk
    BY <1>4 DEF Score, AtMost, Risk
  <1> QED
    BY <1>5 DEF base

\* Every context a checkout can have is typed.
LEMMA ContextType ==
  ASSUME NEW method \in Methods, NEW R \in Reasons(method), NEW amount \in Nat, NEW domain
  PROVE  ContextFor(method, R, amount, domain) \in Context
  <1>1. R \subseteq CardFaults \cup WalletFaults
    BY DEF Reasons
  <1> QED
    BY <1>1, ScoreType DEF ContextFor, Context

\* The simulator's risk is a score.
LEMMA LocalRiskType ==
  ASSUME NEW amount \in Nat, NEW domain, NEW entropy \in 0 .. 29
  PROVE  LocalRisk(amount, domain, entropy) \in Risk
  BY DEF LocalRisk, AtMost, Risk

\* The simulator's decision is typed.
LEMMA LocalType ==
  ASSUME NEW mode, NEW risk \in Risk
  PROVE  /\ LocalDecision(mode, risk) \in Decision
         /\ LocalDecision(mode, risk).source = "python-simulator"
  <1>1. LocalDecision(mode, risk).status \in Statuses
    BY DEF LocalDecision, Statuses
  <1> QED
    BY <1>1 DEF LocalDecision, Decision, Sources, Risk, AtLeast

\* A call that got no answer carries no decision; one that did, one of the words.
LEMMA ResultTypes ==
  ASSUME GatewayAssumption
  PROVE  /\ \A v \in Verifications :
              /\ v # NoResult /\ v.risk \in Risk /\ v.decision # "timeout"
              /\ v.status # "ok" => v.decision = "none" /\ v.status \in Down
              /\ v.status = "ok" => v.decision \in {"approved", "declined", "review", "other"}
         /\ \A p \in Processings :
              /\ p # NoResult /\ p.risk \in Risk
              /\ p.status # "ok" => p.decision = "none"
              /\ p.status = "ok" => p.decision \in {"approved", "declined", "timeout", "other"}
  <1>1. ASSUME NEW words, NEW r \in Results(words)
        PROVE  /\ r.status \in Down \cup {"ok"} /\ r.risk \in Risk
               /\ r.status # "ok" => r.decision = "none"
               /\ r.status = "ok" => r.decision \in words
    <2>1. CASE r \in {[status |-> s, decision |-> "none", risk |-> 0] : s \in Down}
      <3>1. PICK s \in Down : r = [status |-> s, decision |-> "none", risk |-> 0]
        BY <2>1
      <3> QED
        BY <3>1 DEF Down, Risk
    <2>2. CASE r \in [status: {"ok"}, decision: words, risk: JudgeRisks]
      BY <2>2, GatewayAssumption DEF Risk
    <2> QED
      BY <2>1, <2>2 DEF Results
  <1>2. ASSUME NEW words, NEW r \in Results(words)
        PROVE  r # NoResult
    BY <1>1 DEF NoResult, Down
  <1> QED
    BY <1>1, <1>2 DEF Verifications, Processings

\* A merge returns a decision.
LEMMA MergedType ==
  ASSUME GatewayAssumption, NEW c \in Context, NEW l \in Decision,
         NEW v \in Verifications, NEW p \in Processings
  PROVE  Merged(c, l, v, p) \in Decision
  <1> DEFINE m == MergeVerification(l, v)
             n == MergeProcessor(m, p)
  <1>1. m \in Decision
    BY ResultTypes DEF MergeVerification, Decision, Statuses, Sources, Risk, AtLeast
  <1> HIDE DEF m
  <1>2. n \in Decision
    BY <1>1, ResultTypes DEF MergeProcessor, Decision, Statuses, Sources, Risk
  <1> HIDE DEF n
  <1>3. ApplyAntifraud(n, c) \in Decision
    BY <1>2 DEF ApplyAntifraud, Context, Decision, Statuses, Sources, Risk, AtLeast
  <1> QED
    BY <1>3 DEF Merged, m, n

\* A payment is authorized exactly when nobody said no.
LEMMA MergedIsVeto ==
  ASSUME GatewayAssumption, NEW c \in Context, NEW l \in Decision,
         NEW v \in Verifications, NEW p \in Processings
  PROVE  Merged(c, l, v, p).status = "authorized" <=>
           /\ ~ShouldDecline(c) /\ l.status = "authorized"
           /\ v.decision # "declined" /\ p.decision \notin {"declined", "timeout"}
  <1> DEFINE m == MergeVerification(l, v)
             n == MergeProcessor(m, p)
  <1>1. /\ m.status = IF v.decision = "declined" THEN "declined" ELSE l.status
        /\ m.status \in Statuses
    BY ResultTypes DEF MergeVerification, Decision, Statuses
  <1> HIDE DEF m
  <1>2. n.status = "authorized" <=>
          m.status = "authorized" /\ p.decision \notin {"declined", "timeout"}
    BY <1>1, ResultTypes DEF MergeProcessor, Statuses
  <1> HIDE DEF n
  <1>3. ApplyAntifraud(n, c).status = IF ShouldDecline(c) THEN "declined" ELSE n.status
    BY DEF ApplyAntifraud
  <1> QED
    BY <1>1, <1>2, <1>3 DEF Merged, m, n

\* The risk reported is at least the shop's own.
LEMMA MergedRisk ==
  ASSUME GatewayAssumption, NEW c \in Context, NEW l \in Decision,
         NEW v \in Verifications, NEW p \in Processings
  PROVE  c.risk <= Merged(c, l, v, p).risk
  <1> DEFINE n == MergeProcessor(MergeVerification(l, v), p)
  <1>1. MergeVerification(l, v).risk \in Risk
    BY ResultTypes DEF MergeVerification, Decision, AtLeast, Risk
  <1>2. n.risk \in Risk
    BY <1>1, ResultTypes DEF MergeProcessor
  <1> HIDE DEF n
  <1>3. c.risk <= ApplyAntifraud(n, c).risk
    BY <1>2 DEF ApplyAntifraud, AtLeast, Context, Risk
  <1> QED
    BY <1>3 DEF Merged, n
----------------------------------------------------------------------------
\* The invariant

\* Initially nothing has been asked or written.
THEOREM InitIInv ==
  ASSUME Init
  PROVE  IInv
  <1>1. TypeOK
    BY DEF Init, TypeOK
  <1>2. Heard
    BY DEF Init, Heard, Unasked, NoDecision, Skipped
  <1>4. Closed
    BY DEF Init, Closed
  <1>3. StepsInOrder /\ RowsFollow
    BY DEF Init, StepsInOrder, RowsFollow
  <1> QED
    BY <1>1, <1>2, <1>3, <1>4 DEF IInv

\* What the concatenation of two sequences holds, and where.
LEMMA Concatenation ==
  ASSUME NEW S, NEW s \in Seq(S), NEW t \in Seq(S)
  PROVE  /\ s \o t \in Seq(S) /\ Len(s \o t) = Len(s) + Len(t)
         /\ Len(s) \in Nat /\ Len(t) \in Nat
         /\ \A i \in 1 .. Len(s) : (s \o t)[i] = s[i]
         /\ \A i \in 1 .. Len(t) : (s \o t)[Len(s) + i] = t[i]
  OBVIOUS

\* A tuple of five or six is a sequence.
LEMMA TupleType ==
  ASSUME NEW S, NEW a \in S, NEW b \in S, NEW c \in S, NEW d \in S, NEW e \in S, NEW f \in S
  PROVE  <<a, b, c, d, e>> \in Seq(S) /\ <<a, b, c, d, e, f>> \in Seq(S)
  OBVIOUS

\* The steps of a method, and those that follow them.
LEMMA CapabilityShape ==
  ASSUME NEW method
  PROVE  LET k == Len(MethodSteps(method)) IN
         /\ MethodSteps(method) \in Seq(StepName) /\ k \in {5, 6}
         /\ Capability(method) \in Seq(StepName) /\ Len(Capability(method)) = k + 6
         /\ \A i \in 1 .. k : Capability(method)[i] = MethodSteps(method)[i]
         /\ Capability(method)[k + 1] = "verification_antifraud_request"
         /\ Capability(method)[k + 2] = "verification_antifraud_response"
         /\ Capability(method)[k + 3] = "processor_authorization_request"
         /\ Capability(method)[k + 4] = "processor_authorization_response"
         /\ Capability(method)[k + 5] = "network_authorization_routing"
         /\ Capability(method)[k + 6] = "merchant_authorization_result"
  <1>1. MethodSteps(method) \in Seq(StepName) /\ Len(MethodSteps(method)) \in {5, 6}
    <2>1. <<"gateway_payment_received", "wallet_token_received", "gateway_token_decryption",
            "network_token_cryptogram_validation", "internal_antifraud_screening">> \in Seq(StepName)
      BY TupleType DEF StepName
    <2>2. <<"gateway_payment_received", "apple_pay_merchant_validation",
            "wallet_token_received", "gateway_token_decryption",
            "network_token_cryptogram_validation", "internal_antifraud_screening">> \in Seq(StepName)
      BY TupleType DEF StepName
    <2>3. <<"gateway_payment_received", "card_data_received", "gateway_card_tokenization",
            "internal_antifraud_screening", "card_network_routing">> \in Seq(StepName)
      BY TupleType DEF StepName
    <2>4. CASE method = "google_pay"
      BY <2>1, <2>4 DEF MethodSteps
    <2>5. CASE method = "apple_pay"
      BY <2>2, <2>5 DEF MethodSteps
    <2>6. CASE method \notin {"google_pay", "apple_pay"}
      BY <2>3, <2>6 DEF MethodSteps
    <2> QED
      BY <2>4, <2>5, <2>6
  <1> DEFINE head == MethodSteps(method)
             tail == <<"verification_antifraud_request", "verification_antifraud_response",
                       "processor_authorization_request", "processor_authorization_response",
                       "network_authorization_routing", "merchant_authorization_result">>
  <1>2. /\ tail \in Seq(StepName) /\ Len(tail) = 6
        /\ tail[1] = "verification_antifraud_request"
        /\ tail[2] = "verification_antifraud_response"
        /\ tail[3] = "processor_authorization_request"
        /\ tail[4] = "processor_authorization_response"
        /\ tail[5] = "network_authorization_routing"
        /\ tail[6] = "merchant_authorization_result"
    <2>1. tail \in Seq(StepName)
      BY TupleType DEF StepName
    <2> QED
      BY <2>1
  <1> HIDE DEF head, tail
  <1>3. /\ head \o tail \in Seq(StepName) /\ Len(head \o tail) = Len(head) + 6
        /\ \A i \in 1 .. Len(head) : (head \o tail)[i] = head[i]
        /\ \A i \in 1 .. 6 : (head \o tail)[Len(head) + i] = tail[i]
    <2>1. head \in Seq(StepName)
      BY <1>1 DEF head
    <2>2. /\ head \o tail \in Seq(StepName) /\ Len(head \o tail) = Len(head) + Len(tail)
          /\ \A i \in 1 .. Len(head) : (head \o tail)[i] = head[i]
          /\ \A i \in 1 .. Len(tail) : (head \o tail)[Len(head) + i] = tail[i]
      <3>1. tail \in Seq(StepName)
        BY <1>2
      <3> QED
        BY <2>1, <3>1, Concatenation
    <2>3. Len(tail) = 6
      BY <1>2
    <2> QED
      BY <2>2, <2>3
  <1> QED
    BY <1>1, <1>2, <1>3 DEF Capability, CommonSteps, head, tail

\* Steps that are emitted after others keep the order when their names are the
\* next ones.
LEMMA EmittedInOrder ==
  ASSUME NEW old \in Seq(Steps),
         NEW new \in Seq(Steps), Len(new) > 0,
         NEW names \in Seq(StepName),
         \A i \in 1 .. Len(old) : old[i].name = names[i],
         \A i \in 1 .. Len(new) : new[i].name = names[Len(old) + i]
  PROVE  /\ old \o new \in Seq(Steps)
         /\ Len(old \o new) = Len(old) + Len(new)
         /\ \A i \in 1 .. Len(old \o new) : (old \o new)[i].name = names[i]
         /\ (old \o new)[Len(old \o new)] = new[Len(new)]
  <1>1. /\ old \o new \in Seq(Steps)
        /\ Len(old \o new) = Len(old) + Len(new)
        /\ \A i \in 1 .. Len(old) : (old \o new)[i] = old[i]
        /\ \A i \in 1 .. Len(new) : (old \o new)[Len(old) + i] = new[i]
    BY Concatenation
  <1>2. ASSUME NEW i \in 1 .. Len(old \o new)
        PROVE  (old \o new)[i].name = names[i]
    <2>1. CASE i <= Len(old)
      BY <1>1, <2>1
    <2>2. CASE i > Len(old)
      <3>1. i - Len(old) \in 1 .. Len(new) /\ i = Len(old) + (i - Len(old))
        BY <1>1, <2>2
      <3> QED
        BY <1>1, <3>1
    <2> QED
      BY <1>1, <2>1, <2>2
  <1> QED
    BY <1>1, <1>2
----------------------------------------------------------------------------
\* One lemma for each action.

\* A method that needs no gateway skips it.
LEMMA SkipKeeps ==
  ASSUME IInv, Skip
  PROVE  IInv'
  <1> USE DEF Skip, judges
  <1>1. TypeOK'
    BY DEF IInv, TypeOK
  <1>2. Heard'
    BY DEF IInv, Heard, Unasked, Skipped, NoDecision
  <1>3. StepsInOrder' /\ RowsFollow'
    BY DEF StepsInOrder, RowsFollow
  <1>4. Closed'
    BY DEF IInv, Closed
  <1> QED
    BY <1>1, <1>2, <1>3, <1>4 DEF IInv

\* The first steps and judgements are in order.
LEMMA BeginKeeps ==
  ASSUME GatewayAssumption, IInv, Begin
  PROVE  IInv'
  <1> USE DEF judges
  <1>1. PICK method \in Methods :
          /\ context' \in Context /\ context'.method = method
          /\ local' \in Decision /\ local'.source = "python-simulator"
          /\ steps' = Completed(MethodSteps(method))
                      \o <<Step("verification_antifraud_request", "completed")>>
    <2>1. PICK amount \in Amounts, domain \in Domains, entropy \in Entropies,
               method \in Methods, mode \in {"approve", "decline", "timeout"} :
            /\ \E R \in Reasons(method) : context' = ContextFor(method, R, amount, domain)
            /\ local' = LocalDecision(mode, LocalRisk(amount, domain, entropy))
            /\ steps' = Completed(MethodSteps(method))
                        \o <<Step("verification_antifraud_request", "completed")>>
      BY DEF Begin
    <2>2. amount \in Nat /\ entropy \in 0 .. 29
      BY <2>1, GatewayAssumption DEF GatewayAssumption
    <2>3. PICK R \in Reasons(method) : context' = ContextFor(method, R, amount, domain)
      BY <2>1
    <2>4. context' \in Context /\ context'.method = method
      BY <2>2, <2>3, ContextType DEF ContextFor
    <2>5. local' \in Decision /\ local'.source = "python-simulator"
      <3>1. local' = LocalDecision(mode, LocalRisk(amount, domain, entropy))
        BY <2>1
      <3> QED
        BY <2>2, <3>1, LocalRiskType, LocalType
    <2> QED
      BY <2>1, <2>4, <2>5
  <1>2. /\ pc = "idle" /\ pc' = "verify"
        /\ UNCHANGED <<attempt, verification, processor, decision, written, books, answer>>
    BY DEF Begin
  <1>3. TypeOK'
    BY <1>1, <1>2 DEF IInv, TypeOK
  <1>4. Heard'
    BY <1>1, <1>2 DEF IInv, Heard, Unasked, Judged
  <1>5. StepsInOrder'
    <2> DEFINE old == Completed(MethodSteps(method))
               new == <<Step("verification_antifraud_request", "completed")>>
               k == Len(MethodSteps(method))
    <2>1. MethodSteps(method) \in Seq(StepName) /\ k \in {5, 6}
      BY CapabilityShape
    <2>2. old \in Seq(Steps) /\ Len(old) = k
          /\ \A i \in 1 .. k : old[i].name = MethodSteps(method)[i]
      <3>1. \A i \in 1 .. k : MethodSteps(method)[i] \in StepName
        BY <2>1
      <3>2. \A i \in 1 .. k : Step(MethodSteps(method)[i], "completed") \in Steps
        BY <3>1 DEF Step, Steps
      <3> QED
        BY <2>1, <3>2 DEF Completed, Step
    <2>3. new \in Seq(Steps) /\ Len(new) = 1 /\ new[1].name = "verification_antifraud_request"
      BY DEF Step, Steps, StepName
    <2> HIDE DEF old, new, k
    <2>4. /\ Capability(method) \in Seq(StepName)
          /\ \A i \in 1 .. k : Capability(method)[i] = MethodSteps(method)[i]
          /\ Capability(method)[k + 1] = "verification_antifraud_request"
      BY CapabilityShape DEF k
    <2>5. \A i \in 1 .. Len(old) : old[i].name = Capability(method)[i]
      BY <2>2, <2>4
    <2>6. \A i \in 1 .. Len(new) : new[i].name = Capability(method)[Len(old) + i]
      BY <2>2, <2>3, <2>4
    <2>7. /\ old \o new \in Seq(Steps) /\ Len(old \o new) = k + 1
          /\ \A i \in 1 .. Len(old \o new) : (old \o new)[i].name = Capability(method)[i]
      <3>1. old \in Seq(Steps) /\ new \in Seq(Steps) /\ Len(new) > 0
        BY <2>2, <2>3
      <3>2. Capability(method) \in Seq(StepName)
        BY <2>4
      <3>3. /\ old \o new \in Seq(Steps) /\ Len(old \o new) = Len(old) + Len(new)
            /\ \A i \in 1 .. Len(old \o new) : (old \o new)[i].name = Capability(method)[i]
        BY <3>1, <3>2, <2>5, <2>6, EmittedInOrder
      <3> QED
        BY <3>3, <2>2, <2>3
    <2>8. steps' = old \o new
      BY <1>1 DEF old, new
    <2> QED
      BY <1>1, <1>2, <2>7, <2>8 DEF StepsInOrder, Emitted, Judged, k
  <1>6. RowsFollow'
    BY <1>2 DEF IInv, Heard, Unasked, RowsFollow
  <1>7. Closed'
    BY <1>2 DEF IInv, Closed
  <1> QED
    BY <1>3, <1>4, <1>5, <1>6, <1>7 DEF IInv

\* More steps of the same method follow.
LEMMA MoreSteps ==
  ASSUME NEW new \in Seq(Steps), Len(new) > 0, StepsInOrder, pc # "idle", decision # Skipped,
         \A i \in 1 .. Len(new) :
           new[i].name =
             Capability(context.method)[Len(MethodSteps(context.method)) + Emitted + i]
  PROVE  LET more == steps \o new IN
         /\ more \in Seq(Steps)
         /\ Len(more) = Len(MethodSteps(context.method)) + Emitted + Len(new)
         /\ \A i \in 1 .. Len(more) : more[i].name = Capability(context.method)[i]
         /\ more[Len(more)] = new[Len(new)]
  <1>1. /\ steps \in Seq(Steps) /\ Capability(context.method) \in Seq(StepName)
        /\ \A i \in 1 .. Len(steps) : steps[i].name = Capability(context.method)[i]
    BY CapabilityShape DEF StepsInOrder
  <1>2. Len(steps) = Len(MethodSteps(context.method)) + Emitted
    BY DEF StepsInOrder
  <1>3. \A i \in 1 .. Len(new) : new[i].name = Capability(context.method)[Len(steps) + i]
    BY <1>2
  <1>4. /\ steps \o new \in Seq(Steps) /\ Len(steps \o new) = Len(steps) + Len(new)
        /\ \A i \in 1 .. Len(steps \o new) : (steps \o new)[i].name = Capability(context.method)[i]
        /\ (steps \o new)[Len(steps \o new)] = new[Len(new)]
    BY <1>1, <1>3, EmittedInOrder
  <1> QED
    BY <1>2, <1>4

\* The verification adds its two steps.
LEMMA VerifyKeeps ==
  ASSUME GatewayAssumption, IInv, Verify
  PROVE  IInv'
  <1> USE DEF judges
  <1>1. /\ pc = "verify" /\ pc' = "authorize" /\ verification' \in Verifications
        /\ UNCHANGED <<attempt, context, local, processor, decision, written, books, answer>>
    BY DEF Verify
  <1>2. decision # Skipped /\ decision = NoDecision
    BY <1>1 DEF IInv, Heard, Judged
  <1>3. TypeOK'
    BY <1>1 DEF IInv, TypeOK
  <1>4. Heard'
    BY <1>1, <1>2 DEF IInv, Heard, Judged
  <1>5. StepsInOrder'
    <2> DEFINE k == Len(MethodSteps(context.method))
               new == <<Step("verification_antifraud_response", VerificationStatus(verification')),
                        Step("processor_authorization_request", "completed")>>
    <2>1. VerificationStatus(verification') \in Down \cup {"completed", "declined", "review"}
      BY <1>1, ResultTypes DEF VerificationStatus
    <2>2. /\ new \in Seq(Steps) /\ Len(new) = 2
          /\ new[1].name = "verification_antifraud_response"
          /\ new[2].name = "processor_authorization_request"
      <3>1. /\ Step("verification_antifraud_response", VerificationStatus(verification')) \in Steps
            /\ Step("processor_authorization_request", "completed") \in Steps
        BY <2>1 DEF Step, Steps, StepName
      <3> QED
        BY <3>1 DEF Step
    <2> HIDE DEF new
    <2>3. /\ k \in {5, 6}
          /\ Capability(context.method)[k + 2] = "verification_antifraud_response"
          /\ Capability(context.method)[k + 3] = "processor_authorization_request"
      BY CapabilityShape
    <2>4. Emitted = 1
      BY <1>1 DEF Emitted
    <2>5. \A i \in 1 .. Len(new) : new[i].name = Capability(context.method)[k + Emitted + i]
      <3> HIDE DEF k
      <3>1. \A i \in 1 .. Len(new) : i = 1 \/ i = 2
        BY <2>2
      <3>2. k + 1 + 1 = k + 2 /\ k + 1 + 2 = k + 3
        BY <2>3
      <3> QED
        BY <2>2, <2>3, <2>4, <3>1, <3>2
    <2>6. steps' = steps \o new
      BY DEF Verify, new
    <2>7. /\ steps' \in Seq(Steps) /\ Len(steps') = k + 1 + 2
          /\ \A i \in 1 .. Len(steps') : steps'[i].name = Capability(context.method)[i]
      <3>1. new \in Seq(Steps) /\ Len(new) > 0
        BY <2>2
      <3>2. StepsInOrder /\ pc # "idle"
        BY <1>1 DEF IInv
      <3> QED
        BY <1>2, <2>2, <2>4, <2>5, <2>6, <3>1, <3>2, MoreSteps
    <2>8. Emitted' = 3
      BY <1>1 DEF Emitted
    <2>9. k + 1 + 2 = k + 3
      BY <2>3
    <2> QED
      BY <1>1, <2>7, <2>8, <2>9 DEF StepsInOrder, Judged
  <1>6. RowsFollow'
    BY <1>1, <1>2 DEF IInv, RowsFollow
  <1>7. Closed'
    BY <1>1 DEF IInv, Closed
  <1> QED
    BY <1>3, <1>4, <1>5, <1>6, <1>7 DEF IInv

\* The processor adds its two steps, and the last ones follow.
LEMMA AuthorizeKeeps ==
  ASSUME GatewayAssumption, IInv, Authorize
  PROVE  IInv'
  <1> USE DEF judges
  <1>1. /\ pc = "authorize" /\ pc' = "transaction" /\ processor' \in Processings
        /\ decision' = Merged(context, local, verification, processor')
        /\ UNCHANGED <<attempt, context, local, verification, written, books, answer>>
    BY DEF Authorize
  <1>2. /\ decision = NoDecision /\ decision # Skipped
        /\ context \in Context /\ local \in Decision /\ verification \in Verifications
        /\ local.source = "python-simulator"
    BY <1>1 DEF IInv, Heard, Judged
  <1>3. decision' \in Decision /\ decision' # Skipped
    <2>1. decision' \in Decision
      BY <1>1, <1>2, MergedType
    <2> QED
      BY <2>1 DEF Decision, Statuses, Skipped, NoDecision
  <1>4. TypeOK'
    BY <1>1, <1>3 DEF IInv, TypeOK
  <1>5. Heard'
    BY <1>1, <1>2, <1>3 DEF Heard, Judged
  <1>6. StepsInOrder'
    <2> DEFINE k == Len(MethodSteps(context.method))
               new == <<Step("processor_authorization_response", ProcessorStatus(processor')),
                        Step("network_authorization_routing", "completed"),
                        Step("merchant_authorization_result", FinalStatus(decision'))>>
    <2>1. /\ ProcessorStatus(processor') \in Down \cup {"completed"}
          /\ FinalStatus(decision') \in {"completed", "declined", "timeout"}
      <3>1. processor'.status \in Down \cup {"ok"}
        BY <1>1 DEF Processings, Results
      <3> QED
        BY <1>3, <3>1 DEF ProcessorStatus, FinalStatus, Decision, Statuses
    <2>2. /\ new \in Seq(Steps) /\ Len(new) = 3
          /\ new[1].name = "processor_authorization_response"
          /\ new[2].name = "network_authorization_routing"
          /\ new[3].name = "merchant_authorization_result"
          /\ new[3].status = FinalStatus(decision')
      <3>1. /\ Step("processor_authorization_response", ProcessorStatus(processor')) \in Steps
            /\ Step("network_authorization_routing", "completed") \in Steps
            /\ Step("merchant_authorization_result", FinalStatus(decision')) \in Steps
        BY <2>1 DEF Step, Steps, StepName
      <3> QED
        BY <3>1 DEF Step
    <2> HIDE DEF new
    <2>3. /\ k \in {5, 6}
          /\ Capability(context.method)[k + 4] = "processor_authorization_response"
          /\ Capability(context.method)[k + 5] = "network_authorization_routing"
          /\ Capability(context.method)[k + 6] = "merchant_authorization_result"
      BY CapabilityShape
    <2>4. Emitted = 3
      BY <1>1 DEF Emitted
    <2>5. \A i \in 1 .. Len(new) : new[i].name = Capability(context.method)[k + Emitted + i]
      <3> HIDE DEF k
      <3>1. \A i \in 1 .. Len(new) : i = 1 \/ i = 2 \/ i = 3
        BY <2>2
      <3>2. k + 3 + 1 = k + 4 /\ k + 3 + 2 = k + 5 /\ k + 3 + 3 = k + 6
        BY <2>3
      <3> QED
        BY <2>2, <2>3, <2>4, <3>1, <3>2
    <2>6. steps' = steps \o new
      BY DEF Authorize, new
    <2>7. /\ steps' \in Seq(Steps) /\ Len(steps') = k + 3 + 3
          /\ \A i \in 1 .. Len(steps') : steps'[i].name = Capability(context.method)[i]
          /\ steps'[Len(steps')] = new[3]
      <3>1. new \in Seq(Steps) /\ Len(new) > 0
        BY <2>2
      <3>2. StepsInOrder /\ pc # "idle"
        BY <1>1 DEF IInv
      <3> QED
        BY <1>2, <2>2, <2>4, <2>5, <2>6, <3>1, <3>2, MoreSteps
    <2>8. Emitted' = 6
      BY <1>1 DEF Emitted
    <2>9. k + 3 + 3 = k + 6
      BY <2>3
    <2> QED
      BY <1>1, <2>2, <2>7, <2>8, <2>9 DEF StepsInOrder
  <1>7. RowsFollow'
    BY <1>1, <1>2, <1>3 DEF IInv, RowsFollow
  <1>8. Closed'
    BY <1>1 DEF IInv, Closed
  <1> QED
    BY <1>4, <1>5, <1>6, <1>7, <1>8 DEF IInv

\* What is written is what was decided.
LEMMA PersistKeeps ==
  ASSUME IInv, PersistTransaction \/ PersistEvents
  PROVE  IInv'
  <1> USE DEF judges
  <1>1. /\ pc \in {"transaction", "events"} /\ pc' \in {"events", "commit"}
        /\ UNCHANGED <<attempt, context, local, verification, processor, decision, steps,
                       books, answer>>
    BY DEF PersistTransaction, PersistEvents
  <1>2. decision # Skipped
    BY <1>1 DEF IInv, Heard
  <1>3. TypeOK'
    BY <1>1 DEF IInv, TypeOK
  <1>4. Heard'
    BY <1>1, <1>2 DEF IInv, Heard, Judged
  <1>5. StepsInOrder'
    BY <1>1, <1>2 DEF IInv, StepsInOrder, Emitted, Judged
  <1>6. RowsFollow'
    <2>1. Row' = Row
      BY <1>1 DEF Row
    <2>2. CASE PersistTransaction
      BY <1>1, <1>2, <2>1, <2>2 DEF IInv, RowsFollow, PersistTransaction
    <2>3. CASE PersistEvents
      BY <1>1, <1>2, <2>1, <2>3 DEF IInv, RowsFollow, PersistEvents, NoRows
    <2> QED
      BY <2>2, <2>3
  <1>7. Closed'
    BY <1>1 DEF IInv, Closed
  <1> QED
    BY <1>3, <1>4, <1>5, <1>6, <1>7 DEF IInv

\* What is committed is what was written.
LEMMA CommitKeeps ==
  ASSUME IInv, Commit
  PROVE  IInv'
  <1> USE DEF judges
  <1>1. /\ pc = "commit" /\ pc' = "answered" /\ books' = written /\ written' = NoRows
        /\ answer' = decision
        /\ UNCHANGED <<attempt, context, local, verification, processor, decision, steps>>
    BY DEF Commit
  <1>2. TypeOK'
    BY <1>1 DEF IInv, TypeOK
  <1>3. Heard'
    BY <1>1 DEF IInv, Heard, Judged, Unasked
  <1>4. StepsInOrder'
    BY <1>1 DEF IInv, StepsInOrder, Emitted, Judged
  <1>5. RowsFollow'
    <2>1. Row' = Row
      BY <1>1 DEF Row
    <2> QED
      BY <1>1, <2>1 DEF IInv, RowsFollow
  <1>6. Closed'
    BY <1>1 DEF IInv, Closed, Heard, Unasked
  <1> QED
    BY <1>2, <1>3, <1>4, <1>5, <1>6 DEF IInv

\* A rollback leaves the books as they were.
LEMMA FailKeeps ==
  ASSUME GatewayAssumption, IInv, Fail
  PROVE  IInv'
  <1>1. TypeOK'
    BY DEF Fail, IInv, TypeOK, GatewayAssumption
  <1>2. Heard'
    BY DEF Fail, Heard, Unasked, NoDecision, Skipped
  <1>3. StepsInOrder' /\ RowsFollow'
    BY DEF Fail, StepsInOrder, RowsFollow
  <1>4. Closed'
    BY DEF Fail, IInv, Closed
  <1> QED
    BY <1>1, <1>2, <1>3, <1>4 DEF IInv

\* A stutter changes nothing.
LEMMA StutterKeeps ==
  ASSUME IInv, UNCHANGED vars
  PROVE  IInv'
  BY DEF vars, judges, IInv, TypeOK, Heard, Unasked, Judged, StepsInOrder, Emitted, RowsFollow,
     Row, Closed

\* Every step keeps the invariant.
THEOREM NextIInv ==
  ASSUME GatewayAssumption, IInv, [Next]_vars
  PROVE  IInv'
  <1>1. CASE Answered
    BY <1>1, StutterKeeps DEF Answered
  <1> QED
    BY <1>1, SkipKeeps, BeginKeeps, VerifyKeeps, AuthorizeKeeps, PersistKeeps, CommitKeeps,
       FailKeeps, StutterKeeps DEF Next

\* IInv holds in every reachable state.
THEOREM IInvHolds == Spec => []IInv
  <1>1. Init => IInv
    BY InitIInv
  <1>2. IInv /\ [Next]_vars => IInv'
    BY GatewayAssumption, NextIInv
  <1> QED
    BY <1>1, <1>2, PTL DEF Spec

\* Every score stays between 0 and 99, and every result and decision in its range.
THEOREM TypeCorrect == Spec => []TypeOK
  <1>1. IInv => TypeOK
    BY DEF IInv
  <1> QED
    BY <1>1, IInvHolds, PTL

\* What is stored of a payment says what the checkout was told.
THEOREM StoredAsAnswered == Spec => []BooksAgree
  <1>1. IInv => BooksAgree
    <2> SUFFICES ASSUME IInv, pc = "answered", answer.status # "skipped"
                 PROVE  /\ books.transaction.status = answer.status
                        /\ books.transaction.source = answer.source
                        /\ books.transaction.score <= answer.risk
                        /\ [i \in 1 .. Len(books.events) |-> books.events[i].name]
                             = Capability(books.transaction.method)
                        /\ books.events[Len(books.events)].status = FinalStatus(answer)
      <3>1. IInv /\ pc = "answered" /\ answer.status = "skipped" => books = NoRows
        <4> SUFFICES ASSUME IInv, pc = "answered", answer.status = "skipped"
                     PROVE  books = NoRows
          OBVIOUS
        <4>1. answer = decision
          BY DEF IInv, Closed
        <4>2. decision = Skipped
          <5>1. decision \in Decision \cup {NoDecision, Skipped}
            BY DEF IInv, TypeOK
          <5> QED
            BY <4>1, <5>1 DEF Decision, Statuses, NoDecision
        <4> QED
          BY <4>2 DEF IInv, Closed
      <3> QED
        BY <3>1 DEF BooksAgree
    <2>1. answer = decision /\ decision # Skipped
      BY DEF IInv, Closed, Skipped, NoDecision
    <2>2. books = [transaction |-> Row, events |-> steps]
      BY <2>1 DEF IInv, RowsFollow
    <2>3. /\ context \in Context /\ local \in Decision /\ verification \in Verifications
          /\ processor \in Processings
          /\ decision = Merged(context, local, verification, processor)
      BY <2>1 DEF IInv, Heard, Judged
    <2>4. context.risk <= decision.risk
      BY <2>3, GatewayAssumption, MergedRisk
    <2>5. /\ Len(steps) = Len(MethodSteps(context.method)) + 6
          /\ \A i \in 1 .. Len(steps) : steps[i].name = Capability(context.method)[i]
          /\ steps[Len(steps)].status = FinalStatus(decision)
      BY <2>1 DEF IInv, StepsInOrder, Emitted, Judged
    <2>6. [i \in 1 .. Len(steps) |-> steps[i].name] = Capability(context.method)
      <3>1. /\ Capability(context.method) \in Seq(StepName)
            /\ Len(Capability(context.method)) = Len(steps)
        BY <2>5, CapabilityShape
      <3> QED
        BY <2>5, <3>1
    <2> QED
      BY <2>1, <2>2, <2>4, <2>5, <2>6 DEF Row
  <1> QED
    BY <1>1, IInvHolds, PTL

\* The source of a merged decision names a judge that took it.
LEMMA MergedSource ==
  ASSUME GatewayAssumption, NEW c \in Context, NEW l \in Decision,
         l.source = "python-simulator", NEW v \in Verifications, NEW p \in Processings
  PROVE  LET d == Merged(c, l, v, p) IN
         /\ d.source = "java-antifraud-verification-app" <=> v.decision = "declined"
         /\ d.source = "java-app-server" =>
              p.decision = d.status \/ (p.decision = "approved" /\ d.status = "authorized")
         /\ d.source = "internal-antifraud" => ShouldDecline(c)
         /\ d.source = "python-simulator" => d.status = l.status
         /\ d.source = "java-antifraud-review" =>
              ShouldDecline(c) \/ (v.decision = "review" /\ d.status = l.status)
  <1> DEFINE m == MergeVerification(l, v)
             n == MergeProcessor(m, p)
             d == ApplyAntifraud(n, c)
  <1>1. /\ m.status = IF v.decision = "declined" THEN "declined" ELSE l.status
        /\ m.source = CASE v.decision = "declined" -> "java-antifraud-verification-app"
                         [] v.decision = "review"   -> "java-antifraud-review"
                         [] OTHER -> "python-simulator"
    BY ResultTypes DEF MergeVerification
  <1> HIDE DEF m
  <1>2. \/ n = m
        \/ /\ m.status \notin {"declined", "timeout"} /\ n.source = "java-app-server"
           /\ \/ p.decision = "approved" /\ n.status = "authorized"
              \/ p.decision = n.status
    BY DEF MergeProcessor
  <1> HIDE DEF n
  <1>3. /\ ShouldDecline(c) => /\ d.status = "declined"
                              /\ d.source = IF n.source \in {"java-antifraud-verification-app",
                                                            "java-antifraud-review"}
                                             THEN n.source ELSE "internal-antifraud"
        /\ ~ShouldDecline(c) => d.status = n.status /\ d.source = n.source
    BY DEF ApplyAntifraud
  <1> HIDE DEF d
  <1>4. Merged(c, l, v, p) = d
    BY DEF Merged, d, n, m
  <1>5. CASE n = m
    BY <1>1, <1>3, <1>4, <1>5
  <1>6. CASE n # m
    <2>1. v.decision # "declined" /\ n.source = "java-app-server"
      BY <1>1, <1>2, <1>6
    <2> QED
      BY <1>2, <1>3, <1>4, <1>6, <2>1
  <1> QED
    BY <1>5, <1>6

\* The source stored with a decision is a judge that took it.
THEOREM SourceIsTheJudge == Spec => []SourceNamesTheJudge
  <1>1. IInv => SourceNamesTheJudge
    <2> SUFFICES ASSUME IInv, decision.source # "none"
                 PROVE  SourceNamesTheJudge
      BY DEF SourceNamesTheJudge
    <2>1. pc # "idle" /\ decision # Skipped /\ decision # NoDecision
      BY DEF IInv, Heard, Skipped, NoDecision
    <2>2. /\ context \in Context /\ local \in Decision /\ local.source = "python-simulator"
          /\ verification \in Verifications /\ processor \in Processings
          /\ decision = Merged(context, local, verification, processor)
      BY <2>1 DEF IInv, Heard, Judged
    <2> QED
      BY <2>2, GatewayAssumption, MergedSource DEF SourceNamesTheJudge
  <1> QED
    BY <1>1, IInvHolds, PTL

\* What those who have been asked vote.
LEMMA VoteShape ==
  ASSUME GatewayAssumption, NEW c \in Context, NEW l \in Decision, NEW v \in Verifications,
         NEW p \in Processings
  PROVE  /\ ContextVote(c) = IF ShouldDecline(c) THEN "no" ELSE "yes"
         /\ LocalVote(l) = IF l.status = "authorized" THEN "yes" ELSE "no"
         /\ VerificationVote(v) \in {"yes", "no", "silent"}
         /\ VerificationVote(v) = "no" <=> v.decision = "declined"
         /\ ProcessorVote(p) \in {"yes", "no", "silent"}
         /\ ProcessorVote(p) = "no" <=> p.decision \in {"declined", "timeout"}
  <1>1. c # NoContext /\ l # NoDecision
    BY DEF Context, Methods, NoContext, Decision, Statuses, NoDecision
  <1>2. v # NoResult /\ p # NoResult
    BY ResultTypes
  <1>3. /\ ContextVote(c) = IF ShouldDecline(c) THEN "no" ELSE "yes"
        /\ LocalVote(l) = IF l.status = "authorized" THEN "yes" ELSE "no"
    BY <1>1 DEF ContextVote, LocalVote
  <1>4. /\ VerificationVote(v) \in {"yes", "no", "silent"}
        /\ VerificationVote(v) = "no" <=> v.decision = "declined"
    BY <1>2, ResultTypes DEF VerificationVote, Down
  <1>5. /\ ProcessorVote(p) \in {"yes", "no", "silent"}
        /\ ProcessorVote(p) = "no" <=> p.decision \in {"declined", "timeout"}
    BY <1>2 DEF ProcessorVote
  <1> QED
    BY <1>3, <1>4, <1>5

\* Every vote is one the abstract specification knows.
LEMMA VoteType ==
  ASSUME NEW c, NEW l, NEW v, NEW p
  PROVE  Poll(c, l, v, p) \in [Judges -> {"none", "yes", "no", "silent"}]
  BY DEF Poll, Judges, ContextVote, LocalVote, VerificationVote, ProcessorVote

\* Before anyone was asked nobody was heard.
LEMMA BlankVotes == Poll(NoContext, NoDecision, NoResult, NoResult) = Veto!Unheard
  <1>1. /\ ContextVote(NoContext) = "none" /\ LocalVote(NoDecision) = "none"
        /\ VerificationVote(NoResult) = "none" /\ ProcessorVote(NoResult) = "none"
    BY DEF ContextVote, LocalVote, VerificationVote, ProcessorVote, NoResult, Down
  <1> QED
    BY <1>1 DEF Poll, Veto!Unheard, Judges

\* The merges implement the veto of PaymentVeto: one no of a judge that could be
\* asked refuses the payment, and nothing else does.
THEOREM NoIsFinal == Spec => VetoSpec
  <1>1. Init => Veto!Init
    <2> SUFFICES ASSUME Init PROVE Veto!Init
      OBVIOUS
    <2>1. Votes = Veto!Unheard
      BY BlankVotes DEF Init, Votes
    <2>2. Verdict = "open"
      BY DEF Init, Verdict, NoDecision
    <2> QED
      BY <2>1, <2>2 DEF Veto!Init
  <1>2. IInv /\ IInv' /\ [Next]_vars => [Veto!Next]_(Veto!vetoVars)
    <2> SUFFICES ASSUME IInv, IInv', [Next]_vars
                 PROVE  Veto!Next \/ UNCHANGED <<Votes, Verdict>>
      BY DEF Veto!vetoVars
    <2>0. TypeOK /\ TypeOK' /\ GatewayAssumption
      BY GatewayAssumption DEF IInv
    <2>1. CASE Skip
      <3>1. Votes = Veto!Unheard
        BY <2>1, BlankVotes DEF Skip, IInv, Heard, Unasked, Votes
      <3>2. Votes' = Votes
        BY <2>1 DEF Skip, judges, Votes
      <3>3. Verdict = "open" /\ Verdict' = "skipped"
        BY <2>1 DEF Skip, IInv, Heard, Verdict, NoDecision, Skipped
      <3> QED
        BY <3>1, <3>2, <3>3 DEF Veto!Next, Veto!Skip
    <2>2. CASE Begin \/ Verify
      <3>1. /\ UNCHANGED decision /\ decision = NoDecision
            /\ pc = "idle" => /\ Votes = Veto!Unheard
            /\ pc # "idle" => UNCHANGED <<context, local, processor>> /\ verification = NoResult
        BY <2>2, BlankVotes DEF Begin, Verify, judges, IInv, Heard, Unasked, Judged, Skipped,
           NoDecision, Votes
      <3>2. Verdict = "open" /\ Verdict' = "open"
        BY <3>1 DEF Verdict, NoDecision
      <3>3. Votes' \in [Judges -> {"none", "yes", "no", "silent"}]
        BY VoteType DEF Votes
      <3>4. \A j \in Judges : Votes[j] \in {"none", Votes'[j]}
        <4>1. CASE pc = "idle"
          BY <3>1, <4>1 DEF Veto!Unheard
        <4>2. CASE pc # "idle"
          <5>1. VerificationVote(verification) = "none"
            BY <3>1, <4>2 DEF VerificationVote, NoResult, Down
          <5> QED
            BY <3>1, <4>2, <5>1 DEF Votes, Poll, Judges
        <4> QED
          BY <4>1, <4>2
      <3> QED
        BY <3>2, <3>3, <3>4 DEF Veto!Next, Veto!Hear
    <2>4. CASE Authorize
      <3>1. /\ decision = NoDecision
            /\ context \in Context /\ local \in Decision /\ verification \in Verifications
            /\ processor = NoResult /\ processor' \in Processings
            /\ decision' = Merged(context, local, verification, processor')
            /\ UNCHANGED <<context, local, verification>>
        BY <2>4 DEF Authorize, IInv, Heard, Judged, Skipped, NoDecision
      <3>2. Verdict = "open"
        BY <3>1 DEF Verdict, NoDecision
      <3>3. Votes' \in [Judges -> {"yes", "no", "silent"}]
        BY <2>0, <3>1, VoteShape DEF Votes, Poll, Judges
      <3>4. \A j \in Judges : Votes[j] \in {"none", Votes'[j]}
        <4>1. ProcessorVote(processor) = "none"
          BY <3>1 DEF ProcessorVote, NoResult
        <4> QED
          BY <3>1, <4>1 DEF Votes, Poll, Judges
      <3>5. decision'.status = "authorized" <=> ~ \E j \in Judges : Votes'[j] = "no"
        <4>1. decision'.status = "authorized" <=>
                /\ ~ShouldDecline(context) /\ local.status = "authorized"
                /\ verification.decision # "declined"
                /\ processor'.decision \notin {"declined", "timeout"}
          BY <2>0, <3>1, MergedIsVeto
        <4>2. /\ Votes'["context"] = "no" <=> ShouldDecline(context)
              /\ Votes'["local"] = "no" <=> local.status # "authorized"
              /\ Votes'["verification"] = "no" <=> verification.decision = "declined"
              /\ Votes'["processor"] = "no" <=> processor'.decision \in {"declined", "timeout"}
          BY <2>0, <3>1, VoteShape DEF Votes, Poll, Judges
        <4> QED
          BY <4>1, <4>2 DEF Judges
      <3>6. Verdict' = IF \E j \in Judges : Votes'[j] = "no" THEN "refused" ELSE "authorized"
        <4>1. decision'.status \in Statuses
          BY <2>0, <3>1, MergedType DEF Decision
        <4> QED
          BY <3>5, <4>1 DEF Verdict, Statuses
      <3> QED
        BY <3>2, <3>3, <3>4, <3>6 DEF Veto!Next, Veto!Decide
    <2>5. CASE PersistTransaction \/ PersistEvents \/ Commit \/ Answered \/ UNCHANGED vars
      BY <2>5 DEF PersistTransaction, PersistEvents, Commit, Answered, vars, judges, Votes,
         Verdict
    <2>6. CASE Fail
      <3>1. Votes' = Veto!Unheard
        BY <2>6, BlankVotes DEF Fail, Votes
      <3>2. Verdict' = "open"
        BY <2>6 DEF Fail, Verdict, NoDecision
      <3> QED
        BY <3>1, <3>2 DEF Veto!Next, Veto!Restart
    <2> QED
      BY <2>1, <2>2, <2>4, <2>5, <2>6 DEF Next
  <1> QED
    BY <1>1, <1>2, IInvHolds, PTL DEF Spec, VetoSpec, Veto!Spec
=============================================================================
