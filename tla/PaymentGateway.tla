--------------------------- MODULE PaymentGateway --------------------------
(***************************************************************************)
(* The authorization of one checkout's payment (authorize_simulated_payment *)
(* and what it calls).  Four judges: the shop's own antifraud score of the  *)
(* card or wallet, the local simulator, and two calls to the Java sidecar,  *)
(* the antifraud verification and the processor, either of which may be     *)
(* off, unreachable or broken.  Their answers are merged one after another, *)
(* and the decision and the trail of gateway steps are written in the       *)
(* checkout's transaction, which may still fail and be tried again.         *)
(***************************************************************************)
EXTENDS Integers, Sequences

CONSTANTS
  Amounts,     \* what the orders cost, in 100,000 minor units
  Domains,     \* the customer's mail domain: "demo", "test" (in one list only), "other"
  Entropies,   \* what the reference's digest adds to the local risk
  JudgeRisks,  \* the scores the sidecar may return, 0 for none
  MaxAttempts  \* bound: tries of one checkout

ASSUME GatewayAssumption ==
  /\ Amounts \subseteq Nat
  /\ Domains \subseteq {"demo", "test", "other"}
  /\ Entropies \subseteq 0 .. 29
  /\ JudgeRisks \subseteq 0 .. 99
  /\ MaxAttempts \in Nat

VARIABLES
  pc,            \* where the authorization is
  attempt,
  context,       \* PaymentContext
  local,         \* the simulator's decision
  verification,  \* the result of the call to the verification app
  processor,     \* the result of the call to the processor
  decision,      \* the merged decision
  steps,         \* the gateway steps emitted so far
  written,       \* the rows of the open transaction
  books,         \* the rows of the committed one
  answer         \* what the checkout was told

judges == <<context, local, verification, processor>>
vars   == <<pc, attempt, judges, decision, steps, written, books, answer>>

Risk == 0 .. 99

AtMost(n, x) == IF x < n THEN x ELSE n
AtLeast(n, x) == IF x < n THEN n ELSE x
----------------------------------------------------------------------------
\* The context of a payment (checkout_workflow.py)

Methods == {"credit_card", "apple_pay", "google_pay", "bank_transfer", "crypto", "wire"}

CardFaults ==
  {"invalid_luhn", "unsupported_card_network", "issuer_decline_test_card", "missing_expiry",
   "expired_card", "invalid_cvv", "legacy_no_card_details", "billing_postal_code_format"}

WalletFaults == {"missing_wallet_token", "unsupported_wallet_network"}

\* The test cards are genuine numbers; without a number only the postal code is
\* looked at.
CardReasons(R) ==
  /\ ~({"missing_expiry", "expired_card"} \subseteq R)
  /\ "issuer_decline_test_card" \in R => R \cap {"invalid_luhn", "unsupported_card_network"} = {}
  /\ "legacy_no_card_details" \in R =>
       R \subseteq {"legacy_no_card_details", "billing_postal_code_format"}

Reasons(method) ==
  CASE method = "credit_card" -> {R \in SUBSET CardFaults : CardReasons(R)}
    [] method \in {"apple_pay", "google_pay"} -> SUBSET WalletFaults
    [] OTHER -> {{}}

Blocking ==
  {"invalid_luhn", "expired_card", "invalid_cvv", "missing_wallet_token",
   "unsupported_card_network", "issuer_decline_test_card"}

BaseRisk(amount, domain) ==
  AtMost(45, amount \div 2) + (IF domain = "other" THEN 8 ELSE 2)

Weight(R, reason, points) == IF reason \in R THEN points ELSE 0

Score_Uncapped(base, R) ==
  base + Weight(R, "invalid_luhn", 80) + Weight(R, "expired_card", 70)

Score(base, R) ==
  AtMost(99,
    base + Weight(R, "invalid_luhn", 80) + Weight(R, "expired_card", 70)
         + Weight(R, "invalid_cvv", 45) + Weight(R, "missing_wallet_token", 80)
         + Weight(R, "unsupported_card_network", 35)
         + Weight(R, "unsupported_wallet_network", 20)
         + Weight(R, "missing_expiry", 20) + Weight(R, "issuer_decline_test_card", 90)
         + Weight(R, "billing_postal_code_format", 15))

ContextFor(method, R, amount, domain) ==
  [method |-> method, reasons |-> R, risk |-> Score(BaseRisk(amount, domain), R)]

ShouldDecline(c) == c.risk >= 85 \/ c.reasons \cap Blocking # {}
----------------------------------------------------------------------------
\* The local decision (simulated_provider.py)

LocalRisk(amount, domain, entropy) ==
  AtMost(99, AtMost(55, amount) + (IF domain = "demo" THEN 2 ELSE 8) + entropy)

LocalDecision(mode, risk) ==
  LET status == CASE mode = "decline" -> "declined"
                  [] mode = "timeout" -> "timeout"
                  [] OTHER -> IF risk >= 85 THEN "declined" ELSE "authorized"
  IN  [status |-> status,
       risk   |-> IF mode = "decline" THEN AtLeast(85, risk) ELSE risk,
       source |-> "python-simulator"]
----------------------------------------------------------------------------
\* The sidecar's answers (java_app_server.py) and how they are merged
\* (payment_gateway_simulation.py).  A risk of 0 is one that is not there.

Down == {"disabled", "unreachable", "upstream_error"}

Results(words) ==
  {[status |-> s, decision |-> "none", risk |-> 0] : s \in Down} \cup
  [status: {"ok"}, decision: words, risk: JudgeRisks]

Verifications == Results({"approved", "declined", "review", "other"})
Processings   == Results({"approved", "declined", "timeout", "other"})

MergeVerification(d, v) ==
  IF v.status # "ok" THEN d
  ELSE [status |-> IF v.decision = "declined" THEN "declined" ELSE d.status,
        risk   |-> AtLeast(d.risk, v.risk),
        source |-> CASE v.decision = "declined" -> "java-antifraud-verification-app"
                     [] v.decision = "review"   -> "java-antifraud-review"
                     [] OTHER -> d.source]

MergeProcessor_Overrules(d, p) ==
  IF p.status # "ok" \/ p.decision \notin {"approved", "declined", "timeout"}
    THEN d
    ELSE [status |-> IF p.decision = "approved" THEN "authorized" ELSE p.decision,
          risk   |-> IF p.risk = 0 THEN d.risk ELSE p.risk,
          source |-> "java-app-server"]

MergeProcessor(d, p) ==
  IF \/ p.status # "ok"
     \/ d.status \in {"declined", "timeout"}
     \/ p.decision \notin {"approved", "declined", "timeout"}
    THEN d
    ELSE [status |-> IF p.decision = "approved" THEN "authorized" ELSE p.decision,
          risk   |-> IF p.risk = 0 THEN d.risk ELSE p.risk,
          source |-> "java-app-server"]

ApplyAntifraud_NamesItself(d, c) ==
  [status |-> IF ShouldDecline(c) THEN "declined" ELSE d.status,
   risk   |-> AtLeast(d.risk, c.risk),
   source |-> IF ShouldDecline(c) THEN "internal-antifraud" ELSE d.source]

ApplyAntifraud(d, c) ==
  [status |-> IF ShouldDecline(c) THEN "declined" ELSE d.status,
   risk   |-> AtLeast(d.risk, c.risk),
   source |-> IF /\ ShouldDecline(c)
                 /\ d.source \notin {"java-antifraud-verification-app", "java-antifraud-review"}
                THEN "internal-antifraud" ELSE d.source]

Merged(c, l, v, p) == ApplyAntifraud(MergeProcessor(MergeVerification(l, v), p), c)
----------------------------------------------------------------------------
\* The steps of the gateway (gateway_emulator.py)

MethodSteps(method) ==
  CASE method = "google_pay" ->
         <<"gateway_payment_received", "wallet_token_received", "gateway_token_decryption",
           "network_token_cryptogram_validation", "internal_antifraud_screening">>
    [] method = "apple_pay" ->
         <<"gateway_payment_received", "apple_pay_merchant_validation",
           "wallet_token_received", "gateway_token_decryption",
           "network_token_cryptogram_validation", "internal_antifraud_screening">>
    [] OTHER ->
         <<"gateway_payment_received", "card_data_received", "gateway_card_tokenization",
           "internal_antifraud_screening", "card_network_routing">>

CommonSteps ==
  <<"verification_antifraud_request", "verification_antifraud_response",
    "processor_authorization_request", "processor_authorization_response",
    "network_authorization_routing", "merchant_authorization_result">>

\* The steps payment_gateway_capabilities promises for a method.
Capability(method) == MethodSteps(method) \o CommonSteps

Step(name, status) == [name |-> name, status |-> status]

Completed(names) == [i \in 1 .. Len(names) |-> Step(names[i], "completed")]

VerificationStatus(v) ==
  IF v.decision \in {"declined", "review"} THEN v.decision
  ELSE IF v.status = "ok" THEN "completed" ELSE v.status

ProcessorStatus(p) == IF p.status = "ok" THEN "completed" ELSE p.status

FinalStatus(d) == IF d.status = "authorized" THEN "completed" ELSE d.status
----------------------------------------------------------------------------
NoContext  == [method |-> "none", reasons |-> {}, risk |-> 0]
NoResult   == [status |-> "none", decision |-> "none", risk |-> 0]
NoDecision == [status |-> "none", risk |-> 0, source |-> "none"]
Skipped    == [NoDecision EXCEPT !.status = "skipped"]
NoRow      == [status |-> "none", method |-> "none", score |-> 0, source |-> "none"]
NoRows     == [transaction |-> NoRow, events |-> <<>>]

Init ==
  /\ pc = "idle" /\ attempt = 0
  /\ context = NoContext /\ local = NoDecision
  /\ verification = NoResult /\ processor = NoResult
  /\ decision = NoDecision /\ steps = <<>>
  /\ written = NoRows /\ books = NoRows
  /\ answer = NoDecision

\* The simulation is switched off: nobody is asked and nothing is written.
Skip ==
  /\ pc = "idle"
  /\ pc' = "commit"
  /\ decision' = Skipped
  /\ UNCHANGED <<attempt, judges, steps, written, books, answer>>

\* Up to the call to the verification app nothing is awaited.
Begin ==
  /\ pc = "idle"
  /\ \E amount \in Amounts, domain \in Domains, entropy \in Entropies, method \in Methods,
        mode \in {"approve", "decline", "timeout"} :
       /\ \E R \in Reasons(method) : context' = ContextFor(method, R, amount, domain)
       /\ local' = LocalDecision(mode, LocalRisk(amount, domain, entropy))
       /\ steps' = Completed(MethodSteps(method))
                   \o <<Step("verification_antifraud_request", "completed")>>
  /\ pc' = "verify"
  /\ UNCHANGED <<attempt, verification, processor, decision, written, books, answer>>

Verify ==
  /\ pc = "verify"
  /\ verification' \in Verifications
  /\ steps' = steps \o
       <<Step("verification_antifraud_response", VerificationStatus(verification')),
         Step("processor_authorization_request", "completed")>>
  /\ pc' = "authorize"
  /\ UNCHANGED <<attempt, context, local, processor, decision, written, books, answer>>

Authorize_EmitsEarly ==
  /\ pc = "authorize"
  /\ processor' \in Processings
  /\ decision' = Merged(context, local, verification, processor')
  /\ steps' = steps \o
       <<Step("processor_authorization_response", ProcessorStatus(processor')),
         Step("network_authorization_routing", "completed"),
         Step("merchant_authorization_result",
              FinalStatus(MergeProcessor(local, processor')))>>
  /\ pc' = "transaction"
  /\ UNCHANGED <<attempt, context, local, verification, written, books, answer>>

\* The processor is asked whatever the others said; then everything is merged.
Authorize ==
  /\ pc = "authorize"
  /\ processor' \in Processings
  /\ decision' = Merged(context, local, verification, processor')
  /\ steps' = steps \o
       <<Step("processor_authorization_response", ProcessorStatus(processor')),
         Step("network_authorization_routing", "completed"),
         Step("merchant_authorization_result", FinalStatus(decision'))>>
  /\ pc' = "transaction"
  /\ UNCHANGED <<attempt, context, local, verification, written, books, answer>>

Row ==
  [status |-> decision.status, method |-> context.method, score |-> context.risk,
   source |-> decision.source]

PersistTransaction ==
  /\ pc = "transaction"
  /\ written' = [written EXCEPT !.transaction = Row]
  /\ pc' = "events"
  /\ UNCHANGED <<attempt, judges, decision, steps, books, answer>>

\* One INSERT per step; they are rolled back together.
PersistEvents ==
  /\ pc = "events"
  /\ written' = [written EXCEPT !.events = steps]
  /\ pc' = "commit"
  /\ UNCHANGED <<attempt, judges, decision, steps, books, answer>>

\* The rest of the checkout succeeds; its transaction commits and it answers.
Commit ==
  /\ pc = "commit"
  /\ books' = written
  /\ written' = NoRows
  /\ answer' = decision
  /\ pc' = "answered"
  /\ UNCHANGED <<attempt, judges, decision, steps>>

\* An exception the client of the sidecar does not turn into a result, a failed
\* statement, a dead worker: the transaction is rolled back, whatever the
\* processor has authorized.  The customer sends the checkout again.
Fail ==
  /\ pc \notin {"idle", "answered"} /\ attempt < MaxAttempts
  /\ attempt' = attempt + 1
  /\ pc' = "idle"
  /\ context' = NoContext /\ local' = NoDecision
  /\ verification' = NoResult /\ processor' = NoResult
  /\ decision' = NoDecision /\ steps' = <<>>
  /\ written' = NoRows
  /\ UNCHANGED <<books, answer>>

Answered == pc = "answered" /\ UNCHANGED vars

Next ==
  \/ Skip \/ Begin \/ Verify \/ Authorize
  \/ PersistTransaction \/ PersistEvents \/ Commit \/ Fail \/ Answered

Spec == Init /\ [][Next]_vars
----------------------------------------------------------------------------
Statuses == {"authorized", "declined", "timeout"}

Sources ==
  {"python-simulator", "java-app-server", "java-antifraud-verification-app",
   "java-antifraud-review", "internal-antifraud"}

Decision == [status: Statuses, risk: Risk, source: Sources]

Context == [method: Methods, reasons: SUBSET (CardFaults \cup WalletFaults), risk: Risk]

TypeOK ==
  /\ pc \in {"idle", "verify", "authorize", "transaction", "events", "commit", "answered"}
  /\ attempt \in Nat
  /\ context \in Context \cup {NoContext}
  /\ local \in Decision \cup {NoDecision}
  /\ verification \in Verifications \cup {NoResult}
  /\ processor \in Processings \cup {NoResult}
  /\ {decision, answer} \subseteq
       Decision \cup {NoDecision, Skipped}

\* What is stored of a payment says what the checkout was told.  The transaction
\* row and the last event name the same outcome, the events are the steps the
\* gateway promises for the method, in their order, and the risk reported is
\* never below the shop's own score; a skipped payment leaves no row.
BooksAgree ==
  pc = "answered" =>
    IF answer.status = "skipped" THEN books = NoRows
    ELSE LET events == books.events
         IN  /\ books.transaction.status = answer.status
             /\ books.transaction.source = answer.source
             /\ books.transaction.score <= answer.risk
             /\ [i \in 1 .. Len(events) |-> events[i].name]
                  = Capability(books.transaction.method)
             /\ events[Len(events)].status = FinalStatus(answer)

\* The source stored with a decision is a judge that took it: what the
\* verification app declined is told of it and of nobody else, the processor is
\* named only for its own word, and the shop's antifraud only for what it
\* blocks.  ("java-antifraud-review" may cover the shop's own refusal.)
SourceNamesTheJudge ==
  decision.source # "none" =>
    /\ decision.source = "java-antifraud-verification-app" <=> verification.decision = "declined"
    /\ decision.source = "java-app-server" =>
         \/ processor.decision = decision.status
         \/ processor.decision = "approved" /\ decision.status = "authorized"
    /\ decision.source = "internal-antifraud" => ShouldDecline(context)
    /\ decision.source = "python-simulator" => decision.status = local.status
    /\ decision.source = "java-antifraud-review" =>
         \/ ShouldDecline(context)
         \/ verification.decision = "review" /\ decision.status = local.status

\* A no of any judge is final, and without a no the payment is authorized, also
\* when the sidecar is silent: the merges implement PaymentVeto.
Judges == {"context", "local", "verification", "processor"}

ContextVote(c) == IF c = NoContext THEN "none" ELSE IF ShouldDecline(c) THEN "no" ELSE "yes"

LocalVote(l) ==
  IF l = NoDecision THEN "none" ELSE IF l.status = "authorized" THEN "yes" ELSE "no"

VerificationVote(v) ==
  CASE v = NoResult -> "none"
    [] v.decision = "declined" -> "no"
    [] v.status \in Down -> "silent"
    [] OTHER -> "yes"

ProcessorVote(p) ==
  CASE p = NoResult -> "none"
    [] p.decision \in {"declined", "timeout"} -> "no"
    [] p.decision = "approved" -> "yes"
    [] OTHER -> "silent"

Poll(c, l, v, p) ==
  [judge \in Judges |-> CASE judge = "context"      -> ContextVote(c)
                          [] judge = "local"        -> LocalVote(l)
                          [] judge = "verification" -> VerificationVote(v)
                          [] judge = "processor"    -> ProcessorVote(p)]

Votes == Poll(context, local, verification, processor)

Verdict ==
  CASE decision.status = "none" -> "open"
    [] decision.status \in {"authorized", "skipped"} -> decision.status
    [] OTHER -> "refused"

Veto == INSTANCE PaymentVeto WITH
          Judge <- Judges, vote <- Votes, verdict <- Verdict
VetoSpec == Veto!Spec
----------------------------------------------------------------------------
\* The inductive invariant: who has been heard at each point, and what the
\* steps and rows are by then.

Unasked ==
  /\ context = NoContext /\ local = NoDecision
  /\ verification = NoResult /\ processor = NoResult
  /\ steps = <<>> /\ written = NoRows

Judged == pc \in {"transaction", "events", "commit", "answered"}

Heard ==
  /\ pc = "idle" => Unasked /\ decision = NoDecision
  /\ decision = Skipped => Unasked /\ pc \in {"commit", "answered"}
  /\ pc # "idle" /\ decision # Skipped =>
       /\ context \in Context /\ local \in Decision /\ local.source = "python-simulator"
       /\ IF pc = "verify" THEN verification = NoResult ELSE verification \in Verifications
       /\ IF Judged
            THEN processor \in Processings /\ decision = Merged(context, local, verification, processor)
            ELSE processor = NoResult /\ decision = NoDecision

\* How many of the last six steps have been emitted.
Emitted == CASE pc = "verify" -> 1 [] pc = "authorize" -> 3 [] OTHER -> 6

StepName ==
  {"gateway_payment_received", "wallet_token_received", "gateway_token_decryption",
   "network_token_cryptogram_validation", "internal_antifraud_screening",
   "apple_pay_merchant_validation", "card_data_received", "gateway_card_tokenization",
   "card_network_routing", "verification_antifraud_request", "verification_antifraud_response",
   "processor_authorization_request", "processor_authorization_response",
   "network_authorization_routing", "merchant_authorization_result"}

Steps == [name: StepName, status: Down \cup {"completed", "declined", "review", "timeout"}]

StepsInOrder ==
  pc # "idle" /\ decision # Skipped =>
    /\ steps \in Seq(Steps)
    /\ Len(steps) = Len(MethodSteps(context.method)) + Emitted
    /\ \A i \in 1 .. Len(steps) : steps[i].name = Capability(context.method)[i]
    /\ Judged => steps[Len(steps)].status = FinalStatus(decision)

RowsFollow ==
  pc # "idle" /\ decision # Skipped =>
    CASE pc = "events" -> written = [NoRows EXCEPT !.transaction = Row]
      [] pc = "commit" -> written = [transaction |-> Row, events |-> steps]
      [] pc = "answered" -> books = [transaction |-> Row, events |-> steps]
      [] OTHER -> written = NoRows

Closed ==
  IF pc = "answered"
    THEN answer = decision /\ (decision = Skipped => books = NoRows)
    ELSE answer = NoDecision /\ books = NoRows

IInv == TypeOK /\ Heard /\ StepsInOrder /\ RowsFollow /\ Closed
=============================================================================
