-------------------------- MODULE ExecutionPlanProofs --------------------------
(***************************************************************************)
(* Proofs about ExecutionPlan, for every number of consents, plans, calls and *)
(* slots and for every kind of evidence and quote.                            *)
(***************************************************************************)
EXTENDS ExecutionPlan, TLAPS

\* A consent that consentIssues finds nothing against has not been consumed.
LEMMA NoIssuesNotSpent ==
    ASSUME NEW consent, NEW isSpent \in BOOLEAN, NEW d, NEW comparison, NEW max, NEW now,
           ConsentIssues(consent, isSpent, d, comparison, max, now) = {}
    PROVE  ~isSpent
  <1> DEFINE use == {code \in {"CONSUMED", "EXPIRED"} :
                       \/ code = "CONSUMED" /\ isSpent
                       \/ code = "EXPIRED" /\ now > consent.expiresAtSlot}
  <1>1. use \subseteq ConsentIssues(consent, isSpent, d, comparison, max, now)
    BY DEF ConsentIssues
  <1>2. isSpent => "CONSUMED" \in use
    OBVIOUS
  <1> QED
    BY <1>1, <1>2
-------------------------------------------------------------------------------
Signed == {"sent", "delivered", "rejected", "lost"}

\* A call is a record of five fields.
IsCall(call) ==
    call = [pc |-> call.pc, plan |-> call.plan, recipient |-> call.recipient,
            signedAt |-> call.signedAt, landed |-> call.landed]

Shape ==
    /\ slot \in Nat
    /\ plans = [p \in PlanIds |-> plans[p]]
    /\ exec = [e \in Executors |-> exec[e]]
    /\ \A e \in Executors : IsCall(exec[e])

\* Every consent named by a plan is consumed.
PlannedConsentsSpent ==
    \A p \in PlanIds : (plans[p] # None /\ plans[p].consentId # None) =>
        plans[p].consentId \in spent

\* A call past its consumption has marked its plan, and only a call that has
\* passed the slot check has signed.
CallsMatchMarks ==
    \A e \in Executors :
        /\ exec[e].pc # "idle" => exec[e].plan \in PlanIds /\ plans[exec[e].plan] # None
        /\ exec[e].pc \in Spends => exec[e].plan \in used
        /\ exec[e].signedAt # None <=> exec[e].pc \in Signed

UsedWereIssued == \A p \in used : p \in PlanIds /\ plans[p] # None

IInv ==
    /\ Shape
    /\ PlannedConsentsSpent
    /\ OneConsentOnePlan
    /\ CallsMatchMarks
    /\ UsedWereIssued
    /\ NoSecondAttempt

LEMMA InitIInv == Init => IInv
  <1> SUFFICES ASSUME Init PROVE IInv
    OBVIOUS
  <1>1. Shape
    BY DEF Init, Shape, IsCall, IdleCall
  <1>2. PlannedConsentsSpent /\ OneConsentOnePlan /\ UsedWereIssued
    BY DEF Init, PlannedConsentsSpent, OneConsentOnePlan, UsedWereIssued
  <1>3. CallsMatchMarks /\ NoSecondAttempt
    BY DEF Init, CallsMatchMarks, NoSecondAttempt, IdleCall, Spends, Signed
  <1> QED
    BY <1>1, <1>2, <1>3 DEF IInv

LEMMA RecordIsCall ==
    ASSUME NEW pc, NEW plan, NEW recipient, NEW signedAt, NEW landed
    PROVE  IsCall([pc |-> pc, plan |-> plan, recipient |-> recipient,
                   signedAt |-> signedAt, landed |-> landed])
  BY DEF IsCall

\* A step of one call that leaves the plans alone.
CallStep(e, from, pc) ==
    /\ exec[e].pc \in from
    /\ exec'[e].pc = pc
    /\ exec'[e].plan = exec[e].plan
    /\ \A d \in Executors \ {e} : exec'[d] = exec[d]
    /\ exec' = [d \in Executors |-> exec'[d]]
    /\ IsCall(exec'[e])
    /\ plans' = plans /\ spent' = spent

\* Creating a plan spends a consent that no plan has used.
LEMMA CreateKeepsIInv ==
    ASSUME IInv, NEW p \in PlanIds, NEW recipient \in Recipients,
           CreateExecutionPlan(p, recipient)
    PROVE  IInv'
  <1> DEFINE id == plans'[p].consentId
  <1>1. /\ plans[p] = None
        /\ \A q \in PlanIds \ {p} : plans'[q] = plans[q]
        /\ plans' = [q \in PlanIds |-> plans'[q]]
        /\ spent \subseteq spent'
    BY DEF CreateExecutionPlan, IInv, Shape
  <1>2. plans'[p] # None => (id = None \/ (id \notin spent /\ id \in spent'))
    <2> DEFINE rerouted == decision.result.stateDecision.decision = "USE_ALTERNATIVE"
               c == decision.result.consent.consentId
    <2>1. id = IF rerouted THEN c ELSE None
      BY DEF CreateExecutionPlan, IInv, Shape
    <2>2. CASE ~rerouted
      BY <2>1, <2>2
    <2>3. CASE rerouted
      <3>1. c \in spent'
        BY <2>3 DEF CreateExecutionPlan
      <3>2. c \notin spent
        BY <2>3, NoIssuesNotSpent DEF CreateExecutionPlan
      <3> QED
        BY <2>1, <2>3, <3>1, <3>2
    <2> QED
      BY <2>2, <2>3
  <1>3. UNCHANGED <<slot, used, exec>>
    BY DEF CreateExecutionPlan
  <1>4. Shape'
    BY <1>1, <1>3 DEF IInv, Shape
  <1>5. PlannedConsentsSpent'
    BY <1>1, <1>2 DEF IInv, PlannedConsentsSpent
  <1>6. OneConsentOnePlan'
    <2> SUFFICES ASSUME NEW q \in PlanIds, NEW r \in PlanIds,
                        plans'[q] # None, plans'[r] # None,
                        plans'[q].consentId # None,
                        plans'[q].consentId = plans'[r].consentId
                 PROVE  q = r
      BY DEF OneConsentOnePlan
    <2>1. CASE q # p /\ r # p
      BY <1>1, <2>1 DEF IInv, OneConsentOnePlan
    <2>2. CASE q = p /\ r # p
      <3>1. plans[r] # None /\ plans[r].consentId \in spent
        BY <1>1, <2>2 DEF IInv, PlannedConsentsSpent
      <3> QED
        BY <1>1, <1>2, <2>2, <3>1
    <2>3. CASE q # p /\ r = p
      <3>1. plans[q] # None /\ plans[q].consentId \in spent
        BY <1>1, <2>3 DEF IInv, PlannedConsentsSpent
      <3> QED
        BY <1>1, <1>2, <2>3, <3>1
    <2> QED
      BY <2>1, <2>2, <2>3
  <1>7. \A q \in PlanIds : plans[q] # None => plans'[q] # None
    BY <1>1
  <1>8. CallsMatchMarks' /\ UsedWereIssued' /\ NoSecondAttempt'
    BY <1>3, <1>7 DEF IInv, CallsMatchMarks, UsedWereIssued, NoSecondAttempt
  <1> QED
    BY <1>4, <1>5, <1>6, <1>8 DEF IInv

\* A step of a call that marks no plan: the call has spent before and after, or
\* neither before nor after.
LEMMA CallStepKeepsIInv ==
    ASSUME IInv, NEW e \in Executors, UNCHANGED <<slot, used>>,
           NEW from, NEW pc, CallStep(e, from, pc), pc # "idle",
           exec[e].pc # "idle", pc \in Spends => exec[e].pc \in Spends,
           exec'[e].signedAt # None <=> pc \in Signed
    PROVE  IInv'
  <1>1. Shape'
    BY DEF IInv, Shape, CallStep
  <1>2. PlannedConsentsSpent' /\ OneConsentOnePlan' /\ UsedWereIssued'
    BY DEF IInv, CallStep, PlannedConsentsSpent, OneConsentOnePlan, UsedWereIssued
  <1>3. CallsMatchMarks'
    BY DEF IInv, CallStep, CallsMatchMarks
  <1>4. NoSecondAttempt'
    BY DEF IInv, CallStep, NoSecondAttempt
  <1> QED
    BY <1>1, <1>2, <1>3, <1>4 DEF IInv

LEMMA StartKeepsIInv ==
    ASSUME IInv, NEW e \in Executors, NEW p \in PlanIds, NEW recipient \in Recipients,
           StartExecution(e, p, recipient)
    PROVE  IInv'
  <1>1. /\ plans[p] # None
        /\ exec'[e] = [pc |-> "building", plan |-> p, recipient |-> recipient,
                       signedAt |-> None, landed |-> None]
        /\ \A d \in Executors \ {e} : exec'[d] = exec[d]
        /\ exec' = [d \in Executors |-> exec'[d]]
        /\ UNCHANGED <<slot, spent, plans, used>>
    BY DEF StartExecution, VerifyExecutionPlan, SameQuote, IInv, Shape, IdleCall
  <1>2. Shape'
    BY <1>1 DEF IInv, Shape, IsCall
  <1>3. PlannedConsentsSpent' /\ OneConsentOnePlan' /\ UsedWereIssued'
    BY <1>1 DEF IInv, PlannedConsentsSpent, OneConsentOnePlan, UsedWereIssued
  <1>4. CallsMatchMarks'
    BY <1>1 DEF IInv, CallsMatchMarks, Spends, Signed
  <1>5. NoSecondAttempt'
    BY <1>1 DEF IInv, NoSecondAttempt, Spends
  <1> QED
    BY <1>2, <1>3, <1>4, <1>5 DEF IInv

\* The shape of a step that only moves the program counter of a call.
LEMMA PcStep ==
    ASSUME IInv, NEW e \in Executors, NEW pc, exec' = [exec EXCEPT ![e].pc = pc]
    PROVE  /\ exec'[e] = [pc |-> pc, plan |-> exec[e].plan, recipient |-> exec[e].recipient,
                          signedAt |-> exec[e].signedAt, landed |-> exec[e].landed]
           /\ \A d \in Executors \ {e} : exec'[d] = exec[d]
           /\ exec' = [d \in Executors |-> exec'[d]]
  BY DEF IInv, Shape, IsCall

\* Two fields of a call at once: signing sets signedAt, landing sets landed.
LEMMA SignedRecord ==
    ASSUME NEW call, IsCall(call), NEW pc, NEW at
    PROVE  [call EXCEPT !.pc = pc, !.signedAt = at]
             = [pc |-> pc, plan |-> call.plan, recipient |-> call.recipient,
                signedAt |-> at, landed |-> call.landed]
  <1> DEFINE moved == [pc |-> pc, plan |-> call.plan, recipient |-> call.recipient,
                       signedAt |-> call.signedAt, landed |-> call.landed]
  <1>1. [call EXCEPT !.pc = pc] = moved
    BY DEF IsCall
  <1>2. [moved EXCEPT !.signedAt = at]
          = [pc |-> pc, plan |-> call.plan, recipient |-> call.recipient,
             signedAt |-> at, landed |-> call.landed]
    OBVIOUS
  <1>3. [call EXCEPT !.pc = pc, !.signedAt = at]
          = [[call EXCEPT !.pc = pc] EXCEPT !.signedAt = at]
    OBVIOUS
  <1> QED
    BY <1>1, <1>2, <1>3

LEMMA LandedRecord ==
    ASSUME NEW call, IsCall(call), NEW pc, NEW observation
    PROVE  [call EXCEPT !.pc = pc, !.landed = observation]
             = [pc |-> pc, plan |-> call.plan, recipient |-> call.recipient,
                signedAt |-> call.signedAt, landed |-> observation]
  <1> DEFINE moved == [pc |-> pc, plan |-> call.plan, recipient |-> call.recipient,
                       signedAt |-> call.signedAt, landed |-> call.landed]
  <1>1. [call EXCEPT !.pc = pc] = moved
    BY DEF IsCall
  <1>2. [moved EXCEPT !.landed = observation]
          = [pc |-> pc, plan |-> call.plan, recipient |-> call.recipient,
             signedAt |-> call.signedAt, landed |-> observation]
    OBVIOUS
  <1>3. [call EXCEPT !.pc = pc, !.landed = observation]
          = [[call EXCEPT !.pc = pc] EXCEPT !.landed = observation]
    OBVIOUS
  <1> QED
    BY <1>1, <1>2, <1>3

\* A step that replaces one call.
LEMMA CallReplaced ==
    ASSUME IInv, NEW e \in Executors, NEW call, exec' = [exec EXCEPT ![e] = call]
    PROVE  /\ exec'[e] = call
           /\ \A d \in Executors \ {e} : exec'[d] = exec[d]
           /\ exec' = [d \in Executors |-> exec'[d]]
  BY DEF IInv, Shape

\* consumeExecutionPlan finds the plan unmarked, so no other call has spent it.
LEMMA SpendKeepsIInv ==
    ASSUME IInv, NEW e \in Executors, SpendPlan(e)
    PROVE  IInv'
  <1> DEFINE p == exec[e].plan
  <1>1. PICK pc \in {"spent", "refused"} :
          /\ exec' = [exec EXCEPT ![e].pc = pc]
          /\ pc = "spent" => p \notin used /\ used' = used \cup {p}
          /\ pc = "refused" => used' = used
    BY DEF SpendPlan
  <1>2. exec[e].pc = "building" /\ UNCHANGED <<slot, spent, plans>>
    BY DEF SpendPlan
  <1>3. /\ exec'[e] = [pc |-> pc, plan |-> p, recipient |-> exec[e].recipient,
                       signedAt |-> exec[e].signedAt, landed |-> exec[e].landed]
        /\ \A d \in Executors \ {e} : exec'[d] = exec[d]
        /\ exec' = [d \in Executors |-> exec'[d]]
    BY <1>1, PcStep
  <1>4. p \in PlanIds /\ plans[p] # None /\ exec[e].signedAt = None
    BY <1>2 DEF IInv, CallsMatchMarks, Signed
  <1>5. Shape'
    BY <1>2, <1>3 DEF IInv, Shape, IsCall
  <1>6. PlannedConsentsSpent' /\ OneConsentOnePlan'
    BY <1>2 DEF IInv, PlannedConsentsSpent, OneConsentOnePlan
  <1>7. UsedWereIssued'
    BY <1>1, <1>2, <1>4 DEF IInv, UsedWereIssued
  <1>8. CallsMatchMarks'
    BY <1>1, <1>2, <1>3, <1>4 DEF IInv, CallsMatchMarks, Spends, Signed
  <1>9. NoSecondAttempt'
    <2> SUFFICES ASSUME NEW c \in Executors, NEW d \in Executors,
                        exec'[c].pc \in Spends, exec'[d].pc \in Spends,
                        exec'[c].plan = exec'[d].plan
                 PROVE  c = d
      BY DEF NoSecondAttempt
    <2>1. \A x \in Executors \ {e} : exec'[x].pc \in Spends => exec[x].plan \in used
      BY <1>3 DEF IInv, CallsMatchMarks
    <2>2. exec'[e].pc \in Spends => p \notin used
      BY <1>1, <1>3 DEF Spends
    <2>3. CASE c # e /\ d # e
      BY <1>3, <2>3 DEF IInv, NoSecondAttempt
    <2> QED
      BY <1>3, <2>1, <2>2, <2>3
  <1> QED
    BY <1>5, <1>6, <1>7, <1>8, <1>9 DEF IInv

LEMMA NextIInv == IInv /\ [Next]_vars => IInv'
  <1> SUFFICES ASSUME IInv, [Next]_vars PROVE IInv'
    OBVIOUS
  <1>0. ASSUME UNCHANGED <<spent, plans, used, exec>>, slot' \in Nat
        PROVE  IInv'
    BY <1>0 DEF IInv, Shape, PlannedConsentsSpent, OneConsentOnePlan, CallsMatchMarks,
                UsedWereIssued, NoSecondAttempt
  <1>s. slot \in Nat
    BY DEF IInv, Shape
  <1>1. CASE SlotAdvances
    BY <1>0, <1>1, <1>s DEF SlotAdvances
  <1>2. CASE StateChanges \/ ObservePreferred \/ ObserveAlternative \/ Evaluate
    BY <1>0, <1>2, <1>s DEF StateChanges, ObservePreferred, ObserveAlternative, Evaluate
  <1>3. ASSUME NEW c \in ConsentIds, NEW accepted \in AcceptedMaxes,
               GrantConsent(c, accepted)
        PROVE  IInv'
    BY <1>0, <1>3, <1>s DEF GrantConsent
  <1>4. ASSUME NEW p \in PlanIds, NEW recipient \in Recipients,
               CreateExecutionPlan(p, recipient)
        PROVE  IInv'
    BY <1>4, CreateKeepsIInv
  <1>5. ASSUME NEW e \in Executors, NEW p \in PlanIds, NEW recipient \in Recipients,
               StartExecution(e, p, recipient)
        PROVE  IInv'
    BY <1>5, StartKeepsIInv
  <1>6. ASSUME NEW e \in Executors, SpendPlan(e)
        PROVE  IInv'
    BY <1>6, SpendKeepsIInv
  <1>7. ASSUME NEW e \in Executors, CheckFresh(e) \/ CallFails(e) \/ Lapse(e)
        PROVE  IInv'
    <2>1. PICK pc \in {"burned", "fresh", "lost"} :
            /\ exec' = [exec EXCEPT ![e].pc = pc]
            /\ exec[e].pc \in Spends
            /\ pc = "lost" <=> exec[e].pc \in Signed
      BY <1>7 DEF CheckFresh, CallFails, Lapse, Spends, Signed
    <2>2. UNCHANGED <<slot, spent, plans, used>>
      BY <1>7 DEF CheckFresh, CallFails, Lapse
    <2>3. CallStep(e, Spends, pc) /\ exec'[e].signedAt = exec[e].signedAt
      <3>1. /\ exec'[e] = [pc |-> pc, plan |-> exec[e].plan,
                           recipient |-> exec[e].recipient,
                           signedAt |-> exec[e].signedAt, landed |-> exec[e].landed]
            /\ \A d \in Executors \ {e} : exec'[d] = exec[d]
            /\ exec' = [d \in Executors |-> exec'[d]]
        BY <2>1, PcStep
      <3>2. IsCall(exec'[e])
        BY <3>1, RecordIsCall
      <3>3. exec'[e].pc = pc /\ exec'[e].plan = exec[e].plan
            /\ exec'[e].signedAt = exec[e].signedAt
        BY <3>1
      <3> QED
        BY <2>1, <2>2, <3>1, <3>2, <3>3 DEF CallStep
    <2>4. exec'[e].signedAt # None <=> pc \in Signed
      BY <2>1, <2>3 DEF IInv, CallsMatchMarks, Signed
    <2> QED
      BY <2>1, <2>2, <2>3, <2>4, CallStepKeepsIInv DEF Spends
  <1>8. ASSUME NEW e \in Executors, SignAndSend(e)
        PROVE  IInv'
    <2>1. /\ exec[e].pc = "fresh"
          /\ UNCHANGED <<slot, spent, plans, used>>
          /\ exec' = [exec EXCEPT ![e] = [exec[e] EXCEPT !.pc = "sent", !.signedAt = slot]]
      BY <1>8 DEF SignAndSend
    <2>2. /\ exec'[e] = [pc |-> "sent", plan |-> exec[e].plan,
                         recipient |-> exec[e].recipient, signedAt |-> slot,
                         landed |-> exec[e].landed]
          /\ \A d \in Executors \ {e} : exec'[d] = exec[d]
          /\ exec' = [d \in Executors |-> exec'[d]]
      <3>1. IsCall(exec[e])
        BY DEF IInv, Shape
      <3>2. /\ exec'[e] = [exec[e] EXCEPT !.pc = "sent", !.signedAt = slot]
            /\ \A d \in Executors \ {e} : exec'[d] = exec[d]
            /\ exec' = [d \in Executors |-> exec'[d]]
        BY <2>1, CallReplaced
      <3> QED
        BY <3>1, <3>2, SignedRecord
    <2>3. CallStep(e, {"fresh"}, "sent") /\ exec'[e].signedAt # None
      <3>1. IsCall(exec'[e])
        BY <2>2, RecordIsCall
      <3>2. /\ exec'[e].pc = "sent" /\ exec'[e].plan = exec[e].plan
            /\ exec'[e].signedAt = slot
        BY <2>2
      <3> QED
        BY <1>s, <2>1, <2>2, <3>1, <3>2, PlanConstants DEF CallStep
    <2> QED
      BY <2>1, <2>3, CallStepKeepsIInv DEF Spends, Signed
  <1>9. ASSUME NEW e \in Executors, LandDelivery(e)
        PROVE  IInv'
    <2>1. PICK pc \in {"delivered", "rejected"}, observation \in {live[plans[exec[e].plan].quote.mint]} :
            exec' = [exec EXCEPT ![e] = [exec[e] EXCEPT !.pc = pc, !.landed = observation]]
      BY <1>9 DEF LandDelivery
    <2>2. exec[e].pc = "sent" /\ UNCHANGED <<slot, spent, plans, used>>
      BY <1>9 DEF LandDelivery
    <2>3. /\ exec'[e] = [pc |-> pc, plan |-> exec[e].plan,
                         recipient |-> exec[e].recipient, signedAt |-> exec[e].signedAt,
                         landed |-> observation]
          /\ \A d \in Executors \ {e} : exec'[d] = exec[d]
          /\ exec' = [d \in Executors |-> exec'[d]]
      <3>1. IsCall(exec[e])
        BY DEF IInv, Shape
      <3>2. /\ exec'[e] = [exec[e] EXCEPT !.pc = pc, !.landed = observation]
            /\ \A d \in Executors \ {e} : exec'[d] = exec[d]
            /\ exec' = [d \in Executors |-> exec'[d]]
        BY <2>1, CallReplaced
      <3>3. [exec[e] EXCEPT !.pc = pc, !.landed = observation]
              = [pc |-> pc, plan |-> exec[e].plan, recipient |-> exec[e].recipient,
                 signedAt |-> exec[e].signedAt, landed |-> observation]
        BY <3>1, LandedRecord
      <3> QED
        BY <3>2, <3>3, Zenon
    <2>4. CallStep(e, {"sent"}, pc)
      <3>1. IsCall(exec'[e])
        BY <2>3, RecordIsCall
      <3>2. exec'[e].pc = pc /\ exec'[e].plan = exec[e].plan
        BY <2>3
      <3> QED
        BY <2>2, <2>3, <3>1, <3>2 DEF CallStep
    <2>5. exec'[e].signedAt # None <=> pc \in Signed
      BY <2>2, <2>3 DEF IInv, CallsMatchMarks, Signed
    <2> QED
      BY <2>2, <2>4, <2>5, CallStepKeepsIInv DEF Spends
  <1>10. CASE UNCHANGED vars
    BY <1>0, <1>10, <1>s DEF vars
  <1> QED
    BY <1>1, <1>2, <1>3, <1>4, <1>5, <1>6, <1>7, <1>8, <1>9, <1>10 DEF Next

LEMMA IInvHolds == Spec => []IInv
  BY InitIInv, NextIInv, PTL DEF Spec

\* consent.ts and createExecutionPlan, for every number of consents, decisions and
\* plans: a consent backs at most one plan.
THEOREM ConsentsAreSingleUse == Spec => []OneConsentOnePlan
  <1>1. IInv => OneConsentOnePlan
    BY DEF IInv
  <1> QED
    BY <1>1, IInvHolds, PTL

\* consumeExecutionPlan, for every number of concurrent calls: a plan that one
\* call has spent is never attempted by another.
THEOREM NoBlindRetry == Spec => []NoSecondAttempt
  <1>1. IInv => NoSecondAttempt
    BY DEF IInv
  <1> QED
    BY <1>1, IInvHolds, PTL
-------------------------------------------------------------------------------
\* A call that has consumed a plan, and one that has signed it.
Consumes(e, p) == exec[e].plan = p /\ exec[e].pc \in Spends
Signs(e, p)    == exec[e].plan = p /\ exec[e].signedAt # None

\* The entry of one plan.
SpentBy(p)  == {e \in Executors : Consumes(e, p)}
SignedBy(p) == {e \in Executors : Signs(e, p)}
EntryOf(p)  == Capability!Entry(plans[p] # None, SpentBy(p), SignedBy(p))

LEMMA LedgerEntries ==
    /\ PlanLedger = [p \in PlanIds |-> EntryOf(p)]
    /\ PlanLedger' = [p \in PlanIds |-> EntryOf(p)']
  BY DEF PlanLedger, EntryOf, SpentBy, SignedBy, Consumes, Signs, Capability!Entry

\* One entry moves on, the others stay.
LEMMA OneEntryMoves ==
    ASSUME NEW p \in PlanIds, NEW from, NEW to,
           EntryOf(p) = from, EntryOf(p)' = to,
           \A q \in PlanIds \ {p} : EntryOf(q)' = EntryOf(q)
    PROVE  Capability!Move(p, from, to)
  <1>1. PlanLedger[p] = from
    BY LedgerEntries, Zenon
  <1>2. DOMAIN PlanLedger = PlanIds
    BY LedgerEntries, Zenon
  <1>3. \A q \in PlanIds : PlanLedger'[q] = [PlanLedger EXCEPT ![p] = to][q]
    <2> SUFFICES ASSUME NEW q \in PlanIds
                 PROVE  PlanLedger'[q] = [PlanLedger EXCEPT ![p] = to][q]
      OBVIOUS
    <2>1. PlanLedger'[q] = EntryOf(q)' /\ PlanLedger[q] = EntryOf(q)
      BY LedgerEntries, Zenon
    <2>2. [PlanLedger EXCEPT ![p] = to][q] = IF q = p THEN to ELSE PlanLedger[q]
      BY <1>2, Zenon
    <2> QED
      BY <2>1, <2>2, Zenon
  <1>4. PlanLedger' = [PlanLedger EXCEPT ![p] = to]
    <2>1. DOMAIN PlanLedger' = PlanIds
      BY LedgerEntries, Zenon
    <2>2. PlanLedger' = [q \in PlanIds |-> PlanLedger'[q]]
      BY LedgerEntries, Zenon
    <2>3. [PlanLedger EXCEPT ![p] = to] = [q \in PlanIds |-> [PlanLedger EXCEPT ![p] = to][q]]
      BY <1>2, Zenon
    <2> QED
      BY <1>3, <2>2, <2>3, Zenon
  <1> QED
    BY <1>1, <1>4 DEF Capability!Move

LEMMA NoEntryMoves ==
    ASSUME \A q \in PlanIds : EntryOf(q)' = EntryOf(q)
    PROVE  UNCHANGED PlanLedger
  BY LedgerEntries, Zenon

LEMMA LedgerUnchanged ==
    ASSUME UNCHANGED <<plans, exec>>
    PROVE  UNCHANGED PlanLedger
  BY DEF PlanLedger

\* An entry depends on whether its plan is issued and on what the calls have done.
LEMMA EntryKept ==
    ASSUME NEW q \in PlanIds, plans'[q] # None <=> plans[q] # None,
           \A d \in Executors : /\ Consumes(d, q)' <=> Consumes(d, q)
                                /\ Signs(d, q)' <=> Signs(d, q)
    PROVE  EntryOf(q)' = EntryOf(q)
  <1>1. (plans'[q] # None) = (plans[q] # None)
    OBVIOUS
  <1>2. SpentBy(q)' = SpentBy(q) /\ SignedBy(q)' = SignedBy(q)
    BY DEF SpentBy, SignedBy
  <1> QED
    BY <1>1, <1>2 DEF EntryOf

\* A step of a call that neither consumes nor signs moves no entry.
LEMMA QuietCallStep ==
    ASSUME NEW e \in Executors, UNCHANGED plans,
           \A d \in Executors \ {e} : exec'[d] = exec[d],
           \A q \in PlanIds : /\ Consumes(e, q)' <=> Consumes(e, q)
                              /\ Signs(e, q)' <=> Signs(e, q)
    PROVE  UNCHANGED PlanLedger
  <1> SUFFICES ASSUME NEW q \in PlanIds PROVE EntryOf(q)' = EntryOf(q)
    BY NoEntryMoves
  <1>1. \A d \in Executors \ {e} : /\ Consumes(d, q)' <=> Consumes(d, q)
                                   /\ Signs(d, q)' <=> Signs(d, q)
    BY DEF Consumes, Signs
  <1> QED
    BY <1>1, EntryKept

\* Only a call that spends or signs is in an entry of its plan.
LEMMA EntryOfPlan ==
    ASSUME NEW p \in PlanIds, NEW spenders, NEW signers, plans[p] # None,
           SpentBy(p) = spenders, SignedBy(p) = signers
    PROVE  EntryOf(p) = Capability!Entry(TRUE, spenders, signers)
  <1>1. (plans[p] # None) = TRUE
    OBVIOUS
  <1> QED
    BY <1>1 DEF EntryOf

LEMMA StepRefines ==
    ASSUME IInv, IInv', [Next]_vars
    PROVE  [Capability!Next]_PlanLedger
  <1>1. CASE \/ SlotAdvances \/ StateChanges \/ ObservePreferred \/ ObserveAlternative
             \/ Evaluate \/ UNCHANGED vars
    BY <1>1, LedgerUnchanged
       DEF SlotAdvances, StateChanges, ObservePreferred, ObserveAlternative, Evaluate, vars
  <1>2. ASSUME NEW c \in ConsentIds, NEW accepted \in AcceptedMaxes,
               GrantConsent(c, accepted)
        PROVE  UNCHANGED PlanLedger
    BY <1>2, LedgerUnchanged DEF GrantConsent
  <1>3. ASSUME NEW p \in PlanIds, NEW recipient \in Recipients,
               CreateExecutionPlan(p, recipient)
        PROVE  [Capability!Next]_PlanLedger
    <2>1. /\ plans[p] = None
          /\ \A q \in PlanIds \ {p} : plans'[q] = plans[q]
          /\ UNCHANGED exec
      BY <1>3 DEF CreateExecutionPlan, IInv, Shape
    <2>2. \A q \in PlanIds, d \in Executors : /\ Consumes(d, q)' <=> Consumes(d, q)
                                              /\ Signs(d, q)' <=> Signs(d, q)
      BY <2>1 DEF Consumes, Signs
    <2>3. \A q \in PlanIds \ {p} : EntryOf(q)' = EntryOf(q)
      BY <2>1, <2>2, EntryKept
    <2>4. \A d \in Executors : ~Consumes(d, p) /\ ~Signs(d, p)
      BY <2>1 DEF IInv, CallsMatchMarks, Consumes, Signs, Spends, Signed
    <2>5. CASE plans'[p] = None
      <3>1. EntryOf(p)' = EntryOf(p)
        BY <2>1, <2>2, <2>5, EntryKept
      <3> QED
        BY <2>3, <3>1, NoEntryMoves
    <2>6. CASE plans'[p] # None
      <3>1. /\ SpentBy(p) = {} /\ SignedBy(p) = {}
            /\ SpentBy(p)' = {} /\ SignedBy(p)' = {}
        BY <2>2, <2>4 DEF SpentBy, SignedBy
      <3>2. (plans[p] # None) = FALSE /\ (plans'[p] # None) = TRUE
        BY <2>1, <2>6
      <3>3. EntryOf(p) = Capability!Entry(FALSE, {}, {})
        BY <3>1, <3>2 DEF EntryOf
      <3>4. EntryOf(p)' = Capability!Entry(TRUE, {}, {})
        BY <3>1, <3>2 DEF EntryOf
      <3>5. Capability!Issue(p)
        BY <2>3, <3>3, <3>4, OneEntryMoves DEF Capability!Issue
      <3> QED
        BY <3>5 DEF Capability!Next
    <2> QED
      BY <2>5, <2>6
  <1>4. ASSUME NEW e \in Executors, NEW p \in PlanIds, NEW recipient \in Recipients,
               StartExecution(e, p, recipient)
        PROVE  UNCHANGED PlanLedger
    <2>1. /\ exec[e].pc = "idle" /\ exec'[e].pc = "building"
          /\ exec[e].signedAt = None /\ exec'[e].signedAt = None
          /\ \A d \in Executors \ {e} : exec'[d] = exec[d]
          /\ UNCHANGED plans
      BY <1>4 DEF StartExecution, IInv, Shape, IdleCall, CallsMatchMarks, Signed
    <2>2. \A q \in PlanIds : ~Consumes(e, q) /\ ~Consumes(e, q)' /\ ~Signs(e, q) /\ ~Signs(e, q)'
      BY <2>1 DEF Consumes, Signs, Spends
    <2> QED
      BY <2>1, <2>2, QuietCallStep
  <1>5. ASSUME NEW e \in Executors, SpendPlan(e)
        PROVE  [Capability!Next]_PlanLedger
    <2>0. PICK p \in PlanIds : p = exec[e].plan
      BY <1>5 DEF SpendPlan, IInv, CallsMatchMarks
    <2>1. PICK pc \in {"spent", "refused"} :
            /\ exec' = [exec EXCEPT ![e].pc = pc]
            /\ pc = "spent" => p \notin used
      BY <1>5, <2>0 DEF SpendPlan
    <2>2. exec[e].pc = "building" /\ UNCHANGED plans
      BY <1>5 DEF SpendPlan
    <2>3. /\ exec'[e].pc = pc /\ exec'[e].plan = p /\ exec'[e].signedAt = exec[e].signedAt
          /\ \A d \in Executors \ {e} : exec'[d] = exec[d]
      <3>1. /\ exec'[e] = [pc |-> pc, plan |-> exec[e].plan, recipient |-> exec[e].recipient,
                           signedAt |-> exec[e].signedAt, landed |-> exec[e].landed]
            /\ \A d \in Executors \ {e} : exec'[d] = exec[d]
        BY <2>1, PcStep
      <3> QED
        BY <2>0, <3>1
    <2>4. plans[p] # None /\ exec[e].signedAt = None
      BY <2>0, <2>2 DEF IInv, CallsMatchMarks, Signed
    <2>5. \A q \in PlanIds : ~Consumes(e, q) /\ ~Signs(e, q) /\ ~Signs(e, q)'
      BY <2>2, <2>3, <2>4 DEF Consumes, Signs, Spends
    <2>6. CASE pc = "refused"
      <3>1. \A q \in PlanIds : ~Consumes(e, q)'
        BY <2>3, <2>6 DEF Consumes, Spends
      <3> QED
        BY <2>2, <2>3, <2>5, <3>1, QuietCallStep
    <2>7. CASE pc = "spent"
      <3>1. \A q \in PlanIds \ {p} : ~Consumes(e, q)'
        BY <2>3 DEF Consumes
      <3>2. \A d \in Executors \ {e}, q \in PlanIds : /\ Consumes(d, q)' <=> Consumes(d, q)
                                                      /\ Signs(d, q)' <=> Signs(d, q)
        BY <2>3 DEF Consumes, Signs
      <3>3. \A q \in PlanIds \ {p} : EntryOf(q)' = EntryOf(q)
        BY <2>2, <2>5, <3>1, <3>2, EntryKept
      <3>4. \A d \in Executors : ~Consumes(d, p) /\ ~Signs(d, p)
        BY <2>1, <2>7 DEF IInv, CallsMatchMarks, Consumes, Signs, Signed, Spends
      <3>5. Consumes(e, p)'
        BY <2>3, <2>7 DEF Consumes, Spends
      <3>6. /\ SpentBy(p) = {} /\ SignedBy(p) = {}
            /\ SpentBy(p)' = {e} /\ SignedBy(p)' = {}
        BY <2>5, <3>2, <3>4, <3>5 DEF SpentBy, SignedBy
      <3>7. EntryOf(p) = Capability!Entry(TRUE, {}, {})
        BY <2>4, <3>6, EntryOfPlan
      <3>8. EntryOf(p)' = Capability!Entry(TRUE, {e}, {})
        <4>1. (plans'[p] # None) = TRUE
          BY <2>2, <2>4
        <4> QED
          BY <3>6, <4>1 DEF EntryOf
      <3>9. Capability!Spend(p, e)
        BY <3>3, <3>7, <3>8, OneEntryMoves DEF Capability!Spend
      <3> QED
        BY <3>9 DEF Capability!Next
    <2> QED
      BY <2>6, <2>7
  <1>6. ASSUME NEW e \in Executors, CheckFresh(e) \/ CallFails(e) \/ Lapse(e)
        PROVE  UNCHANGED PlanLedger
    <2>1. PICK pc \in Spends : exec' = [exec EXCEPT ![e].pc = pc]
      BY <1>6 DEF CheckFresh, CallFails, Lapse, Spends
    <2>2. UNCHANGED plans /\ exec[e].pc \in Spends
      BY <1>6 DEF CheckFresh, CallFails, Lapse, Spends
    <2>3. /\ exec'[e].pc = pc /\ exec'[e].plan = exec[e].plan
          /\ exec'[e].signedAt = exec[e].signedAt
          /\ \A d \in Executors \ {e} : exec'[d] = exec[d]
      <3>1. /\ exec'[e] = [pc |-> pc, plan |-> exec[e].plan, recipient |-> exec[e].recipient,
                           signedAt |-> exec[e].signedAt, landed |-> exec[e].landed]
            /\ \A d \in Executors \ {e} : exec'[d] = exec[d]
        BY <2>1, PcStep
      <3> QED
        BY <3>1
    <2>4. \A q \in PlanIds : /\ Consumes(e, q)' <=> Consumes(e, q)
                             /\ Signs(e, q)' <=> Signs(e, q)
      BY <2>2, <2>3 DEF Consumes, Signs
    <2> QED
      BY <2>2, <2>3, <2>4, QuietCallStep
  <1>7. ASSUME NEW e \in Executors, SignAndSend(e)
        PROVE  [Capability!Next]_PlanLedger
    <2>0. PICK p \in PlanIds : p = exec[e].plan
      BY <1>7 DEF SignAndSend, IInv, CallsMatchMarks
    <2>1. /\ exec[e].pc = "fresh"
          /\ UNCHANGED plans
          /\ exec' = [exec EXCEPT ![e] = [exec[e] EXCEPT !.pc = "sent", !.signedAt = slot]]
      BY <1>7 DEF SignAndSend
    <2>2. /\ exec'[e].pc = "sent" /\ exec'[e].plan = p /\ exec'[e].signedAt = slot
          /\ \A d \in Executors \ {e} : exec'[d] = exec[d]
      <3>1. IsCall(exec[e])
        BY DEF IInv, Shape
      <3>2. /\ exec'[e] = [exec[e] EXCEPT !.pc = "sent", !.signedAt = slot]
            /\ \A d \in Executors \ {e} : exec'[d] = exec[d]
        BY <2>1, CallReplaced
      <3>3. exec'[e] = [pc |-> "sent", plan |-> p, recipient |-> exec[e].recipient,
                        signedAt |-> slot, landed |-> exec[e].landed]
        BY <2>0, <3>1, <3>2, SignedRecord
      <3>4. exec'[e].pc = "sent" /\ exec'[e].plan = p /\ exec'[e].signedAt = slot
        BY <3>3
      <3> QED
        BY <3>2, <3>4, Zenon
    <2>3. slot # None
      BY PlanConstants DEF IInv, Shape
    <2>4. plans[p] # None /\ exec[e].signedAt = None
      BY <2>0, <2>1 DEF IInv, CallsMatchMarks, Signed
    <2>5. Consumes(e, p) /\ Consumes(e, p)' /\ Signs(e, p)' /\ ~Signs(e, p)
      BY <2>0, <2>1, <2>2, <2>3, <2>4 DEF Consumes, Signs, Spends
    <2>6. \A d \in Executors \ {e} : ~Consumes(d, p) /\ ~Signs(d, p)
      <3> SUFFICES ASSUME NEW d \in Executors \ {e}, exec[d].plan = p
                   PROVE  exec[d].pc \notin Spends /\ exec[d].signedAt = None
        BY DEF Consumes, Signs
      <3>1. exec[d].pc \notin Spends
        BY <2>0, <2>1 DEF IInv, NoSecondAttempt, Spends
      <3> QED
        BY <3>1 DEF IInv, CallsMatchMarks, Spends, Signed
    <2>7. \A d \in Executors \ {e}, q \in PlanIds : /\ Consumes(d, q)' <=> Consumes(d, q)
                                                    /\ Signs(d, q)' <=> Signs(d, q)
      BY <2>2 DEF Consumes, Signs
    <2>8. \A q \in PlanIds \ {p} : EntryOf(q)' = EntryOf(q)
      <3>1. \A q \in PlanIds \ {p} : /\ ~Consumes(e, q) /\ ~Consumes(e, q)'
                                     /\ ~Signs(e, q) /\ ~Signs(e, q)'
        BY <2>0, <2>2 DEF Consumes, Signs
      <3> QED
        BY <2>1, <2>7, <3>1, EntryKept
    <2>9. /\ SpentBy(p) = {e} /\ SignedBy(p) = {}
          /\ SpentBy(p)' = {e} /\ SignedBy(p)' = {e}
      BY <2>5, <2>6, <2>7 DEF SpentBy, SignedBy
    <2>10. EntryOf(p) = Capability!Entry(TRUE, {e}, {})
      BY <2>4, <2>9, EntryOfPlan
    <2>11. EntryOf(p)' = Capability!Entry(TRUE, {e}, {e})
      <3>1. (plans'[p] # None) = TRUE
        BY <2>1, <2>4
      <3> QED
        BY <2>9, <3>1 DEF EntryOf
    <2>12. Capability!Perform(p, e)
      BY <2>8, <2>10, <2>11, OneEntryMoves DEF Capability!Perform
    <2> QED
      BY <2>12 DEF Capability!Next
  <1>8. ASSUME NEW e \in Executors, LandDelivery(e)
        PROVE  UNCHANGED PlanLedger
    <2> DEFINE plan == plans[exec[e].plan]
               observation == live[plan.quote.mint]
               pc == IF GuardAccepts(plan, observation) THEN "delivered" ELSE "rejected"
    <2>1. /\ pc \in {"delivered", "rejected"}
          /\ exec' = [exec EXCEPT ![e] = [exec[e] EXCEPT !.pc = pc, !.landed = observation]]
      BY <1>8 DEF LandDelivery
    <2> HIDE DEF observation, pc
    <2>2. /\ exec'[e].pc = pc
          /\ exec'[e].plan = exec[e].plan /\ exec'[e].signedAt = exec[e].signedAt
          /\ \A d \in Executors \ {e} : exec'[d] = exec[d]
      <3>1. IsCall(exec[e])
        BY DEF IInv, Shape
      <3>2. /\ exec'[e] = [exec[e] EXCEPT !.pc = pc, !.landed = observation]
            /\ \A d \in Executors \ {e} : exec'[d] = exec[d]
        BY <2>1, CallReplaced
      <3>3. exec'[e] = [pc |-> pc, plan |-> exec[e].plan, recipient |-> exec[e].recipient,
                        signedAt |-> exec[e].signedAt, landed |-> observation]
        BY <3>1, <3>2, LandedRecord
      <3> QED
        BY <3>2, <3>3
    <2>3. UNCHANGED plans /\ exec[e].pc = "sent"
      BY <1>8 DEF LandDelivery
    <2>4. exec[e].pc \in Spends /\ exec'[e].pc \in Spends
      BY <2>1, <2>2, <2>3 DEF Spends
    <2>5. \A q \in PlanIds : /\ Consumes(e, q)' <=> Consumes(e, q)
                             /\ Signs(e, q)' <=> Signs(e, q)
      BY <2>2, <2>4 DEF Consumes, Signs
    <2> QED
      BY <2>2, <2>3, <2>5, QuietCallStep
  <1> QED
    BY <1>1, <1>2, <1>3, <1>4, <1>5, <1>6, <1>7, <1>8 DEF Next

LEMMA InitRefines == Init => Capability!Init
  <1> SUFFICES ASSUME Init PROVE Capability!Init
    OBVIOUS
  <1>1. \A p \in PlanIds, e \in Executors : ~Consumes(e, p) /\ ~Signs(e, p)
    BY DEF Init, Consumes, Signs, IdleCall, Spends
  <1>2. \A p \in PlanIds : SpentBy(p) = {} /\ SignedBy(p) = {}
    BY <1>1 DEF SpentBy, SignedBy
  <1>3. \A p \in PlanIds : (plans[p] # None) = FALSE
    BY DEF Init
  <1>4. \A p \in PlanIds : EntryOf(p) = Capability!Entry(FALSE, {}, {})
    BY <1>2, <1>3 DEF EntryOf
  <1> QED
    BY <1>4, LedgerEntries DEF Capability!Init

\* The refinement, for every instance: execution-plan.ts and its executor
\* implement a single-use capability.  A plan is consumed by one call and signed by
\* that call only, once; a second of either is no step of AtMostOnce.
THEOREM PlansImplementAtMostOnce == Spec => PlansAreSingleUse
  <1>1. IInv /\ IInv' /\ [Next]_vars => [Capability!Next]_PlanLedger
    BY StepRefines
  <1> QED
    BY <1>1, InitRefines, IInvHolds, PTL DEF Spec, PlansAreSingleUse, Capability!Spec
-------------------------------------------------------------------------------
\* A quote of a route, for a decoded state.
IsQuote(q) ==
    /\ q = [underlying |-> q.underlying, inputMint |-> q.inputMint, mint |-> q.mint,
            inputRaw |-> q.inputRaw, outputRaw |-> q.outputRaw, context |-> q.context,
            state |-> q.state]
    /\ q.outputRaw \in Nat
    /\ q.state \in EconomicState

\* A comparison that compareQuotes made, with a quote for the alternative mint.
IsComparison(comparison) ==
    /\ IsQuote(comparison.preferredQuote)
    /\ IsQuote(comparison.alternativeQuote)
    /\ comparison.alternativeQuote.mint = Alternative
    /\ Comparable(comparison.preferredQuote, comparison.alternativeQuote)
    /\ comparison = CompareQuotes(comparison.preferredQuote, comparison.alternativeQuote)

ViewFields == {"preferred", "alternative", "routes", "comparison", "inputRaw",
               "maxAdditionalCostBps", "currentSlot"}

LiveFits ==
    /\ live = [m \in {Preferred, Alternative} |-> live[m]]
    /\ \A m \in {Preferred, Alternative} :
         live[m] \in ResolvedRepresentationState /\ live[m].mint = m

ViewFits ==
    view # None =>
        /\ DOMAIN view = ViewFields
        /\ view.preferred \in ResolvedRepresentationState
        /\ view.comparison = None \/ IsComparison(view.comparison)

\* The caller's decision is decideExecution of what it recorded, with a comparison
\* that was made and a consent that was issued.
DecisionFits ==
    decision # None =>
        /\ decision.result = DecideExecution(decision.of)
        /\ decision.of.comparison = None \/ IsComparison(decision.of.comparison)
        /\ decision.of.consent = None \/
             /\ decision.of.consent.consentId \in ConsentIds
             /\ consents[decision.of.consent.consentId] = decision.of.consent

ConsentsFit ==
    /\ consents = [c \in ConsentIds |-> consents[c]]
    /\ \A c \in ConsentIds : consents[c] # None =>
         consents[c].consentId = c /\ consents[c].maxAdditionalCostBps \in Nat

\* The plan of a reroute is for the alternative quote of its consent, at a cost
\* the consent accepts.
PlansFit ==
    \A p \in PlanIds : (plans[p] # None /\ plans[p].consentId # None) =>
        LET consent == consents[plans[p].consentId]
        IN  /\ plans[p].consentId \in ConsentIds
            /\ consent # None
            /\ IsQuote(plans[p].quote)
            /\ plans[p].quote.mint = Alternative
            /\ AdditionalCostBps(consent.quoteKeys[1], plans[p].quote)
                 <= consent.maxAdditionalCostBps

\* The guard let a delivery pass only in the state its plan is bound to.
LandedFits ==
    \A e \in Executors : exec[e].pc = "delivered" =>
        \/ plans[exec[e].plan].consentId = None
        \/ /\ exec[e].landed.mint = plans[exec[e].plan].quote.mint
           /\ exec[e].landed.econ = plans[exec[e].plan].quote.state

Consented ==
    LiveFits /\ ViewFits /\ DecisionFits /\ ConsentsFit /\ PlansFit /\ LandedFits

\* The cost of a comparison is an integer.
LEMMA CostIsInteger ==
    ASSUME NEW p, NEW a, IsQuote(p), IsQuote(a), Comparable(p, a)
    PROVE  AdditionalCostBps(p, a) \in Int
  <1>1. PICK pn \in Nat \ {0}, pd \in Nat \ {0}, an \in Nat, ad \in Nat \ {0} :
          /\ SharesEquivalent(p) = [num |-> pn, den |-> pd]
          /\ SharesEquivalent(a) = [num |-> an, den |-> ad]
    <2>1. /\ p.outputRaw \in Nat /\ p.state.effective \in Nat \ {0} /\ p.state.scale \in Nat \ {0}
          /\ a.outputRaw \in Nat /\ a.state.effective \in Nat \ {0} /\ a.state.scale \in Nat \ {0}
      BY DEF IsQuote, EconomicState
    <2>2. p.outputRaw * p.state.effective \in Nat /\ a.outputRaw * a.state.effective \in Nat
      BY <2>1
    <2>3. p.outputRaw * p.state.effective # 0
      BY DEF Comparable, SharesEquivalent
    <2> QED
      BY <2>1, <2>2, <2>3 DEF SharesEquivalent
  <1>2. PICK num \in Int, den \in Nat \ {0} : num = (pn * ad - an * pd) * BPS /\ den = pn * ad
    BY DEF BPS
  <1>3. AdditionalCostBps(p, a) = CeilDiv(num, den)
    BY <1>1, <1>2 DEF AdditionalCostBps
  <1>4. CeilDiv(num, den) \in Int
    BY DEF CeilDiv
  <1> QED
    BY <1>3, <1>4

\* A quote of a route is for the offered mint.
LEMMA RouteQuote ==
    ASSUME NEW offer \in MarketOffer, NEW inputRaw, NEW r \in ResolvedRepresentationState,
           RouteObservation(offer, inputRaw, r).quote # None
    PROVE  /\ IsQuote(RouteObservation(offer, inputRaw, r).quote)
           /\ RouteObservation(offer, inputRaw, r).quote.mint = offer.mint
  <1>1. /\ r.econ \in EconomicState
        /\ RouteObservation(offer, inputRaw, r).quote = Quote(offer, inputRaw, r.econ)
    BY DEF RouteObservation, ResolvedRepresentationState
  <1>2. offer.outputRaw \in Nat
    BY DEF MarketOffer
  <1> QED
    BY <1>1, <1>2 DEF Quote, IsQuote

\* Only an applied consent makes a decision USE_ALTERNATIVE.
LEMMA ReroutedByConsent ==
    ASSUME NEW in, DecideExecution(in).stateDecision.decision = "USE_ALTERNATIVE"
    PROVE  /\ in.comparison # None /\ in.consent # None
           /\ DecideExecution(in).consent = in.consent
           /\ DecideExecution(in).comparison = in.comparison
           /\ DecideExecution(in).executionEligibility = "EXECUTABLE" =>
                DecideExecution(in).executableQuote = in.comparison.alternativeQuote
  <1>1. PICK base : base = Decide(in)
    OBVIOUS
  <1>2. base.decision # "USE_ALTERNATIVE"
    BY <1>1 DEF Decide, DecisionResult
  <1>3. PICK applied : applied = ApplyConsent(base, in)
    OBVIOUS
  <1>4. /\ DecideExecution(in).stateDecision = applied.stateDecision
        /\ DecideExecution(in).consent = applied.consent
        /\ DecideExecution(in).comparison = in.comparison
        /\ DecideExecution(in).executionEligibility = "EXECUTABLE" =>
             DecideExecution(in).executableQuote =
               IF applied.stateDecision.decision = "USE_PREFERRED"
               THEN in.routes.preferred.quote ELSE in.comparison.alternativeQuote
    BY <1>1, <1>3 DEF DecideExecution
  <1>5. applied.stateDecision # base
    BY <1>2, <1>4
  <1>6. in.comparison # None /\ in.consent # None /\ applied.consent = in.consent
    BY <1>3, <1>5 DEF ApplyConsent
  <1> QED
    BY <1>4, <1>6

\* A consent that consentIssues finds nothing against names the quotes of the
\* comparison and accepts its cost.
LEMMA NoIssuesAgrees ==
    ASSUME NEW consent, NEW isSpent, NEW d, NEW comparison, NEW max, NEW now,
           ConsentIssues(consent, isSpent, d, comparison, max, now) = {}
    PROVE  /\ consent.quoteKeys = <<comparison.preferredQuote, comparison.alternativeQuote>>
           /\ ~(comparison.additionalCostBps > consent.maxAdditionalCostBps)
  <1> DEFINE issues == ConsentIssues(consent, isSpent, d, comparison, max, now)
  <1>1. d.decision = "REQUIRES_CONSENT" /\ d.disclosure # None
    <2> SUFFICES ASSUME d.decision # "REQUIRES_CONSENT" \/ d.disclosure = None PROVE FALSE
      OBVIOUS
    <2>1. "NOT_A_CONSENT_DECISION" \in issues
      BY DEF ConsentIssues
    <2> QED
      BY <2>1
  <1>2. (IF consent.quoteKeys # <<comparison.preferredQuote, comparison.alternativeQuote>>
           THEN {"QUOTE_MISMATCH"} ELSE {}) \subseteq issues
    BY <1>1 DEF ConsentIssues
  <1>3. (IF comparison.additionalCostBps > consent.maxAdditionalCostBps
           THEN {"COST_ABOVE_ACCEPTED_MAX"} ELSE {}) \subseteq issues
    BY <1>1 DEF ConsentIssues
  <1> QED
    BY <1>2, <1>3

\* createExecutionPlan binds the alternative quote that was consented to.
LEMMA CreateFits ==
    ASSUME IInv, Consented, NEW p \in PlanIds, NEW recipient \in Recipients,
           CreateExecutionPlan(p, recipient)
    PROVE  PlansFit' /\ \A q \in PlanIds : plans[q] # None => plans'[q] = plans[q]
  <1>1. PICK res : res = decision.result
    OBVIOUS
  <1>2. PICK comparison : comparison = res.comparison
    OBVIOUS
  <1>3. /\ plans[p] = None
        /\ decision # None /\ UNCHANGED consents
        /\ \A q \in PlanIds \ {p} : plans'[q] = plans[q]
        /\ plans'[p].quote = res.executableQuote
        /\ plans'[p].consentId = IF res.stateDecision.decision = "USE_ALTERNATIVE"
                                 THEN res.consent.consentId ELSE None
        /\ res.executionEligibility = "EXECUTABLE"
    BY <1>1 DEF CreateExecutionPlan, IInv, Shape, AssertExecutable
  <1>4. ASSUME plans'[p].consentId # None
        PROVE  /\ plans'[p].consentId \in ConsentIds
               /\ consents[plans'[p].consentId] # None
               /\ IsQuote(plans'[p].quote)
               /\ plans'[p].quote.mint = Alternative
               /\ AdditionalCostBps(consents[plans'[p].consentId].quoteKeys[1], plans'[p].quote)
                    <= consents[plans'[p].consentId].maxAdditionalCostBps
    <2>1. res.stateDecision.decision = "USE_ALTERNATIVE"
          /\ plans'[p].consentId = res.consent.consentId
      BY <1>3, <1>4
    <2>2. res = DecideExecution(decision.of)
      BY <1>1, <1>3 DEF Consented, DecisionFits
    <2>3. /\ decision.of.comparison # None /\ decision.of.consent # None
          /\ res.consent = decision.of.consent
          /\ comparison = decision.of.comparison
          /\ res.executableQuote = comparison.alternativeQuote
      BY <1>2, <1>3, <2>1, <2>2, ReroutedByConsent
    <2>4. IsComparison(comparison)
      BY <1>3, <2>3 DEF Consented, DecisionFits
    <2>5. PICK id \in ConsentIds : id = res.consent.consentId /\ consents[id] = res.consent
      BY <1>3, <2>3 DEF Consented, DecisionFits
    <2>6. consents[id] # None /\ consents[id].maxAdditionalCostBps \in Nat
      BY <2>3, <2>5 DEF Consented, ConsentsFit
    <2>7. \E isSpent, d, max, now :
            ConsentIssues(res.consent, isSpent, d, comparison, max, now) = {}
      BY <1>1, <1>2, <2>1 DEF CreateExecutionPlan
    <2>8. /\ res.consent.quoteKeys = <<comparison.preferredQuote, comparison.alternativeQuote>>
          /\ ~(comparison.additionalCostBps > res.consent.maxAdditionalCostBps)
      BY <2>7, NoIssuesAgrees
    <2>9. PICK pq, aq : pq = comparison.preferredQuote /\ aq = comparison.alternativeQuote
      OBVIOUS
    <2>10. /\ IsQuote(pq) /\ IsQuote(aq) /\ aq.mint = Alternative
           /\ AdditionalCostBps(pq, aq) \in Int
           /\ comparison.additionalCostBps = AdditionalCostBps(pq, aq)
      <3>1. comparison = CompareQuotes(pq, aq) /\ Comparable(pq, aq)
            /\ IsQuote(pq) /\ IsQuote(aq) /\ aq.mint = Alternative
        BY <2>4, <2>9 DEF IsComparison
      <3>2. comparison.additionalCostBps = AdditionalCostBps(pq, aq)
        BY <3>1 DEF CompareQuotes
      <3> QED
        BY <3>1, <3>2, CostIsInteger
    <2>11. res.consent.quoteKeys[1] = pq
      BY <2>8, <2>9
    <2>12. AdditionalCostBps(pq, aq) <= consents[id].maxAdditionalCostBps
      BY <2>5, <2>6, <2>8, <2>10
    <2> QED
      BY <1>3, <2>1, <2>3, <2>5, <2>6, <2>9, <2>10, <2>11, <2>12
  <1>5. PlansFit'
    <2> SUFFICES ASSUME NEW q \in PlanIds, plans'[q] # None, plans'[q].consentId # None
                 PROVE  LET consent == consents'[plans'[q].consentId]
                        IN  /\ plans'[q].consentId \in ConsentIds
                            /\ consent # None
                            /\ IsQuote(plans'[q].quote)
                            /\ plans'[q].quote.mint = Alternative
                            /\ AdditionalCostBps(consent.quoteKeys[1], plans'[q].quote)
                                 <= consent.maxAdditionalCostBps
      BY DEF PlansFit, IsQuote
    <2>1. CASE q = p
      BY <1>3, <1>4, <2>1
    <2>2. CASE q # p
      BY <1>3, <2>2 DEF Consented, PlansFit
    <2> QED
      BY <2>1, <2>2
  <1> QED
    BY <1>3, <1>5

LEMMA InitConsented == Init => Consented
  <1> SUFFICES ASSUME Init PROVE Consented
    OBVIOUS
  <1>1. LiveFits
    BY PlanConstants DEF Init, LiveFits
  <1>2. ViewFits /\ DecisionFits /\ ConsentsFit /\ PlansFit
    BY DEF Init, ViewFits, DecisionFits, ConsentsFit, PlansFit
  <1>3. LandedFits
    BY DEF Init, LandedFits, IdleCall
  <1> QED
    BY <1>1, <1>2, <1>3 DEF Consented

\* The second read of the caller: two routes and, unless it keeps an earlier one,
\* a new comparison.
LEMMA ObserveFits ==
    ASSUME Consented, ObserveAlternative
    PROVE  ViewFits'
  <1>1. view # None /\ DOMAIN view = ViewFields
        /\ view.preferred \in ResolvedRepresentationState
        /\ (view.comparison = None \/ IsComparison(view.comparison))
    BY DEF ObserveAlternative, Consented, ViewFits
  <1>2. PICK offerP \in {o \in Offers : o.mint = Preferred},
             offerA \in {o \in Offers : o.mint = Alternative},
             routed \in RouteAnswers, fresh \in Recompares :
           LET alternative == live[Alternative]
               routeP == IF routed THEN RouteObservation(offerP, view.inputRaw, view.preferred)
                         ELSE Unavailable(Preferred)
               routeA == RouteObservation(offerA, view.inputRaw, alternative)
               comparison == IF fresh THEN FreshComparison(routeP, routeA) ELSE view.comparison
           IN  view' = [view EXCEPT !.alternative = alternative,
                                    !.routes = [preferred |-> routeP, alternative |-> routeA],
                                    !.comparison = comparison]
    BY Zenon DEF ObserveAlternative
  <1>3. PICK routeP : routeP = IF routed THEN RouteObservation(offerP, view.inputRaw, view.preferred)
                               ELSE Unavailable(Preferred)
    OBVIOUS
  <1>4. PICK routeA : routeA = RouteObservation(offerA, view.inputRaw, live[Alternative])
    OBVIOUS
  <1>5. PICK comparison :
          comparison = IF fresh THEN FreshComparison(routeP, routeA) ELSE view.comparison
    OBVIOUS
  <1>6. view' = [view EXCEPT !.alternative = live[Alternative],
                             !.routes = [preferred |-> routeP, alternative |-> routeA],
                             !.comparison = comparison]
    BY <1>2, <1>3, <1>4, <1>5, Zenon
  <1>7. PICK routes : routes = [preferred |-> routeP, alternative |-> routeA]
    OBVIOUS
  <1>8. /\ DOMAIN view' = ViewFields /\ view'.preferred = view.preferred
        /\ view'.comparison = comparison
    BY <1>1, <1>6, <1>7 DEF ViewFields
  <1>9. comparison = None \/ IsComparison(comparison)
    <2> SUFFICES ASSUME fresh, FreshComparison(routeP, routeA) # None
                 PROVE  IsComparison(comparison)
      BY <1>1, <1>5
    <2>1. PICK p, a : p = routeP.quote /\ a = routeA.quote
      OBVIOUS
    <2>2. /\ p # None /\ a # None /\ Comparable(p, a)
          /\ comparison = CompareQuotes(p, a)
      BY <1>5, <2>1 DEF FreshComparison
    <2>3. /\ offerP \in MarketOffer /\ offerA \in MarketOffer /\ offerA.mint = Alternative
          /\ live[Alternative] \in ResolvedRepresentationState
      BY PlanConstants DEF Consented, LiveFits
    <2>4. IsQuote(p)
      <3>1. routeP = RouteObservation(offerP, view.inputRaw, view.preferred)
        BY <1>3, <2>1, <2>2 DEF Unavailable
      <3> QED
        BY <1>1, <2>1, <2>2, <2>3, <3>1, RouteQuote
    <2>5. IsQuote(a) /\ a.mint = Alternative
      BY <1>4, <2>1, <2>2, <2>3, RouteQuote
    <2>6. comparison.preferredQuote = p /\ comparison.alternativeQuote = a
      BY <2>2 DEF CompareQuotes
    <2> QED
      BY <2>2, <2>4, <2>5, <2>6 DEF IsComparison
  <1> QED
    BY <1>1, <1>8, <1>9 DEF ViewFits

\* decideExecution with a consent the caller holds.
LEMMA EvaluateFits ==
    ASSUME Consented, Evaluate
    PROVE  DecisionFits'
  <1>1. PICK id \in {c \in ConsentIds : consents[c] # None} \cup {None} :
          LET consent == IF id = None THEN None ELSE consents[id]
              input   == [preferred |-> view.preferred, alternative |-> view.alternative,
                          comparison |-> view.comparison, routes |-> view.routes,
                          inputRaw |-> view.inputRaw,
                          maxAdditionalCostBps |-> view.maxAdditionalCostBps,
                          consent |-> consent, consentSpent |-> id \in spent,
                          currentSlot |-> view.currentSlot]
          IN  decision' = [result |-> DecideExecution(input), of |-> input]
    BY Zenon DEF Evaluate
  <1>2. PICK consent : consent = IF id = None THEN None ELSE consents[id]
    OBVIOUS
  <1>3. PICK input : input = [preferred |-> view.preferred, alternative |-> view.alternative,
                              comparison |-> view.comparison, routes |-> view.routes,
                              inputRaw |-> view.inputRaw,
                              maxAdditionalCostBps |-> view.maxAdditionalCostBps,
                              consent |-> consent, consentSpent |-> id \in spent,
                              currentSlot |-> view.currentSlot]
    OBVIOUS
  <1>4. decision' = [result |-> DecideExecution(input), of |-> input]
    BY <1>1, <1>2, <1>3, Zenon
  <1>5. decision'.of = input /\ decision'.result = DecideExecution(decision'.of)
    BY <1>4
  <1>6. input.comparison = view.comparison /\ input.consent = consent
    BY <1>3
  <1>7. view.comparison = None \/ IsComparison(view.comparison)
    BY DEF Evaluate, Consented, ViewFits
  <1>8. consent = None \/ (consent.consentId \in ConsentIds /\ consents[consent.consentId] = consent)
    BY <1>2 DEF Consented, ConsentsFit
  <1>9. UNCHANGED consents
    BY DEF Evaluate
  <1> QED
    BY <1>5, <1>6, <1>7, <1>8, <1>9 DEF DecisionFits, IsComparison

\* grantConsent fills a free place: what was issued stays.
LEMMA GrantFits ==
    ASSUME Consented, NEW c \in ConsentIds, NEW accepted \in AcceptedMaxes,
           GrantConsent(c, accepted)
    PROVE  ConsentsFit' /\ DecisionFits' /\ PlansFit'
  <1>1. /\ consents[c] = None /\ UNCHANGED <<decision, plans>>
        /\ \E stateDecision, comparison, now :
             consents' = [consents EXCEPT ![c] =
               ConsentRecord(c, stateDecision, comparison, accepted, now, ValidForSlots)]
    BY DEF GrantConsent
  <1>2. PICK record : /\ consents' = [consents EXCEPT ![c] = record]
                      /\ record.consentId = c /\ record.maxAdditionalCostBps = accepted
    <2>1. PICK stateDecision, comparison, now :
            consents' = [consents EXCEPT ![c] =
              ConsentRecord(c, stateDecision, comparison, accepted, now, ValidForSlots)]
      BY <1>1
    <2>2. PICK issued :
            issued = ConsentRecord(c, stateDecision, comparison, accepted, now, ValidForSlots)
      OBVIOUS
    <2>3. issued.consentId = c /\ issued.maxAdditionalCostBps = accepted
      BY <2>2 DEF ConsentRecord
    <2>4. consents' = [consents EXCEPT ![c] = issued]
      BY <2>1, <2>2, Zenon
    <2> QED
      BY <2>3, <2>4, Zenon
  <1>3. /\ consents' = [d \in ConsentIds |-> consents'[d]]
        /\ consents'[c] = record
        /\ \A d \in ConsentIds \ {c} : consents'[d] = consents[d]
    BY <1>2 DEF Consented, ConsentsFit
  <1>4. ConsentsFit'
    BY <1>2, <1>3, PlanConstants DEF Consented, ConsentsFit
  <1>5. \A d \in ConsentIds : consents[d] # None => consents'[d] = consents[d]
    BY <1>1, <1>3
  <1>6. DecisionFits'
    BY <1>1, <1>5 DEF Consented, DecisionFits, IsComparison
  <1>7. PlansFit'
    BY <1>1, <1>5 DEF Consented, PlansFit, IsQuote
  <1> QED
    BY <1>4, <1>6, <1>7

\* A call that is not delivered by a step owes nothing.
LEMMA CallFits ==
    ASSUME Consented, NEW e \in Executors, UNCHANGED <<live, view, decision, consents, plans>>,
           \A d \in Executors \ {e} : exec'[d] = exec[d],
           exec'[e].pc = "delivered" =>
             \/ plans[exec'[e].plan].consentId = None
             \/ /\ exec'[e].landed.mint = plans[exec'[e].plan].quote.mint
                /\ exec'[e].landed.econ = plans[exec'[e].plan].quote.state
    PROVE  Consented'
  <1>1. LandedFits'
    BY DEF Consented, LandedFits
  <1>2. LiveFits' /\ ViewFits' /\ DecisionFits' /\ ConsentsFit' /\ PlansFit'
    BY DEF Consented, LiveFits, ViewFits, DecisionFits, ConsentsFit, PlansFit, IsComparison, IsQuote
  <1> QED
    BY <1>1, <1>2 DEF Consented

\* The guard decides in the block: the alternative is in the state of the plan.
LEMMA LandFits ==
    ASSUME IInv, Consented, NEW e \in Executors, LandDelivery(e)
    PROVE  Consented'
  <1>1. PICK plan : plan = plans[exec[e].plan]
    OBVIOUS
  <1>2. PICK observation : observation = live[plan.quote.mint]
    OBVIOUS
  <1>3. PICK pc : pc = IF GuardAccepts(plan, observation) THEN "delivered" ELSE "rejected"
    OBVIOUS
  <1>4. /\ exec' = [exec EXCEPT ![e] = [exec[e] EXCEPT !.pc = pc, !.landed = observation]]
        /\ exec[e].pc = "sent"
        /\ UNCHANGED <<live, view, decision, consents, plans>>
    BY <1>1, <1>2, <1>3 DEF LandDelivery
  <1>5. /\ exec'[e] = [pc |-> pc, plan |-> exec[e].plan, recipient |-> exec[e].recipient,
                       signedAt |-> exec[e].signedAt, landed |-> observation]
        /\ \A d \in Executors \ {e} : exec'[d] = exec[d]
    <2>1. IsCall(exec[e])
      BY DEF IInv, Shape
    <2>2. /\ exec'[e] = [exec[e] EXCEPT !.pc = pc, !.landed = observation]
          /\ \A d \in Executors \ {e} : exec'[d] = exec[d]
      BY <1>4, CallReplaced
    <2>3. [exec[e] EXCEPT !.pc = pc, !.landed = observation]
            = [pc |-> pc, plan |-> exec[e].plan, recipient |-> exec[e].recipient,
               signedAt |-> exec[e].signedAt, landed |-> observation]
      BY <2>1, LandedRecord
    <2> QED
      BY <2>2, <2>3, Zenon
  <1>6. exec'[e].pc = pc /\ exec'[e].plan = exec[e].plan /\ exec'[e].landed = observation
    BY <1>5
  <1>7. ASSUME pc = "delivered", plan.consentId # None
        PROVE  observation.mint = plan.quote.mint /\ observation.econ = plan.quote.state
    <2>1. exec[e].plan \in PlanIds /\ plan # None
      BY <1>1, <1>4 DEF IInv, CallsMatchMarks
    <2>2. plan.quote.mint = Alternative
      BY <1>1, <1>7, <2>1 DEF Consented, PlansFit
    <2>3. observation.mint = Alternative
      BY <1>2, <2>2 DEF Consented, LiveFits
    <2> QED
      BY <1>3, <1>7, <2>2, <2>3 DEF GuardAccepts
  <1> QED
    BY <1>1, <1>4, <1>5, <1>6, <1>7, CallFits

LEMMA NextConsented == IInv /\ Consented /\ [Next]_vars => Consented'
  <1> SUFFICES ASSUME IInv, Consented, [Next]_vars PROVE Consented'
    OBVIOUS
  <1>0. ASSUME UNCHANGED <<plans, exec>> PROVE LandedFits'
    BY <1>0 DEF Consented, LandedFits
  <1>1. CASE SlotAdvances \/ UNCHANGED vars
    BY <1>1 DEF SlotAdvances, vars, Consented, LiveFits, ViewFits, DecisionFits, ConsentsFit,
                PlansFit, LandedFits, IsComparison, IsQuote
  <1>2. CASE StateChanges
    <2>1. UNCHANGED <<view, decision, consents, plans, exec>>
      BY <1>2 DEF StateChanges
    <2>2. LiveFits'
      BY <1>2, PlanConstants DEF StateChanges, Consented, LiveFits
    <2> QED
      BY <1>0, <2>1, <2>2 DEF Consented, ViewFits, DecisionFits, ConsentsFit, PlansFit,
                              IsComparison, IsQuote
  <1>3. CASE ObservePreferred
    <2>1. UNCHANGED <<live, decision, consents, plans, exec>>
      BY <1>3 DEF ObservePreferred
    <2>2. ViewFits'
      <3>1. PICK inputRaw, comparison, routes :
              /\ comparison = IF view = None THEN None ELSE view.comparison
              /\ view' = [preferred |-> live[Preferred], alternative |-> None, routes |-> routes,
                          comparison |-> comparison, inputRaw |-> inputRaw,
                          maxAdditionalCostBps |-> PolicyMax, currentSlot |-> slot]
        BY <1>3 DEF ObservePreferred
      <3>2. /\ DOMAIN view' = ViewFields /\ view'.preferred = live[Preferred]
            /\ view'.comparison = comparison
        BY <3>1 DEF ViewFields
      <3>3. comparison = None \/ IsComparison(comparison)
        BY <3>1 DEF Consented, ViewFits
      <3> QED
        BY <3>2, <3>3 DEF ViewFits, IsComparison, Consented, LiveFits
    <2> QED
      BY <1>0, <2>1, <2>2 DEF Consented, LiveFits, DecisionFits, ConsentsFit, PlansFit,
                              IsComparison, IsQuote
  <1>4. CASE ObserveAlternative
    <2>1. UNCHANGED <<live, decision, consents, plans, exec>>
      BY <1>4 DEF ObserveAlternative
    <2> QED
      BY <1>0, <1>4, <2>1, ObserveFits
         DEF Consented, LiveFits, DecisionFits, ConsentsFit, PlansFit, IsComparison, IsQuote
  <1>5. CASE Evaluate
    <2>1. UNCHANGED <<live, view, consents, plans, exec>>
      BY <1>5 DEF Evaluate
    <2> QED
      BY <1>0, <1>5, <2>1, EvaluateFits
         DEF Consented, LiveFits, ViewFits, ConsentsFit, PlansFit, IsComparison, IsQuote
  <1>6. ASSUME NEW c \in ConsentIds, NEW accepted \in AcceptedMaxes, GrantConsent(c, accepted)
        PROVE  Consented'
    <2>1. UNCHANGED <<live, view, plans, exec>>
      BY <1>6 DEF GrantConsent
    <2> QED
      BY <1>0, <1>6, <2>1, GrantFits DEF Consented, LiveFits, ViewFits, IsComparison, IsQuote
  <1>7. ASSUME NEW p \in PlanIds, NEW recipient \in Recipients,
               CreateExecutionPlan(p, recipient)
        PROVE  Consented'
    <2>1. UNCHANGED <<live, view, decision, consents, exec>>
      BY <1>7 DEF CreateExecutionPlan
    <2>2. PlansFit' /\ \A q \in PlanIds : plans[q] # None => plans'[q] = plans[q]
      BY <1>7, CreateFits
    <2>3. LandedFits'
      BY <2>1, <2>2 DEF Consented, LandedFits, IInv, CallsMatchMarks
    <2> QED
      BY <2>1, <2>2, <2>3
         DEF Consented, LiveFits, ViewFits, DecisionFits, ConsentsFit, IsComparison, IsQuote
  <1>8. ASSUME NEW e \in Executors, NEW p \in PlanIds, NEW recipient \in Recipients,
               StartExecution(e, p, recipient)
        PROVE  Consented'
    <2>1. /\ exec'[e].pc = "building"
          /\ \A d \in Executors \ {e} : exec'[d] = exec[d]
          /\ UNCHANGED <<live, view, decision, consents, plans>>
      BY <1>8 DEF StartExecution, IInv, Shape, IdleCall
    <2> QED
      BY <2>1, CallFits
  <1>9. ASSUME NEW e \in Executors,
               SpendPlan(e) \/ CheckFresh(e) \/ CallFails(e) \/ Lapse(e)
        PROVE  Consented'
    <2>1. \E pc \in {"spent", "refused", "burned", "fresh", "lost"} :
            exec' = [exec EXCEPT ![e].pc = pc]
      BY <1>9 DEF SpendPlan, CheckFresh, CallFails, Lapse
    <2>2. UNCHANGED <<live, view, decision, consents, plans>>
      BY <1>9 DEF SpendPlan, CheckFresh, CallFails, Lapse
    <2>3. exec'[e].pc # "delivered" /\ \A d \in Executors \ {e} : exec'[d] = exec[d]
      BY <2>1, PcStep
    <2> QED
      BY <2>2, <2>3, CallFits
  <1>10. ASSUME NEW e \in Executors, SignAndSend(e)
         PROVE  Consented'
    <2>1. /\ exec' = [exec EXCEPT ![e] = [exec[e] EXCEPT !.pc = "sent", !.signedAt = slot]]
          /\ UNCHANGED <<live, view, decision, consents, plans>>
      BY <1>10 DEF SignAndSend
    <2>2. /\ exec'[e] = [exec[e] EXCEPT !.pc = "sent", !.signedAt = slot]
          /\ \A d \in Executors \ {e} : exec'[d] = exec[d]
      BY <2>1, CallReplaced
    <2>3. exec'[e] = [pc |-> "sent", plan |-> exec[e].plan, recipient |-> exec[e].recipient,
                      signedAt |-> slot, landed |-> exec[e].landed]
      <3>1. IsCall(exec[e])
        BY DEF IInv, Shape
      <3>2. [exec[e] EXCEPT !.pc = "sent", !.signedAt = slot]
              = [pc |-> "sent", plan |-> exec[e].plan, recipient |-> exec[e].recipient,
                 signedAt |-> slot, landed |-> exec[e].landed]
        BY <3>1, SignedRecord
      <3> QED
        BY <2>2, <3>2, Zenon
    <2>4. exec'[e].pc # "delivered"
      BY <2>3
    <2> QED
      BY <2>1, <2>2, <2>4, CallFits
  <1>11. ASSUME NEW e \in Executors, LandDelivery(e)
         PROVE  Consented'
    BY <1>11, LandFits
  <1> QED
    BY <1>1, <1>2, <1>3, <1>4, <1>5, <1>6, <1>7, <1>8, <1>9, <1>10, <1>11 DEF Next

\* The whole pipeline, for every number of consents, plans and calls and every kind
\* of evidence and quote: a delivered reroute costs no more than was consented to,
\* at the multiplier the alternative had when it landed.
THEOREM ReroutesCostAsConsented == Spec => []DeliveredAsConsented
  <1>1. IInv /\ Consented => DeliveredAsConsented
    <2> SUFFICES ASSUME IInv, Consented, NEW e \in Executors, exec[e].pc = "delivered",
                        plans[exec[e].plan].consentId # None
                 PROVE  LET plan      == plans[exec[e].plan]
                            consent   == consents[plan.consentId]
                            delivered == [plan.quote EXCEPT !.state = exec[e].landed.econ]
                        IN  /\ exec[e].landed.mint = plan.quote.mint
                            /\ AdditionalCostBps(consent.quoteKeys[1], delivered)
                                 <= consent.maxAdditionalCostBps
      BY DEF DeliveredAsConsented
    <2>1. PICK plan : plan = plans[exec[e].plan]
      OBVIOUS
    <2>2. exec[e].plan \in PlanIds /\ plan # None
      BY <2>1 DEF IInv, CallsMatchMarks
    <2>3. /\ IsQuote(plan.quote)
          /\ AdditionalCostBps(consents[plan.consentId].quoteKeys[1], plan.quote)
               <= consents[plan.consentId].maxAdditionalCostBps
      BY <2>1, <2>2 DEF Consented, PlansFit
    <2>4. exec[e].landed.mint = plan.quote.mint /\ exec[e].landed.econ = plan.quote.state
      BY <2>1 DEF Consented, LandedFits
    <2>5. [plan.quote EXCEPT !.state = exec[e].landed.econ] = plan.quote
      <3>1. PICK q : q = plan.quote
        OBVIOUS
      <3>2. [q EXCEPT !.state = q.state] = q
        BY <2>3, <3>1 DEF IsQuote
      <3> QED
        BY <2>4, <3>1, <3>2
    <2> QED
      BY <2>1, <2>3, <2>4, <2>5
  <1> QED
    BY <1>1, IInvHolds, InitConsented, NextConsented, PTL DEF Spec
===============================================================================
