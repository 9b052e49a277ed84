--------------------------- MODULE WalletDemoProofs ---------------------------
(***************************************************************************)
(* Proofs about WalletDemo, for every number of attempts, transactions and   *)
(* blocks, every clock, delay and scenario, and every rewriting of a mint.    *)
(***************************************************************************)
EXTENDS WalletDemo, SequenceTheorems, TLAPS

\* An error of the guard is none of the decoding errors.
LEMMA CheckType ==
    ASSUME NEW req, NEW actual, NEW now
    PROVE  Check(req, actual, now) \in {"Ok"} \cup CheckErrors
  BY DEF Check, CheckErrors

\* Sequences of submitted transactions: one is appended, or one changes.
LEMMA SequenceDomain ==
    ASSUME NEW s, s \in Seq({s[i] : i \in DOMAIN s})
    PROVE  Len(s) \in Nat /\ DOMAIN s = 1 .. Len(s)
  BY LenProperties

LEMMA FunctionIsSequence ==
    ASSUME NEW S, NEW n \in Nat, NEW f \in [1 .. n -> S]
    PROVE  f \in Seq(S)
  BY SeqDef

LEMMA AppendTransaction ==
    ASSUME NEW s, s \in Seq({s[i] : i \in DOMAIN s}), NEW tx, NEW t, t = Append(s, tx)
    PROVE  /\ t \in Seq({t[i] : i \in DOMAIN t})
           /\ DOMAIN t = DOMAIN s \cup {Len(s) + 1}
           /\ \A i \in DOMAIN s : t[i] = s[i]
           /\ t[Len(s) + 1] = tx
  <1> DEFINE S == {s[i] : i \in DOMAIN s} \cup {tx}
  <1>1. s \in Seq(S)
    BY SeqMonotonic
  <1>2. Len(s) \in Nat /\ DOMAIN s = 1 .. Len(s)
    BY <1>1, LenProperties
  <1> HIDE DEF S
  <1>3. tx \in S
    BY DEF S
  <1>4. /\ t \in Seq(S) /\ Len(t) = Len(s) + 1
        /\ \A i \in 1 .. Len(s) : t[i] = s[i]
        /\ t[Len(s) + 1] = tx
    BY <1>1, <1>2, <1>3, AppendProperties
  <1>5. DOMAIN t = 1 .. Len(s) + 1
    BY <1>4, LenProperties
  <1>6. t \in [1 .. Len(s) + 1 -> {t[i] : i \in DOMAIN t}]
    BY <1>4, <1>5, LenProperties
  <1>7. t \in Seq({t[i] : i \in DOMAIN t})
    BY <1>2, <1>6, FunctionIsSequence
  <1> QED
    BY <1>2, <1>4, <1>5, <1>7

LEMMA ExceptTransaction ==
    ASSUME NEW s, s \in Seq({s[i] : i \in DOMAIN s}), NEW t, DOMAIN t = DOMAIN s,
           t = [i \in DOMAIN t |-> t[i]]
    PROVE  t \in Seq({t[i] : i \in DOMAIN t})
  <1>1. Len(s) \in Nat /\ DOMAIN t = 1 .. Len(s)
    BY SequenceDomain
  <1>2. t \in [1 .. Len(s) -> {t[i] : i \in DOMAIN t}]
    BY <1>1
  <1> QED
    BY <1>1, <1>2, FunctionIsSequence
-------------------------------------------------------------------------------

FlowFields == {"kind", "attempt", "wallet", "pc", "polls", "snapshot", "lastValid",
               "expectation", "before", "tx", "prefix", "signedAt"}

TxFields == {"kind", "attempt", "setup", "wallet", "lastValid", "prefix", "expectation",
             "note", "outcome", "failedAt", "multiplier"}

Kinds == {"prepare", "authorize", "confirm"}

Started == 1 .. attempts

Scheduled(a) == ScheduledState(activation[a])

\* What the held bytes, and what the fresh transfer, ask the guard for.
Expecting(a, phase) ==
    [expected |-> Scheduled(a), expectedPhase |-> phase, window |-> ZeroWindow]

Shape ==
    /\ clock \in Nat
    /\ attempts \in Nat /\ attempts <= MaxAttempts
    /\ DOMAIN activation = Attempts /\ DOMAIN flags = Attempts
    /\ \A a \in Started : activation[a].scenario \in Scenarios /\ activation[a].T \in Nat
    /\ session # None => session \in Started
    /\ sent \in Seq({sent[i] : i \in DOMAIN sent})

\* Bytes that were held were signed before the activation and sent after it; a
\* fresh transfer was reviewed after it, and after the claim of a refusal.
TxFits(i) ==
    LET a == sent[i].attempt
    IN  /\ DOMAIN sent[i] = TxFields
        /\ a \in Started
        /\ sent[i].kind \in Kinds
        /\ sent[i].kind = "authorize" =>
             /\ sent[i].expectation = Expecting(a, "Pending")
             /\ sent[i].note < activation[a].T
             /\ activation[a].T <= clock
             /\ sent[i].outcome # "Executed"
        /\ sent[i].kind = "confirm" =>
             /\ sent[i].expectation = Expecting(a, "Activated")
             /\ "staleAccepted" \in flags[a]
             /\ sent[i].outcome = "Executed" => sent[i].multiplier = activation[a].scenario

Held == {"holdSnapshot", "holdHeight", "submitHeight", "send"}

FlowShape ==
    /\ DOMAIN flow = FlowFields
    /\ flow.kind \in Kinds
    /\ flow.attempt \in Started
    /\ flow.pc \in {"snapshot", "afterSign"} \cup Held => flow.kind = "authorize"
    /\ flow.kind = "confirm" => "staleAccepted" \in flags[flow.attempt]

\* What a flow has read is the scheduled state, on its side of the activation.
SnapshotFits ==
    LET T == activation[flow.attempt].T
    IN  /\ (flow.kind = "authorize" /\ flow.pc \in {"height", "again"}) =>
             /\ flow.snapshot.state = Scheduled(flow.attempt)
             /\ flow.snapshot.now \in Nat
             /\ flow.snapshot.now < T
        /\ (flow.kind = "confirm" /\ flow.pc \in {"before", "blockhash", "height", "again"}) =>
             /\ flow.snapshot.state = Scheduled(flow.attempt)
             /\ flow.snapshot.now \in Nat
             /\ flow.snapshot.now > T
        /\ flow.pc = "holdHeight" => flow.snapshot.now \in Nat /\ flow.snapshot.now <= clock

\* What it is about to send asks for that side, and held bytes wait for the other.
ExpectationFits ==
    LET T == activation[flow.attempt].T
    IN  /\ (flow.kind = "authorize" /\ flow.pc \in {"sign", "afterSign"} \cup Held) =>
             flow.expectation = Expecting(flow.attempt, "Pending")
        /\ (flow.kind = "confirm" /\ flow.pc = "sign") =>
             flow.expectation = Expecting(flow.attempt, "Activated")
        /\ flow.pc = "afterSign" => flow.signedAt \in Nat /\ flow.signedAt <= clock
        /\ flow.pc \in Held => flow.signedAt < T
        /\ flow.pc \in {"submitHeight", "send"} => T <= clock

\* What it waits for is its own transaction.
OwnTransaction ==
    flow.pc \in {"status", "pollHeight", "metadata", "after"} =>
        /\ flow.tx \in DOMAIN sent
        /\ sent[flow.tx].kind = flow.kind
        /\ sent[flow.tx].attempt = flow.attempt

FlowFits == Busy => FlowShape /\ SnapshotFits /\ ExpectationFits /\ OwnTransaction

IInv ==
    /\ Shape
    /\ \A i \in DOMAIN sent : TxFits(i)
    /\ FlowFits
    /\ ClaimsAreTrue
-------------------------------------------------------------------------------
\* The guard's answer on a scheduled state, by the fields it compares: accepted
\* bytes found the scheduled state, on the side of the activation they ask for.
LEMMA AcceptedOnItsSide ==
    ASSUME NEW a, NEW phase, NEW actual, NEW now,
           activation[a].scenario \in Scenarios,
           Check(Expecting(a, phase), actual, now) = "Ok"
    PROVE  /\ actual.newMultiplier = activation[a].scenario
           /\ actual.effectiveTimestamp = activation[a].T
           /\ PhaseAt(actual, now) = phase
  <1>1. InitialMultiplier # activation[a].scenario
    BY DemoChainConstants DEF ValidateScenarioCatalog
  <1> QED
    BY <1>1 DEF Check, Expecting, Scheduled, ScheduledState, HasScheduledChange

\* The page's mirror of that answer: what is ready to be refused is activated.
LEMMA ReadyIsActivated ==
    ASSUME NEW a, NEW snapshot,
           ChainReadyForStaleSubmit(snapshot, Expecting(a, "Pending")),
           activation[a].T \in Nat, snapshot.now \in Nat
    PROVE  activation[a].T <= snapshot.now
  <1>1. CheckGuardOffline(Expecting(a, "Pending"), snapshot.state, snapshot.now)
          = "ActivationPhaseChanged"
    BY DEF ChainReadyForStaleSubmit
  <1>2. /\ snapshot.state.effectiveTimestamp = activation[a].T
        /\ PhaseAt(snapshot.state, snapshot.now) # "Pending"
    BY <1>1 DEF CheckGuardOffline, Expecting, Scheduled, ScheduledState
  <1> QED
    BY <1>2 DEF PhaseAt

\* pendingSignDecision and activatedReviewDecision, by what their answers mean.
LEMMA PendingDecision ==
    ASSUME NEW a, NEW snapshot, activation[a].T \in Nat, snapshot.now \in Nat,
           PendingSignDecision(a, snapshot) \in {"sign", "wait", "ready"}
    PROVE  snapshot.state = Scheduled(a) /\ snapshot.now < activation[a].T
  <1>1. snapshot.state = Scheduled(a)
    BY DEF PendingSignDecision, Scheduled
  <1>2. CASE snapshot.now >= activation[a].T
    <2>1. ~(activation[a].T - snapshot.now > MaxSignLead)
      BY <1>2, WalletDemoConstants
    <2> QED
      BY <1>1, <1>2, <2>1 DEF PendingSignDecision, Scheduled
  <1> QED
    BY <1>1, <1>2

LEMMA ActivatedDecision ==
    ASSUME NEW a, NEW snapshot, activation[a].T \in Nat, snapshot.now \in Nat,
           ActivatedReviewDecision(activation[a], snapshot) \in {"sign", "ready"}
    PROVE  snapshot.state = Scheduled(a) /\ snapshot.now > activation[a].T
  BY DEF ActivatedReviewDecision, Scheduled

\* The payload of a snapshot on one side of the activation.
LEMMA PendingPayload ==
    ASSUME NEW a, NEW now \in Nat, activation[a].T \in Nat, now < activation[a].T
    PROVE  ExpectationFromSnapshot(Scheduled(a), now, ZeroWindow) = Expecting(a, "Pending")
  BY DEF ExpectationFromSnapshot, Expecting, Scheduled, ScheduledState, PhaseAt

LEMMA ActivatedPayload ==
    ASSUME NEW a, NEW now \in Nat, activation[a].T \in Nat, now > activation[a].T
    PROVE  ExpectationFromSnapshot(Scheduled(a), now, ZeroWindow) = Expecting(a, "Activated")
  BY DEF ExpectationFromSnapshot, Expecting, Scheduled, ScheduledState, PhaseAt
-------------------------------------------------------------------------------
LEMMA InitIInv == Init => IInv
  <1> SUFFICES ASSUME Init PROVE IInv
    OBVIOUS
  <1>1. DOMAIN sent = {} /\ sent \in Seq({sent[i] : i \in DOMAIN sent})
    <2>1. sent = <<>>
      BY DEF Init, ChainInit
    <2> QED
      BY <2>1, EmptySeq
  <1>2. Shape
    BY <1>1, DemoChainConstants DEF Init, ChainInit, Shape, Started, Attempts
  <1>3. ClaimsAreTrue
    BY DEF Init, ClaimsAreTrue
  <1> QED
    BY <1>1, <1>2, <1>3 DEF Init, IInv, FlowFits, Busy

\* What every step does: time and the marks of an attempt only grow, and what was
\* started stays as it was started.
PageGrows ==
    /\ clock' \in Nat /\ clock <= clock'
    /\ attempts' \in Nat /\ attempts <= attempts'
    /\ \A a \in Started : activation'[a] = activation[a] /\ flags[a] \subseteq flags'[a]

\* Nothing submitted is taken back or changed once it was decided.
SentGrows ==
    \A i \in DOMAIN sent :
        /\ i \in DOMAIN sent'
        /\ sent'[i].kind = sent[i].kind
        /\ sent'[i].attempt = sent[i].attempt
        /\ sent[i].outcome # None => sent'[i].outcome = sent[i].outcome

LEMMA TxFitsKept ==
    ASSUME IInv, PageGrows, NEW i \in DOMAIN sent, sent'[i] = sent[i]
    PROVE  TxFits(i)'
  <1> DEFINE a == sent[i].attempt
  <1>1. TxFits(i) /\ a \in Started
    BY DEF IInv, TxFits
  <1>2. a \in Started'
    BY <1>1 DEF IInv, Shape, PageGrows, Started
  <1>3. activation'[a] = activation[a] /\ flags[a] \subseteq flags'[a]
    BY <1>1 DEF PageGrows
  <1>4. activation[a].T \in Nat
    BY <1>1 DEF IInv, Shape
  <1>5. activation[a].T <= clock => activation[a].T <= clock'
    BY <1>4 DEF IInv, Shape, PageGrows
  <1>6. \A phase : Expecting(a, phase)' = Expecting(a, phase)
    BY <1>3 DEF Expecting, Scheduled
  <1> QED
    BY <1>1, <1>2, <1>3, <1>5, <1>6 DEF TxFits

LEMMA FlowKept ==
    ASSUME IInv, flow' = flow, PageGrows, SentGrows
    PROVE  FlowFits'
  <1> SUFFICES ASSUME Busy
               PROVE  FlowShape' /\ SnapshotFits' /\ ExpectationFits' /\ OwnTransaction'
    BY DEF FlowFits, Busy
  <1> DEFINE a == flow.attempt
  <1>1. FlowShape /\ SnapshotFits /\ ExpectationFits /\ OwnTransaction /\ a \in Started
    BY DEF IInv, FlowFits, FlowShape
  <1>2. a \in Started'
    BY <1>1 DEF IInv, Shape, PageGrows, Started
  <1>3. activation'[a] = activation[a] /\ flags[a] \subseteq flags'[a]
    BY <1>1 DEF PageGrows
  <1>4. activation[a].T \in Nat /\ clock \in Nat /\ clock' \in Nat /\ clock <= clock'
    BY <1>1 DEF IInv, Shape, PageGrows
  <1>5. Scheduled(a)' = Scheduled(a) /\ \A phase : Expecting(a, phase)' = Expecting(a, phase)
    BY <1>3 DEF Expecting, Scheduled
  <1>6. FlowShape'
    BY <1>1, <1>2, <1>3 DEF FlowShape
  <1>7. SnapshotFits'
    BY <1>1, <1>3, <1>4, <1>5 DEF SnapshotFits
  <1>8. ExpectationFits'
    BY <1>1, <1>3, <1>4, <1>5 DEF ExpectationFits
  <1>9. OwnTransaction'
    BY <1>1 DEF OwnTransaction, SentGrows
  <1> QED
    BY <1>6, <1>7, <1>8, <1>9

LEMMA ClaimsKept ==
    ASSUME IInv, flags' = flags, SentGrows
    PROVE  ClaimsAreTrue'
  <1>1. \A i \in DOMAIN sent : sent[i].outcome \in {"Executed", "ActivationPhaseChanged"} =>
                                 sent'[i].outcome = sent[i].outcome
    BY DemoChainConstants DEF SentGrows
  <1> QED
    BY <1>1 DEF IInv, ClaimsAreTrue, Transactions, SentGrows

\* A step that touches neither the network nor the attempts.
LEMMA QuietStepKeepsIInv ==
    ASSUME IInv, UNCHANGED <<clock, sent, activation, attempts, flags>>, FlowFits',
           session' \in {session, None} \/ session' \in Started
    PROVE  IInv'
  <1>1. PageGrows /\ SentGrows
    BY DEF IInv, Shape, PageGrows, SentGrows
  <1>2. Shape'
    BY DEF IInv, Shape, Started
  <1>3. \A i \in DOMAIN sent' : TxFits(i)'
    BY <1>1, TxFitsKept
  <1> QED
    BY <1>1, <1>2, <1>3, ClaimsKept DEF IInv

LEMMA ConnectionKeepsIInv ==
    ASSUME IInv, ClickConnect \/ Connected \/ ClickDisconnect \/ Disconnected \/ ClickReset
    PROVE  IInv'
  <1>1. /\ UNCHANGED <<clock, sent, activation, attempts, flags, flow>>
        /\ session' \in {session, None}
    BY DEF ClickConnect, Connected, ClickDisconnect, Disconnected, ClickReset, chain
  <1>2. PageGrows /\ SentGrows
    BY <1>1 DEF IInv, Shape, PageGrows, SentGrows
  <1> QED
    BY <1>1, <1>2, FlowKept, QuietStepKeepsIInv

LEMMA BlockKeepsIInv ==
    ASSUME IInv, ChainAdvances
    PROVE  IInv'
  <1>1. /\ UNCHANGED <<sent, activation, attempts, flags, flow, session>>
        /\ clock' \in Nat /\ clock <= clock'
    BY DemoChainConstants DEF ChainAdvances, BlockProduced, page, IInv, Shape
  <1>2. PageGrows /\ SentGrows
    BY <1>1 DEF IInv, Shape, PageGrows, SentGrows
  <1>3. Shape'
    BY <1>1 DEF IInv, Shape, Started
  <1>4. \A i \in DOMAIN sent' : TxFits(i)'
    BY <1>1, <1>2, TxFitsKept
  <1> QED
    BY <1>1, <1>2, <1>3, <1>4, FlowKept, ClaimsKept DEF IInv

LEMMA RewriteKeepsIInv ==
    ASSUME IInv, NEW a \in Attempts, MintRewritten(a)
    PROVE  IInv'
  <1>1. UNCHANGED <<clock, sent, activation, attempts, flags, flow, session>>
    BY DEF MintRewritten, Rewritten, page
  <1>2. PageGrows /\ SentGrows
    BY <1>1 DEF IInv, Shape, PageGrows, SentGrows
  <1> QED
    BY <1>1, <1>2, FlowKept, QuietStepKeepsIInv

\* The network decides one transaction: its outcome is set and, for a transfer, what
\* the token program found.
LEMMA Decided ==
    ASSUME IInv, NEW i \in DOMAIN sent, Lands(i)
    PROVE  /\ sent[i].outcome = None
           /\ DOMAIN sent' = DOMAIN sent
           /\ sent' \in Seq({sent'[j] : j \in DOMAIN sent'})
           /\ \A j \in DOMAIN sent \ {i} : sent'[j] = sent[j]
           /\ DOMAIN sent'[i] = TxFields
           /\ \A f \in TxFields \ {"outcome", "failedAt", "multiplier"} : sent'[i][f] = sent[i][f]
           /\ sent[i].kind # "prepare" =>
                /\ sent'[i].outcome = TransferOutcome(sent[i])[1]
                /\ sent'[i].multiplier = EffectiveMultiplier(mint[sent[i].attempt], clock)
  <1>1. DOMAIN sent[i] = TxFields /\ sent[i].outcome = None
    BY DEF IInv, TxFits, Lands, Included
  <1>2. ASSUME NEW result, sent' = [sent EXCEPT ![i].outcome = result]
        PROVE  /\ DOMAIN sent' = DOMAIN sent /\ sent' = [j \in DOMAIN sent' |-> sent'[j]]
               /\ \A j \in DOMAIN sent \ {i} : sent'[j] = sent[j]
               /\ DOMAIN sent'[i] = TxFields
               /\ \A f \in TxFields \ {"outcome"} : sent'[i][f] = sent[i][f]
    BY <1>1, <1>2
  <1>3. ASSUME NEW result, NEW multiplier,
               sent' = [sent EXCEPT ![i].outcome = result[1], ![i].failedAt = result[2],
                                    ![i].multiplier = multiplier]
        PROVE  /\ DOMAIN sent' = DOMAIN sent /\ sent' = [j \in DOMAIN sent' |-> sent'[j]]
               /\ \A j \in DOMAIN sent \ {i} : sent'[j] = sent[j]
               /\ DOMAIN sent'[i] = TxFields
               /\ \A f \in TxFields \ {"outcome", "failedAt", "multiplier"} :
                    sent'[i][f] = sent[i][f]
               /\ sent'[i].outcome = result[1] /\ sent'[i].multiplier = multiplier
    BY <1>1, <1>3 DEF TxFields
  <1>4. CASE sent[i].kind = "prepare"
    <2>1. PICK result : sent' = [sent EXCEPT ![i].outcome = result]
      BY <1>4 DEF Lands, Included
    <2>2. /\ DOMAIN sent' = DOMAIN sent /\ sent' = [j \in DOMAIN sent' |-> sent'[j]]
          /\ \A j \in DOMAIN sent \ {i} : sent'[j] = sent[j]
          /\ DOMAIN sent'[i] = TxFields
          /\ \A f \in TxFields \ {"outcome"} : sent'[i][f] = sent[i][f]
      BY <1>2, <2>1
    <2>3. sent' \in Seq({sent'[j] : j \in DOMAIN sent'})
      BY <2>2, ExceptTransaction DEF IInv, Shape
    <2> QED
      BY <1>1, <1>4, <2>2, <2>3
  <1>5. CASE sent[i].kind # "prepare"
    <2> DEFINE result == TransferOutcome(sent[i])
               multiplier == EffectiveMultiplier(mint[sent[i].attempt], clock)
    <2>1. sent' = [sent EXCEPT ![i].outcome = result[1], ![i].failedAt = result[2],
                               ![i].multiplier = multiplier]
      BY <1>5 DEF Lands, Included
    <2> HIDE DEF result, multiplier
    <2>2. /\ DOMAIN sent' = DOMAIN sent /\ sent' = [j \in DOMAIN sent' |-> sent'[j]]
          /\ \A j \in DOMAIN sent \ {i} : sent'[j] = sent[j]
          /\ DOMAIN sent'[i] = TxFields
          /\ \A f \in TxFields \ {"outcome", "failedAt", "multiplier"} : sent'[i][f] = sent[i][f]
          /\ sent'[i].outcome = result[1] /\ sent'[i].multiplier = multiplier
      BY <1>3, <2>1
    <2> QED
      BY <1>1, <2>2, ExceptTransaction DEF IInv, Shape, result, multiplier
  <1> QED
    BY <1>4, <1>5

\* Held bytes are refused when they land, a fresh transfer executes at the
\* multiplier of its scenario.
LEMMA LandKeepsIInv ==
    ASSUME IInv, NEW i \in DOMAIN sent, Lands(i)
    PROVE  IInv'
  <1> DEFINE a == sent[i].attempt
  <1>1. UNCHANGED <<clock, activation, attempts, flags, flow, session>>
    BY DEF Lands, Included, page
  <1>2. /\ sent'[i].kind = sent[i].kind /\ sent'[i].attempt = a
        /\ sent'[i].expectation = sent[i].expectation /\ sent'[i].note = sent[i].note
    BY Decided DEF TxFields
  <1>3. PageGrows /\ SentGrows
    <2>1. PageGrows
      BY <1>1 DEF IInv, Shape, PageGrows
    <2>2. /\ DOMAIN sent' = DOMAIN sent /\ sent[i].outcome = None
          /\ \A j \in DOMAIN sent \ {i} : sent'[j] = sent[j]
      BY Decided
    <2> QED
      BY <1>2, <2>1, <2>2 DEF SentGrows
  <1>4. Shape'
    BY <1>1, Decided DEF IInv, Shape, Started
  <1>5. /\ TxFits(i) /\ a \in Started /\ activation[a].scenario \in Scenarios
        /\ activation[a].T \in Nat /\ clock \in Nat
    BY DEF IInv, TxFits, Shape
  <1>6. ASSUME sent[i].kind # "prepare", sent'[i].outcome = "Executed"
        PROVE  Check(sent[i].expectation, mint[a], clock) = "Ok"
    <2>1. TransferOutcome(sent[i])[1] = "Executed"
      BY <1>6, Decided
    <2>2. Check(sent[i].expectation, mint[a], clock) # "Executed"
      BY CheckType DEF CheckErrors
    <2> QED
      BY <2>1, <2>2 DEF TransferOutcome
  <1>7. ASSUME sent[i].kind = "authorize"
        PROVE  sent'[i].outcome # "Executed"
    <2>1. sent[i].expectation = Expecting(a, "Pending") /\ activation[a].T <= clock
      BY <1>5, <1>7 DEF TxFits
    <2> SUFFICES ASSUME sent'[i].outcome = "Executed" PROVE FALSE
      OBVIOUS
    <2>2. mint[a].effectiveTimestamp = activation[a].T /\ PhaseAt(mint[a], clock) = "Pending"
      BY <1>5, <1>6, <1>7, <2>1, AcceptedOnItsSide
    <2> QED
      BY <1>5, <2>1, <2>2 DEF PhaseAt
  <1>8. ASSUME sent[i].kind = "confirm", sent'[i].outcome = "Executed"
        PROVE  sent'[i].multiplier = activation[a].scenario
    <2>1. sent[i].expectation = Expecting(a, "Activated")
      BY <1>5, <1>8 DEF TxFits
    <2>2. /\ mint[a].newMultiplier = activation[a].scenario
          /\ PhaseAt(mint[a], clock) = "Activated"
      BY <1>5, <1>6, <1>8, <2>1, AcceptedOnItsSide
    <2> QED
      BY <1>8, <2>2, Decided DEF PhaseAt, EffectiveMultiplier
  <1>9. TxFits(i)'
    <2>1. \A phase : Expecting(a, phase)' = Expecting(a, phase)
      BY <1>1, <1>2 DEF Expecting, Scheduled
    <2>2. DOMAIN sent'[i] = TxFields
      BY Decided
    <2> QED
      BY <1>1, <1>2, <1>5, <1>7, <1>8, <2>1, <2>2 DEF TxFits, Started
  <1>10. \A j \in DOMAIN sent' : TxFits(j)'
    BY <1>3, <1>9, Decided, TxFitsKept
  <1> QED
    BY <1>1, <1>3, <1>4, <1>10, FlowKept, ClaimsKept DEF IInv
-------------------------------------------------------------------------------
LEMMA BusyFacts ==
    ASSUME IInv, Busy
    PROVE  /\ FlowShape /\ SnapshotFits /\ ExpectationFits /\ OwnTransaction
           /\ flow.attempt \in Started
           /\ activation[flow.attempt].T \in Nat
           /\ clock \in Nat
  BY DEF IInv, FlowFits, FlowShape, Shape

\* The end of a flow: an error, or a result without a claim.
LEMMA EndKeepsIInv ==
    ASSUME IInv, flow' = Idle, UNCHANGED <<clock, sent, activation, attempts, flags>>,
           session' = session \/ session' \in Started
    PROVE  IInv'
  <1>1. FlowFits'
    BY DEF FlowFits, Busy
  <1> QED
    BY <1>1, QuietStepKeepsIInv

LEMMA AbortKeepsIInv ==
    ASSUME IInv, NEW result, Abort(result), UNCHANGED sent
    PROVE  IInv'
  BY EndKeepsIInv DEF Abort, Finish, chain

\* A step that only moves the flow on.
LEMMA MoveKeepsIInv ==
    ASSUME IInv, UNCHANGED <<clock, sent, activation, attempts, flags, session>>,
           DOMAIN flow' = FlowFields, flow'.kind = flow.kind, flow'.attempt = flow.attempt,
           Busy, flow'.pc \in {"snapshot", "afterSign"} \cup Held => flow.kind = "authorize",
           SnapshotFits', ExpectationFits', OwnTransaction'
    PROVE  IInv'
  <1>1. FlowShape'
    BY BusyFacts DEF FlowShape, Started
  <1>2. FlowFits'
    BY <1>1 DEF FlowFits
  <1> QED
    BY <1>2, QuietStepKeepsIInv

LEMMA PollReadyKeepsIInv ==
    ASSUME IInv, PollReady
    PROVE  IInv'
  <1> DEFINE decision == Decision(Snapshot)
  <1>1. Busy /\ flow.pc = "ready" /\ UNCHANGED sent /\ DOMAIN flow = FlowFields
    BY BusyFacts DEF PollReady, At, FlowShape
  <1>2. CASE decision \in {"sign", "ready"} /\ UNCHANGED <<chain, page>>
             /\ flow' = [flow EXCEPT !.pc = "before", !.snapshot = Snapshot, !.polls = 0]
    <2>1. /\ DOMAIN flow' = FlowFields /\ flow'.kind = flow.kind /\ flow'.pc = "before"
          /\ flow'.attempt = flow.attempt /\ flow'.snapshot = Snapshot
      BY <1>1, <1>2 DEF FlowFields
    <2>2. UNCHANGED <<clock, activation, attempts, flags, session>>
      BY <1>2 DEF chain, page
    <2>3. Snapshot.state = mint[flow.attempt] /\ Snapshot.now = clock
      BY DEF Snapshot
    <2>4. SnapshotFits'
      <3>1. ASSUME flow.kind = "confirm"
            PROVE  Snapshot.state = Scheduled(flow.attempt)
                     /\ Snapshot.now > activation[flow.attempt].T
        BY <1>1, <1>2, <2>3, <3>1, BusyFacts, ActivatedDecision DEF Decision
      <3> QED
        BY <1>1, <2>1, <2>2, <2>3, <3>1, BusyFacts DEF SnapshotFits, Scheduled
    <2>5. ExpectationFits' /\ OwnTransaction'
      BY <2>1 DEF ExpectationFits, OwnTransaction, Held
    <2> QED
      BY <1>1, <2>1, <2>2, <2>4, <2>5, MoveKeepsIInv DEF Held
  <1>3. CASE /\ flow' = [flow EXCEPT !.polls = @ + 1]
             /\ UNCHANGED <<chain, wallet, session, activation, flags, attempts>>
    <2>1. /\ DOMAIN flow' = FlowFields /\ flow'.kind = flow.kind /\ flow'.pc = "ready"
          /\ flow'.attempt = flow.attempt
      BY <1>1, <1>3 DEF FlowFields
    <2>2. SnapshotFits' /\ ExpectationFits' /\ OwnTransaction'
      BY <2>1 DEF SnapshotFits, ExpectationFits, OwnTransaction, Held
    <2> QED
      BY <1>1, <1>3, <2>1, <2>2, MoveKeepsIInv DEF Held, chain
  <1>4. CASE Abort("FAILED")
    BY <1>1, <1>4, AbortKeepsIInv
  <1> QED
    BY <1>2, <1>3, <1>4 DEF PollReady

\* The steps up to the signature that keep what was read.
LEMMA ReadsKeepIInv ==
    ASSUME IInv, ReadBefore \/ ReadBlockhash \/ ReadSigningHeight
    PROVE  IInv'
  <1>1. Busy /\ UNCHANGED sent /\ DOMAIN flow = FlowFields
    BY BusyFacts DEF ReadBefore, ReadBlockhash, ReadSigningHeight, At, FlowShape
  <1>2. CASE Abort("FAILED")
    BY <1>1, <1>2, AbortKeepsIInv
  <1>3. ASSUME UNCHANGED <<chain, page>>,
               DOMAIN flow' = FlowFields, flow'.kind = flow.kind,
               flow'.attempt = flow.attempt, flow'.snapshot = flow.snapshot,
               \/ flow.pc = "before" /\ flow'.pc = "blockhash"
               \/ /\ flow.pc = "blockhash"
                  /\ flow'.pc = IF flow.kind = "authorize" THEN "snapshot" ELSE "height"
               \/ /\ flow.pc = "height"
                  /\ flow'.pc = IF flow.kind = "prepare" THEN "sign" ELSE "again"
        PROVE  IInv'
    <2>1. UNCHANGED <<clock, activation, attempts, flags, session>>
      BY <1>3 DEF chain, page
    <2>2. SnapshotFits'
      BY <1>1, <1>3, <2>1, BusyFacts DEF SnapshotFits, Scheduled
    <2>3. ExpectationFits' /\ OwnTransaction'
      BY <1>3 DEF ExpectationFits, OwnTransaction, Held
    <2> QED
      BY <1>1, <1>3, <2>1, <2>2, <2>3, MoveKeepsIInv DEF Held
  <1>4. CASE ReadBefore
    BY <1>1, <1>3, <1>4 DEF ReadBefore, At, FlowFields
  <1>5. CASE ReadBlockhash
    <2> DEFINE pc == IF Kind({"authorize"}) THEN "snapshot" ELSE "height"
    <2>1. /\ UNCHANGED <<chain, page>> /\ flow.pc = "blockhash"
          /\ flow' = [flow EXCEPT !.lastValid = height + BlockhashLife, !.pc = pc]
      BY <1>5 DEF ReadBlockhash, At
    <2> HIDE DEF pc
    <2>2. /\ DOMAIN flow' = FlowFields /\ flow'.kind = flow.kind /\ flow'.pc = pc
          /\ flow'.attempt = flow.attempt /\ flow'.snapshot = flow.snapshot
      BY <1>1, <2>1 DEF FlowFields
    <2> QED
      BY <1>3, <2>1, <2>2 DEF pc, Kind
  <1>6. CASE ReadSigningHeight /\ ~Abort("FAILED")
    <2> DEFINE pc == IF Kind({"prepare"}) THEN "sign" ELSE "again"
    <2>1. /\ UNCHANGED <<chain, page>> /\ flow.pc = "height"
          /\ flow' = [flow EXCEPT !.pc = pc]
      BY <1>6 DEF ReadSigningHeight, At, Goto
    <2> HIDE DEF pc
    <2>2. /\ DOMAIN flow' = FlowFields /\ flow'.kind = flow.kind /\ flow'.pc = pc
          /\ flow'.attempt = flow.attempt /\ flow'.snapshot = flow.snapshot
      BY <1>1, <2>1 DEF FlowFields
    <2> QED
      BY <1>3, <2>1, <2>2 DEF pc, Kind
  <1> QED
    BY <1>2, <1>4, <1>5, <1>6

LEMMA SnapshotKeepsIInv ==
    ASSUME IInv, ReadSnapshot
    PROVE  IInv'
  <1>1. Busy /\ flow.pc = "snapshot" /\ UNCHANGED sent /\ DOMAIN flow = FlowFields
        /\ flow.kind = "authorize"
    BY BusyFacts DEF ReadSnapshot, At, FlowShape
  <1>2. CASE Abort("FAILED")
    BY <1>1, <1>2, AbortKeepsIInv
  <1>3. CASE ~Abort("FAILED")
    <2>1. /\ Decision(Snapshot) = "sign" /\ UNCHANGED <<chain, page>>
          /\ flow' = [flow EXCEPT !.pc = "height", !.snapshot = Snapshot]
      BY <1>3 DEF ReadSnapshot
    <2>2. /\ DOMAIN flow' = FlowFields /\ flow'.kind = flow.kind /\ flow'.pc = "height"
          /\ flow'.attempt = flow.attempt /\ flow'.snapshot = Snapshot
      BY <1>1, <2>1 DEF FlowFields
    <2>3. UNCHANGED <<clock, activation, attempts, flags, session>>
      BY <2>1 DEF chain, page
    <2>4. Snapshot.now = clock
      BY DEF Snapshot
    <2>5. Snapshot.state = Scheduled(flow.attempt) /\ Snapshot.now < activation[flow.attempt].T
      BY <1>1, <2>1, <2>4, BusyFacts, PendingDecision DEF Decision
    <2>6. SnapshotFits'
      BY <1>1, <2>2, <2>3, <2>4, <2>5, BusyFacts DEF SnapshotFits, Scheduled
    <2>7. ExpectationFits' /\ OwnTransaction'
      BY <2>2 DEF ExpectationFits, OwnTransaction, Held
    <2> QED
      BY <1>1, <2>2, <2>3, <2>6, <2>7, MoveKeepsIInv DEF Held
  <1> QED
    BY <1>2, <1>3

\* The payload is built from what was read, on its side of the activation.
LEMMA LookAgainKeepsIInv ==
    ASSUME IInv, LookAgain
    PROVE  IInv'
  <1>1. Busy /\ flow.pc = "again" /\ UNCHANGED sent /\ DOMAIN flow = FlowFields
        /\ flow.kind \in Kinds
    BY BusyFacts DEF LookAgain, At, FlowShape
  <1>2. CASE Abort("FAILED")
    BY <1>1, <1>2, AbortKeepsIInv
  <1>3. CASE ~Abort("FAILED")
    <2> DEFINE payload == ExpectationFromSnapshot(flow.snapshot.state, flow.snapshot.now,
                                                  ZeroWindow)
    <2>1. /\ flow' = [flow EXCEPT !.pc = "sign", !.expectation = payload]
          /\ UNCHANGED <<chain, wallet, session, activation, flags, attempts>>
      BY <1>3 DEF LookAgain
    <2> HIDE DEF payload
    <2>2. /\ DOMAIN flow' = FlowFields /\ flow'.kind = flow.kind /\ flow'.pc = "sign"
          /\ flow'.attempt = flow.attempt /\ flow'.expectation = payload
      BY <1>1, <2>1 DEF FlowFields
    <2>3. UNCHANGED <<clock, activation, attempts, flags, session>>
      BY <2>1 DEF chain
    <2>4. flow.kind = "authorize" => payload = Expecting(flow.attempt, "Pending")
      BY <1>1, BusyFacts, PendingPayload DEF SnapshotFits, payload
    <2>5. flow.kind = "confirm" => payload = Expecting(flow.attempt, "Activated")
      BY <1>1, BusyFacts, ActivatedPayload DEF SnapshotFits, payload
    <2>6. \A phase : Expecting(flow.attempt, phase)' = Expecting(flow.attempt, phase)
      BY <2>2, <2>3 DEF Expecting, Scheduled
    <2>7. ExpectationFits'
      BY <2>2, <2>4, <2>5, <2>6 DEF ExpectationFits, Held
    <2>8. SnapshotFits' /\ OwnTransaction'
      BY <2>2 DEF SnapshotFits, OwnTransaction
    <2> QED
      BY <1>1, <2>2, <2>3, <2>7, <2>8, MoveKeepsIInv DEF Held
  <1> QED
    BY <1>2, <1>3

\* What is given to the network fits: held bytes after the activation they were
\* signed before, a fresh transfer after its review.
LEMMA SubmitKeepsIInv ==
    ASSUME IInv, Busy, Submit, UNCHANGED <<clock, activation, attempts, flags, session>>,
           flow.pc = "send" \/ (flow.pc = "sign" /\ flow.kind \in {"prepare", "confirm"}),
           flow' = Idle \/ flow' = [flow EXCEPT !.pc = "status", !.tx = Len(sent) + 1]
    PROVE  IInv'
  <1> DEFINE a == flow.attempt
  <1>0. PICK n : n = Len(sent) + 1
    OBVIOUS
  <1>1. sent' = Append(sent, Transaction) /\ sent \in Seq({sent[i] : i \in DOMAIN sent})
    BY DEF Submit, Broadcast, IInv, Shape
  <1>2. /\ sent' \in Seq({sent'[i] : i \in DOMAIN sent'})
        /\ DOMAIN sent' = DOMAIN sent \cup {n}
        /\ \A i \in DOMAIN sent : sent'[i] = sent[i]
        /\ sent'[n] = Transaction
    BY <1>0, <1>1, AppendTransaction
  <1>3. PageGrows /\ SentGrows
    BY <1>2 DEF IInv, Shape, PageGrows, SentGrows
  <1>4. Shape'
    BY <1>2 DEF IInv, Shape, Started
  <1>5. /\ FlowShape /\ ExpectationFits /\ a \in Started /\ a \in Started'
    BY BusyFacts DEF Started
  <1>6. /\ DOMAIN Transaction = TxFields
        /\ Transaction.kind = flow.kind /\ Transaction.attempt = a
        /\ Transaction.expectation = flow.expectation /\ Transaction.note = flow.signedAt
        /\ Transaction.outcome = None
    BY DEF Transaction, DemoTransaction, TxFields
  <1>7. \A phase : Expecting(a, phase) =
          [expected |-> ScheduledState(activation'[a]), expectedPhase |-> phase,
           window |-> ZeroWindow]
    BY DEF Expecting, Scheduled
  <1>8. TxFits(n)'
    <2>1. flow.kind \in Kinds /\ (flow.pc = "send" => flow.kind = "authorize")
      BY <1>5 DEF FlowShape, Held
    <2>2. flow.kind = "authorize" =>
            /\ flow.expectation = Expecting(a, "Pending")
            /\ flow.signedAt < activation[a].T
            /\ activation[a].T <= clock
      BY <1>5 DEF ExpectationFits, Held
    <2>3. flow.kind = "confirm" =>
            /\ flow.expectation = Expecting(a, "Activated")
            /\ "staleAccepted" \in flags[a]
      BY <1>5, <2>1 DEF ExpectationFits, FlowShape
    <2>4. None # "Executed"
      BY DemoChainConstants
    <2> QED
      BY <1>2, <1>5, <1>6, <1>7, <2>1, <2>2, <2>3, <2>4 DEF TxFits, Expecting, Scheduled
  <1>9. \A i \in DOMAIN sent' : TxFits(i)'
    BY <1>2, <1>3, <1>8, TxFitsKept
  <1>10. FlowFits'
    <2>1. CASE flow' = Idle
      BY <2>1 DEF FlowFits, Busy
    <2>2. CASE flow' = [flow EXCEPT !.pc = "status", !.tx = n]
      <3>1. /\ DOMAIN flow' = FlowFields /\ flow'.kind = flow.kind /\ flow'.pc = "status"
            /\ flow'.attempt = a /\ flow'.tx = n
        BY <1>5, <2>2 DEF FlowShape, FlowFields
      <3>2. FlowShape'
        BY <1>5, <3>1 DEF FlowShape, Held
      <3>3. OwnTransaction'
        BY <1>2, <1>6, <3>1 DEF OwnTransaction
      <3>4. SnapshotFits' /\ ExpectationFits'
        BY <3>1 DEF SnapshotFits, ExpectationFits, Held
      <3> QED
        BY <3>2, <3>3, <3>4 DEF FlowFits
    <2> QED
      BY <1>0, <2>1, <2>2
  <1> QED
    BY <1>3, <1>4, <1>9, <1>10, ClaimsKept DEF IInv

LEMMA SignKeepsIInv ==
    ASSUME IInv, WalletSigns
    PROVE  IInv'
  <1>1. /\ Busy /\ flow.pc = "sign" /\ DOMAIN flow = FlowFields
        /\ UNCHANGED <<clock, activation, attempts, flags, session>>
    BY BusyFacts DEF WalletSigns, At, FlowShape, chain, page
  <1>2. CASE Kind({"prepare", "confirm"}) /\ Submit
             /\ flow' = [flow EXCEPT !.pc = "status", !.tx = Len(sent) + 1]
    BY <1>1, <1>2, SubmitKeepsIInv DEF Kind
  <1>3. ASSUME Kind({"authorize"}), UNCHANGED sent, NEW prefix,
               flow' = [flow EXCEPT !.pc = "afterSign", !.signedAt = clock, !.prefix = prefix]
        PROVE  IInv'
    <2>1. /\ DOMAIN flow' = FlowFields /\ flow'.kind = flow.kind /\ flow'.pc = "afterSign"
          /\ flow'.attempt = flow.attempt /\ flow'.signedAt = clock
          /\ flow'.expectation = flow.expectation
      BY <1>1, <1>3 DEF FlowFields
    <2>2. Expecting(flow.attempt, "Pending")' = Expecting(flow.attempt, "Pending")
      BY <1>1, <2>1 DEF Expecting, Scheduled
    <2>3. ExpectationFits'
      BY <1>1, <1>3, <2>1, <2>2, BusyFacts DEF ExpectationFits, Kind, Held
    <2>4. SnapshotFits' /\ OwnTransaction'
      BY <2>1 DEF SnapshotFits, OwnTransaction
    <2> QED
      BY <1>1, <1>3, <2>1, <2>3, <2>4, MoveKeepsIInv DEF Kind
  <1> QED
    BY <1>2, <1>3 DEF WalletSigns

LEMMA NoSignatureKeepsIInv ==
    ASSUME IInv, WalletDoesNotSign
    PROVE  IInv'
  <1>1. Busy /\ flow.pc = "sign"
    BY DEF WalletDoesNotSign, At
  <1>2. ASSUME NEW result, Abort(result), UNCHANGED sent
        PROVE  IInv'
    BY <1>2, AbortKeepsIInv
  <1>3. CASE Kind({"prepare", "confirm"}) /\ Submit /\ Abort("FAILED")
    BY <1>1, <1>3, SubmitKeepsIInv DEF Kind, Abort, Finish, chain
  <1> QED
    BY <1>2, <1>3 DEF WalletDoesNotSign

\* Marks that are no claims.
LEMMA MarkKeepsIInv ==
    ASSUME IInv, UNCHANGED <<clock, sent, activation, attempts, session>>, FlowFits',
           NEW a \in Attempts, NEW mark \in {"held", "proofClosed"},
           flags' = [flags EXCEPT ![a] = @ \cup {mark}]
    PROVE  IInv'
  <1>1. DOMAIN flags' = Attempts /\ \A b \in Attempts : flags[b] \subseteq flags'[b]
    BY DEF IInv, Shape
  <1>2. \A b \in Attempts : /\ "staleAccepted" \in flags'[b] <=> "staleAccepted" \in flags[b]
                            /\ "updated" \in flags'[b] <=> "updated" \in flags[b]
    BY DEF IInv, Shape
  <1>3. PageGrows
    BY <1>1 DEF IInv, Shape, PageGrows, Started, Attempts
  <1>4. Shape'
    BY <1>1 DEF IInv, Shape, Started
  <1>5. \A i \in DOMAIN sent' : TxFits(i)'
    BY <1>3, TxFitsKept
  <1>6. ClaimsAreTrue'
    BY <1>2 DEF IInv, ClaimsAreTrue, Transactions
  <1> QED
    BY <1>4, <1>5, <1>6 DEF IInv

LEMMA StartedAreAttempts ==
    ASSUME IInv
    PROVE  Started \subseteq Attempts
  BY DemoChainConstants DEF IInv, Shape, Started, Attempts

\* The bytes are held only if the action was still pending when they came back.
LEMMA AfterSignKeepsIInv ==
    ASSUME IInv, CheckAfterSign
    PROVE  IInv'
  <1>1. /\ Busy /\ flow.pc = "afterSign" /\ DOMAIN flow = FlowFields
        /\ UNCHANGED <<clock, sent, session, activation, attempts>>
        /\ flow.attempt \in Attempts /\ flow.kind = "authorize"
    BY BusyFacts, StartedAreAttempts DEF CheckAfterSign, At, FlowShape, chain
  <1>2. CASE /\ StillOpen(flow.attempt, Snapshot)
             /\ Goto("holdSnapshot")
             /\ flags' = [flags EXCEPT ![flow.attempt] = @ \cup {"held"}]
    <2>1. /\ DOMAIN flow' = FlowFields /\ flow'.kind = flow.kind /\ flow'.pc = "holdSnapshot"
          /\ flow'.attempt = flow.attempt /\ flow'.signedAt = flow.signedAt
          /\ flow'.expectation = flow.expectation
      BY <1>1, <1>2 DEF FlowFields, Goto
    <2>2. Expecting(flow.attempt, "Pending")' = Expecting(flow.attempt, "Pending")
      BY <1>1, <2>1 DEF Expecting, Scheduled
    <2>3. Snapshot.now = clock
      BY DEF Snapshot
    <2>4. clock < activation[flow.attempt].T
      BY <1>1, <1>2, <2>3, BusyFacts, PendingDecision DEF StillOpen
    <2>5. flow.signedAt < activation[flow.attempt].T
      BY <1>1, <2>4, BusyFacts DEF ExpectationFits
    <2>6. ExpectationFits'
      BY <1>1, <2>1, <2>2, <2>5, BusyFacts DEF ExpectationFits, Held
    <2>7. SnapshotFits' /\ OwnTransaction' /\ FlowShape'
      BY <1>1, <2>1, BusyFacts DEF SnapshotFits, OwnTransaction, FlowShape, Started
    <2>8. FlowFits'
      BY <2>6, <2>7 DEF FlowFits
    <2> QED
      BY <1>1, <1>2, <2>8, MarkKeepsIInv
  <1>3. CASE flow' = Idle /\ UNCHANGED flags
    BY <1>1, <1>3, EndKeepsIInv
  <1>4. CASE flow' = Idle /\ session # None
             /\ flags' = [flags EXCEPT ![session] = @ \cup {"proofClosed"}]
    <2>1. FlowFits'
      BY <1>4 DEF FlowFits, Busy
    <2>2. session \in Attempts
      BY <1>4, StartedAreAttempts DEF IInv, Shape
    <2> QED
      BY <1>1, <1>4, <2>1, <2>2, MarkKeepsIInv
  <1> QED
    BY <1>2, <1>3, <1>4 DEF CheckAfterSign, Finish

\* The held bytes wait; they go on once the snapshot shows the activation.
LEMMA HoldKeepsIInv ==
    ASSUME IInv, HoldSnapshot \/ HoldHeight \/ SubmitHeight
    PROVE  IInv'
  <1>1. Busy /\ UNCHANGED sent /\ DOMAIN flow = FlowFields /\ flow.pc \in Held
    BY BusyFacts DEF HoldSnapshot, HoldHeight, SubmitHeight, At, FlowShape, Held
  <1>2. flow.kind = "authorize"
    BY <1>1, BusyFacts DEF FlowShape
  <1>3. ASSUME NEW result, Abort(result)
        PROVE  IInv'
    BY <1>1, <1>3, AbortKeepsIInv
  <1>4. ASSUME UNCHANGED <<chain, page>>,
               DOMAIN flow' = FlowFields, flow'.kind = flow.kind,
               flow'.attempt = flow.attempt, flow'.expectation = flow.expectation,
               flow'.signedAt = flow.signedAt, flow'.pc \in Held,
               flow'.pc = "holdHeight" => flow'.snapshot.now = clock,
               flow'.pc \in {"submitHeight", "send"} => activation[flow.attempt].T <= clock
        PROVE  IInv'
    <2>1. UNCHANGED <<clock, activation, attempts, flags, session>>
      BY <1>4 DEF chain, page
    <2>2. Expecting(flow.attempt, "Pending")' = Expecting(flow.attempt, "Pending")
      BY <1>4, <2>1 DEF Expecting, Scheduled
    <2>3. /\ flow.expectation = Expecting(flow.attempt, "Pending")
          /\ flow.signedAt < activation[flow.attempt].T
      BY <1>1, <1>2, BusyFacts DEF ExpectationFits
    <2>4. ExpectationFits'
      BY <1>4, <2>1, <2>2, <2>3 DEF ExpectationFits, Held
    <2>5. SnapshotFits' /\ OwnTransaction'
      BY <1>1, <1>4, <2>1, BusyFacts DEF SnapshotFits, OwnTransaction, Held
    <2> QED
      BY <1>1, <1>2, <1>4, <2>1, <2>4, <2>5, MoveKeepsIInv
  <1>5. CASE HoldSnapshot
    <2>1. /\ flow' = [flow EXCEPT !.pc = "holdHeight", !.snapshot = Snapshot]
          /\ UNCHANGED <<chain, page>>
      BY <1>5 DEF HoldSnapshot
    <2>2. /\ DOMAIN flow' = FlowFields /\ flow'.kind = flow.kind
          /\ flow'.attempt = flow.attempt /\ flow'.expectation = flow.expectation
          /\ flow'.signedAt = flow.signedAt /\ flow'.pc = "holdHeight"
          /\ flow'.snapshot = Snapshot
      BY <1>1, <2>1 DEF FlowFields
    <2> QED
      BY <1>4, <2>1, <2>2 DEF Snapshot, Held
  <1>6. CASE HoldHeight
    <2> DEFINE ready    == ChainReadyForStaleSubmit(flow.snapshot, flow.expectation)
               decision == HeldWaitDecision(height, flow.lastValid, ready)
    <2>0. flow.pc = "holdHeight"
      BY <1>6 DEF HoldHeight, At
    <2>1. CASE decision = "submit" /\ Goto("submitHeight") /\ UNCHANGED <<chain, page>>
      <3>1. ready
        BY <2>1 DEF HeldWaitDecision
      <3>2. flow.expectation = Expecting(flow.attempt, "Pending")
        BY <1>1, <1>2, BusyFacts DEF ExpectationFits
      <3>3. flow.snapshot.now \in Nat /\ flow.snapshot.now <= clock
        BY <1>1, <2>0, BusyFacts DEF SnapshotFits
      <3>4. activation[flow.attempt].T <= clock
        <4>1. activation[flow.attempt].T <= flow.snapshot.now
          BY <1>1, <3>1, <3>2, <3>3, BusyFacts, ReadyIsActivated
        <4> QED
          BY <1>1, <3>3, <4>1, BusyFacts
      <3>5. /\ DOMAIN flow' = FlowFields /\ flow'.kind = flow.kind
            /\ flow'.attempt = flow.attempt /\ flow'.expectation = flow.expectation
            /\ flow'.signedAt = flow.signedAt /\ flow'.pc = "submitHeight"
        BY <1>1, <2>1 DEF FlowFields, Goto
      <3> QED
        BY <1>4, <2>1, <3>4, <3>5 DEF Held
    <2>2. CASE /\ flow' = [flow EXCEPT !.pc = "holdSnapshot", !.polls = @ + 1]
               /\ UNCHANGED <<chain, page>>
      <3>1. /\ DOMAIN flow' = FlowFields /\ flow'.kind = flow.kind
            /\ flow'.attempt = flow.attempt /\ flow'.expectation = flow.expectation
            /\ flow'.signedAt = flow.signedAt /\ flow'.pc = "holdSnapshot"
        BY <1>1, <2>2 DEF FlowFields
      <3> QED
        BY <1>4, <2>2, <3>1 DEF Held
    <2> QED
      BY <1>3, <1>6, <2>1, <2>2 DEF HoldHeight
  <1>7. CASE SubmitHeight
    <2>1. CASE Goto("send") /\ UNCHANGED <<chain, page>>
      <3>1. /\ DOMAIN flow' = FlowFields /\ flow'.kind = flow.kind
            /\ flow'.attempt = flow.attempt /\ flow'.expectation = flow.expectation
            /\ flow'.signedAt = flow.signedAt /\ flow'.pc = "send"
        BY <1>1, <2>1 DEF FlowFields, Goto
      <3>2. activation[flow.attempt].T <= clock
        BY <1>1, <1>7, BusyFacts DEF SubmitHeight, At, ExpectationFits
      <3> QED
        BY <1>4, <2>1, <3>1, <3>2 DEF Held
    <2> QED
      BY <1>3, <1>7, <2>1 DEF SubmitHeight
  <1> QED
    BY <1>5, <1>6, <1>7

LEMMA SendKeepsIInv ==
    ASSUME IInv, Send
    PROVE  IInv'
  <1>1. Busy /\ flow.pc = "send"
    BY DEF Send, At
  <1>2. ASSUME NEW result, Abort(result), UNCHANGED sent
        PROVE  IInv'
    BY <1>2, AbortKeepsIInv
  <1>3. CASE Submit /\ UNCHANGED <<chain, page>>
             /\ flow' = [flow EXCEPT !.pc = "status", !.tx = Len(sent) + 1]
    BY <1>1, <1>3, SubmitKeepsIInv DEF chain, page
  <1>4. CASE Submit /\ Abort("FAILED")
    BY <1>1, <1>4, SubmitKeepsIInv DEF Abort, Finish, chain
  <1> QED
    BY <1>2, <1>3, <1>4 DEF Send

\* The confirmation loop stays with the transaction of the flow.
LEMMA ConfirmationKeepsIInv ==
    ASSUME IInv,
           PollStatus \/ PollHeight \/ ReadMetadata \/ VerifyMint \/ ReadSetupBalances
    PROVE  IInv'
  <1> USE DEF PollStatus, PollHeight, ReadMetadata, VerifyMint, ReadSetupBalances
  <1>1. Busy /\ UNCHANGED sent /\ DOMAIN flow = FlowFields
    BY BusyFacts DEF At, FlowShape
  <1>2. ASSUME NEW result, Abort(result)
        PROVE  IInv'
    BY <1>1, <1>2, AbortKeepsIInv
  <1>3. ASSUME UNCHANGED <<chain, page>>,
               DOMAIN flow' = FlowFields, flow'.kind = flow.kind,
               flow'.attempt = flow.attempt, flow'.tx = flow.tx,
               \/ /\ flow.pc \in {"status", "pollHeight", "metadata"}
                  /\ flow'.pc \in {"status", "pollHeight", "metadata", "after", "verify"}
               \/ flow'.pc \in {"setup", "arm"}
        PROVE  IInv'
    <2>1. UNCHANGED <<clock, activation, attempts, flags, session>>
      BY <1>3 DEF chain, page
    <2>2. OwnTransaction'
      BY <1>1, <1>3, BusyFacts DEF OwnTransaction
    <2>3. SnapshotFits' /\ ExpectationFits'
      BY <1>3 DEF SnapshotFits, ExpectationFits, Held
    <2> QED
      BY <1>1, <1>3, <2>1, <2>2, <2>3, MoveKeepsIInv DEF Held
  <1>4. ASSUME NEW pc, Goto(pc)
        PROVE  /\ DOMAIN flow' = FlowFields /\ flow'.kind = flow.kind /\ flow'.pc = pc
               /\ flow'.attempt = flow.attempt /\ flow'.tx = flow.tx
    BY <1>1, <1>4 DEF Goto, FlowFields
  <1>5. CASE PollStatus
    BY <1>3, <1>4, <1>5 DEF At
  <1>6. CASE PollHeight
    BY <1>2, <1>3, <1>4, <1>6 DEF At
  <1>7. CASE ReadMetadata
    <2>1. CASE Abort("FAILED")
      BY <1>2, <2>1
    <2>2. CASE ~Abort("FAILED")
      <3>1. PICK pc \in {"verify", "after"} : Goto(pc)
        BY <1>7, <2>2
      <3> QED
        BY <1>3, <1>4, <1>7, <2>2, <3>1 DEF At
    <2> QED
      BY <2>1, <2>2
  <1>8. CASE VerifyMint
    BY <1>2, <1>3, <1>4, <1>8
  <1>9. CASE ReadSetupBalances
    <2>1. /\ flow' = [flow EXCEPT !.pc = "arm", !.before = balances[flow.attempt]]
          /\ UNCHANGED <<chain, page>>
      BY <1>9
    <2>2. /\ DOMAIN flow' = FlowFields /\ flow'.kind = flow.kind /\ flow'.pc = "arm"
          /\ flow'.attempt = flow.attempt /\ flow'.tx = flow.tx
      BY <1>1, <2>1 DEF FlowFields
    <2> QED
      BY <1>3, <2>1, <2>2
  <1> QED
    BY <1>5, <1>6, <1>7, <1>8, <1>9

LEMMA ArmKeepsIInv ==
    ASSUME IInv, ArmSession
    PROVE  IInv'
  <1>1. Busy /\ UNCHANGED sent
    BY DEF ArmSession, At
  <1>2. CASE Abort("FAILED")
    BY <1>1, <1>2, AbortKeepsIInv
  <1>3. CASE ~Abort("FAILED")
    <2>1. /\ flow' = Idle /\ session' = flow.attempt
          /\ UNCHANGED <<clock, activation, attempts, flags>>
      BY <1>3 DEF ArmSession, chain
    <2> QED
      BY <1>1, <2>1, BusyFacts, EndKeepsIInv
  <1> QED
    BY <1>2, <1>3

\* A claim is made of a transaction of the attempt that ended that way.
LEMMA ClaimKeepsIInv ==
    ASSUME IInv, UNCHANGED <<clock, sent, activation, attempts, session>>, flow' = Idle,
           NEW a \in Attempts, NEW mark, flags' = [flags EXCEPT ![a] = @ \cup {mark}],
           \/ /\ mark = "staleAccepted"
              /\ \E i \in Transactions("authorize", a) :
                   sent[i].outcome = "ActivationPhaseChanged"
           \/ /\ mark = "updated" /\ "staleAccepted" \in flags[a]
              /\ \E i \in Transactions("confirm", a) : sent[i].outcome = "Executed"
    PROVE  IInv'
  <1>1. /\ DOMAIN flags' = Attempts
        /\ flags'[a] = flags[a] \cup {mark}
        /\ \A b \in Attempts \ {a} : flags'[b] = flags[b]
    BY DEF IInv, Shape
  <1>2. PageGrows
    BY <1>1 DEF IInv, Shape, PageGrows, Started, Attempts
  <1>3. Shape'
    BY <1>1 DEF IInv, Shape, Started
  <1>4. \A i \in DOMAIN sent' : TxFits(i)'
    BY <1>2, TxFitsKept
  <1>5. FlowFits'
    BY DEF FlowFits, Busy
  <1>6. Transactions("authorize", a)' = Transactions("authorize", a)
        /\ Transactions("confirm", a)' = Transactions("confirm", a)
    BY DEF Transactions
  <1>7. ClaimsAreTrue'
    <2> SUFFICES ASSUME NEW b \in Attempts
                 PROVE  /\ "staleAccepted" \in flags'[b] =>
                             \E i \in Transactions("authorize", b)' :
                               sent'[i].outcome = "ActivationPhaseChanged"
                        /\ "updated" \in flags'[b] =>
                             /\ "staleAccepted" \in flags'[b]
                             /\ \E i \in Transactions("confirm", b)' :
                                  sent'[i].outcome = "Executed"
      BY DEF ClaimsAreTrue
    <2>1. CASE b # a
      BY <1>1, <2>1 DEF IInv, ClaimsAreTrue, Transactions
    <2>2. CASE b = a
      BY <1>1, <1>6, <2>2 DEF IInv, ClaimsAreTrue
    <2> QED
      BY <2>1, <2>2
  <1> QED
    BY <1>3, <1>4, <1>5, <1>7 DEF IInv

LEMMA ClaimStaleKeepsIInv ==
    ASSUME IInv, ClaimStale
    PROVE  IInv'
  <1> DEFINE tx == sent[flow.tx]
  <1>1. /\ Busy /\ UNCHANGED sent /\ flow.attempt \in Attempts
        /\ flow.tx \in DOMAIN sent /\ tx.kind = "authorize" /\ tx.attempt = flow.attempt
    BY BusyFacts, StartedAreAttempts DEF ClaimStale, At, Kind, OwnTransaction
  <1>2. CASE Abort("FAILED")
    BY <1>1, <1>2, AbortKeepsIInv
  <1>3. CASE ~Abort("FAILED")
    <2>1. /\ ConfirmedActivationRejection(tx, flow.prefix, flow.before, balances[flow.attempt])
          /\ flow' = Idle
          /\ flags' = [flags EXCEPT ![flow.attempt] = @ \cup {"staleAccepted"}]
          /\ UNCHANGED <<clock, activation, attempts, session>>
      BY <1>3 DEF ClaimStale, Finish, chain
    <2>2. tx.outcome # "Executed"
      BY <1>1 DEF IInv, TxFits
    <2>3. tx.outcome = "ActivationPhaseChanged"
      <3>1. [instructionIndex |-> tx.failedAt, code |-> tx.outcome]
              = [instructionIndex |-> flow.prefix, code |-> "ActivationPhaseChanged"]
        BY <2>1, <2>2 DEF ConfirmedActivationRejection, ParseCustomError
      <3> QED
        BY <3>1
    <2>4. flow.tx \in Transactions("authorize", flow.attempt)
      BY <1>1 DEF Transactions
    <2> QED
      BY <1>1, <2>1, <2>3, <2>4, ClaimKeepsIInv
  <1> QED
    BY <1>2, <1>3

LEMMA ClaimUpdatedKeepsIInv ==
    ASSUME IInv, ClaimUpdated
    PROVE  IInv'
  <1> DEFINE tx == sent[flow.tx]
  <1>1. /\ Busy /\ UNCHANGED sent /\ flow.attempt \in Attempts
        /\ flow.tx \in DOMAIN sent /\ tx.kind = "confirm" /\ tx.attempt = flow.attempt
        /\ "staleAccepted" \in flags[flow.attempt]
    BY BusyFacts, StartedAreAttempts DEF ClaimUpdated, At, Kind, OwnTransaction, FlowShape
  <1>2. CASE Abort("FAILED")
    BY <1>1, <1>2, AbortKeepsIInv
  <1>3. CASE ~Abort("FAILED")
    <2>1. /\ tx.outcome = "Executed"
          /\ flow' = Idle
          /\ flags' = [flags EXCEPT ![flow.attempt] = @ \cup {"updated"}]
          /\ UNCHANGED <<clock, activation, attempts, session>>
      BY <1>3 DEF ClaimUpdated, ConfirmedUpdatedExecution, Finish, chain
    <2>2. flow.tx \in Transactions("confirm", flow.attempt)
      BY <1>1 DEF Transactions
    <2> QED
      BY <1>1, <2>1, <2>2, ClaimKeepsIInv
  <1> QED
    BY <1>2, <1>3

\* A flow starts without anything read; preparing one starts an attempt.
LEMMA StartKeepsIInv ==
    ASSUME IInv, ClickPrepare \/ ClickAuthorize \/ ClickConfirm
    PROVE  IInv'
  <1>1. ASSUME NEW kind \in Kinds, NEW a, NEW pc \in {"blockhash", "ready"},
               kind = "confirm" => pc = "ready" /\ "staleAccepted" \in flags'[a],
               StartFlow(kind, a, pc), a \in Started'
        PROVE  FlowFits'
    <2>1. /\ DOMAIN flow' = FlowFields /\ flow'.kind = kind /\ flow'.attempt = a
          /\ flow'.pc = pc
      BY <1>1 DEF StartFlow, FlowFields
    <2> QED
      BY <1>1, <2>1 DEF FlowFits, FlowShape, SnapshotFits, ExpectationFits, OwnTransaction, Held
  <1>2. CASE ClickAuthorize \/ ClickConfirm
    <2>1. UNCHANGED <<clock, sent, activation, attempts, flags, session>>
      BY <1>2 DEF ClickAuthorize, ClickConfirm, chain, page
    <2>2. session \in Started'
      BY <1>2, <2>1 DEF ClickAuthorize, AuthorizeEnabled, ClickConfirm, IInv, Shape, Started
    <2>3. FlowFits'
      BY <1>1, <1>2, <2>1, <2>2 DEF ClickAuthorize, ClickConfirm, Kinds
    <2> QED
      BY <2>1, <2>3, QuietStepKeepsIInv
  <1>3. CASE ClickPrepare
    <2> DEFINE a == attempts + 1
    <2>1. /\ UNCHANGED <<clock, sent, flags, session>>
          /\ attempts' = a /\ a \in Nat /\ attempts < MaxAttempts
          /\ StartFlow("prepare", a, "blockhash")
      BY <1>3 DEF ClickPrepare, chain, IInv, Shape
    <2>2. PICK scenario \in Scenarios :
            activation' = [activation EXCEPT ![a] =
                             [scenario |-> scenario, T |-> ActivationTimestamp(clock)]]
      BY <1>3 DEF ClickPrepare
    <2>3. a \in Attempts /\ a \in Started' /\ a \notin Started
      BY <2>1, DemoChainConstants DEF IInv, Shape, Attempts, Started
    <2>4. /\ DOMAIN activation' = Attempts
          /\ activation'[a] = [scenario |-> scenario, T |-> ActivationTimestamp(clock)]
          /\ \A b \in Attempts \ {a} : activation'[b] = activation[b]
      BY <2>2, <2>3 DEF IInv, Shape
    <2>5. ActivationTimestamp(clock) \in Nat
      BY DemoChainConstants DEF ActivationTimestamp, IInv, Shape
    <2>6. Started' = Started \cup {a} /\ Started \subseteq Attempts
      BY <2>1, DemoChainConstants DEF IInv, Shape, Started, Attempts
    <2>7. PageGrows /\ SentGrows
      BY <2>1, <2>3, <2>4, <2>6 DEF IInv, Shape, PageGrows, SentGrows
    <2>8. Shape'
      <3>1. \A b \in Started' : activation'[b].scenario \in Scenarios /\ activation'[b].T \in Nat
        BY <2>3, <2>4, <2>5, <2>6 DEF IInv, Shape
      <3>2. attempts' \in Nat /\ attempts' <= MaxAttempts
        BY <2>1, DemoChainConstants DEF IInv, Shape
      <3> QED
        BY <2>1, <2>4, <2>6, <3>1, <3>2 DEF IInv, Shape
    <2>9. FlowFits'
      BY <1>1, <2>1, <2>3 DEF Kinds
    <2>10. \A i \in DOMAIN sent' : TxFits(i)'
      BY <2>1, <2>7, TxFitsKept
    <2> QED
      BY <2>1, <2>7, <2>8, <2>9, <2>10, ClaimsKept DEF IInv
  <1> QED
    BY <1>2, <1>3

LEMMA NextIInv == IInv /\ [Next]_vars => IInv'
  <1> SUFFICES ASSUME IInv, [Next]_vars PROVE IInv'
    OBVIOUS
  <1>1. CASE ChainAdvances
    BY <1>1, BlockKeepsIInv
  <1>2. ASSUME NEW i \in DOMAIN sent, Lands(i) PROVE IInv'
    BY <1>2, LandKeepsIInv
  <1>3. ASSUME NEW a \in Attempts, MintRewritten(a) PROVE IInv'
    BY <1>3, RewriteKeepsIInv
  <1>4. CASE Connected \/ Disconnected
    BY <1>4, ConnectionKeepsIInv
  <1>5. CASE WalletSigns \/ WalletDoesNotSign
    BY <1>5, SignKeepsIInv, NoSignatureKeepsIInv
  <1>6. CASE RpcFails
    BY <1>6, AbortKeepsIInv DEF RpcFails
  <1>7. CASE Click
    BY <1>7, ConnectionKeepsIInv, StartKeepsIInv DEF Click
  <1>8. CASE PageStep
    BY <1>8, PollReadyKeepsIInv, ReadsKeepIInv, SnapshotKeepsIInv, LookAgainKeepsIInv,
       AfterSignKeepsIInv, HoldKeepsIInv, SendKeepsIInv, ConfirmationKeepsIInv, ArmKeepsIInv,
       ClaimStaleKeepsIInv, ClaimUpdatedKeepsIInv DEF PageStep
  <1>9. CASE UNCHANGED vars
    <2>1. UNCHANGED <<clock, sent, activation, attempts, flags, flow, session>>
      BY <1>9 DEF vars, chain
    <2>2. PageGrows /\ SentGrows
      BY <2>1 DEF IInv, Shape, PageGrows, SentGrows
    <2> QED
      BY <2>1, <2>2, FlowKept, QuietStepKeepsIInv
  <1> QED
    BY <1>1, <1>2, <1>3, <1>4, <1>5, <1>6, <1>7, <1>8, <1>9 DEF Next

LEMMA IInvHolds == Spec => []IInv
  BY InitIInv, NextIInv, PTL DEF Spec
-------------------------------------------------------------------------------
\* The point of the demo, for every instance: however the wallet, the clock, the
\* network and the mint behave, the held authorization was signed before the
\* activation and never moves a token.
THEOREM StaleNeverExecutes == Spec => []StaleAuthorizationNeverExecutes
  <1>1. IInv => StaleAuthorizationNeverExecutes
    BY DEF IInv, TxFits, StaleAuthorizationNeverExecutes
  <1> QED
    BY <1>1, IInvHolds, PTL

\* confirmedActivationRejection and confirmedUpdatedExecution, for every instance:
\* what the page claims of an attempt is true of a transaction of that attempt.
THEOREM TrueClaims == Spec => []ClaimsAreTrue
  <1>1. IInv => ClaimsAreTrue
    BY DEF IInv
  <1> QED
    BY <1>1, IInvHolds, PTL

\* waitForActivatedReview, for every instance: the only transfer that executes is
\* the fresh one, at the multiplier of its scenario, after a refusal was claimed.
THEOREM ReviewedExecution == Spec => []ExecutesAsReviewed
  <1>1. IInv => ExecutesAsReviewed
    <2> SUFFICES ASSUME IInv, NEW i \in DOMAIN sent, sent[i].kind # "prepare",
                        sent[i].outcome = "Executed"
                 PROVE  /\ sent[i].kind = "confirm"
                        /\ sent[i].multiplier = activation[sent[i].attempt].scenario
                        /\ "staleAccepted" \in flags[sent[i].attempt]
      BY DEF ExecutesAsReviewed
    <2>1. TxFits(i) /\ sent[i].kind \in Kinds
      BY DEF IInv, TxFits
    <2> QED
      BY <2>1 DEF TxFits, Kinds
  <1> QED
    BY <1>1, IInvHolds, PTL
===============================================================================
