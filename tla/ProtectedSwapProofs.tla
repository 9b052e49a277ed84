-------------------------- MODULE ProtectedSwapProofs --------------------------
(***************************************************************************)
(* Proofs about ProtectedSwap, for every set of mints, builds, windows, times *)
(* and program states.                                                        *)
(***************************************************************************)
EXTENDS ProtectedSwap, TLAPS

\* The client's offline check and the program's check are the same function: a
\* wallet that asks the mirror (offline-check.ts) gets the program's answer
\* (guard.rs), overflow at the ends of i64 included.
LEMMA OfflineMirrorsProgram ==
    ASSUME NEW req \in AssertSafeExecution, NEW actual \in ProtectedState,
           NEW now \in Timestamps
    PROVE  CheckGuardOffline(req, actual, now) = Check(req, actual, now)
  BY DEF CheckGuardOffline, Check, WindowOverflows, WindowContains

\* guard.rs: an accepted request is for the very state the mint holds.
LEMMA AcceptedStateIsExpected ==
    ASSUME NEW req \in AssertSafeExecution, NEW actual \in ProtectedState,
           NEW now \in Timestamps, Check(req, actual, now) = "Ok"
    PROVE  /\ actual = req.expected
           /\ HasScheduledChange(actual) =>
                /\ ~WindowContains(req.window, actual.effectiveTimestamp, now)
                /\ PhaseAt(actual, now) = req.expectedPhase
  <1>1. /\ actual.multiplier = req.expected.multiplier
        /\ actual.newMultiplier = req.expected.newMultiplier
        /\ actual.effectiveTimestamp = req.expected.effectiveTimestamp
    BY DEF Check
  <1>2. actual = req.expected
    BY <1>1 DEF AssertSafeExecution, ProtectedState
  <1> QED
    BY <1>2 DEF Check

\* state.rs phase_at against Token-2022's rule: the stored state and the phase
\* together determine the multiplier in force.
LEMMA PhaseDeterminesMultiplier ==
    ASSUME NEW state \in ProtectedState, NEW t1 \in Timestamps, NEW t2 \in Timestamps,
           HasScheduledChange(state) => PhaseAt(state, t1) = PhaseAt(state, t2)
    PROVE  EffectiveMultiplier(state, t1) = EffectiveMultiplier(state, t2)
  BY DEF HasScheduledChange, PhaseAt, EffectiveMultiplier

\* The payload built from a snapshot is encodable.
LEMMA ExpectationType ==
    ASSUME NEW state \in ProtectedState, NEW now, NEW window \in ProtectionWindow
    PROVE  ExpectationFromSnapshot(state, now, window) \in AssertSafeExecution
  BY DEF ExpectationFromSnapshot, AssertSafeExecution, PhaseAt, Phases

\* snapshot.ts and guard.rs: what was built from a snapshot and is accepted later
\* executes at the multiplier of the snapshot.
LEMMA AcceptedAtSnapshotMultiplier ==
    ASSUME NEW state \in ProtectedState, NEW t \in Timestamps,
           NEW window \in ProtectionWindow,
           NEW actual \in ProtectedState, NEW now \in Timestamps,
           Check(ExpectationFromSnapshot(state, t, window), actual, now) = "Ok"
    PROVE  actual = state /\ EffectiveMultiplier(actual, now) = EffectiveMultiplier(state, t)
  <1> DEFINE req == ExpectationFromSnapshot(state, t, window)
  <1>1. req \in AssertSafeExecution
    BY ExpectationType
  <1>2. req.expected = state /\ req.expectedPhase = PhaseAt(state, t)
    BY DEF ExpectationFromSnapshot
  <1>3. /\ actual = req.expected
        /\ HasScheduledChange(actual) => PhaseAt(actual, now) = req.expectedPhase
    BY <1>1, AcceptedStateIsExpected
  <1> QED
    BY <1>2, <1>3, PhaseDeterminesMultiplier
-------------------------------------------------------------------------------

Fields == {"pc", "build", "in", "result", "attestation", "request", "sawMints", "sawElf",
           "read", "reverifiedElf"}

\* The chain is one the program can meet, and the call is a record of ten fields.
Shape ==
    /\ clock \in Timestamps
    /\ accounts = [m \in Mints |-> accounts[m]]
    /\ \A m \in Mints : accounts[m] \in MintAccounts[m]
    /\ programs \in [{Reviewed, Other} -> ProgramAccount]
    /\ DOMAIN call = Fields

\* A quote is the state and the phase of one read.
QuoteIsRead ==
    quote # None =>
        /\ quote.state \in ProtectedState
        /\ quote.at \in Timestamps
        /\ quote.phase = PhaseAt(quote.state, quote.at)

Running == call.pc \in {"classify", "deploy", "snapshot"}

\* The call has returned a guarded transaction.
Protected ==
    /\ call.pc \in {"done", "reverified", "sent", "executed", "rejected"}
    /\ call.result.status = "PROTECTED"

\* What is handed in as quoted is the quote.
InputIsQuote ==
    Running \/ Protected =>
        /\ call.in.build \in Builds
        /\ call.in.programAddress \in {Other, Reviewed, None}
        /\ call.in.expectedState # None => quote # None /\ call.in.expectedState = quote.state
        /\ call.in.expectedPhase # None => quote # None /\ call.in.expectedPhase = quote.phase

\* Past the classification there is one mint to protect and a request in order.
RequestInOrder ==
    call.pc \in {"deploy", "snapshot"} \/ Protected =>
        /\ call.result.mint \in Mints
        /\ ~GuardRequestIssue(call.in)

Final == {"IMMUTABLE", "NO_USABLE_AUTHORITY"}

\* An attestation is of one of the two programs, and a final one still holds.
AttestationHolds ==
    call.pc = "snapshot" \/ Protected =>
        /\ call.attestation.program \in {Reviewed, Other}
        /\ call.attestation.mutability \in Final =>
             LET program == programs[call.attestation.program]
             IN  program.check = "Ok" /\ program.elf = "reviewed" /\ program.authority # "key"

\* What was quoted, as the call compares it with a snapshot.
Quoted(in, state, now) ==
    [expected |-> in.expectedState,
     expectedPhase |-> IF in.expectedPhase # None THEN in.expectedPhase
                       ELSE PhaseAt(state, now),
     window |-> in.window]

\* A guard is built from one read, which the program and the quote both accepted.
BuiltFromRead ==
    Protected =>
        LET state == call.read.account.state
            now   == call.read.now
        IN  /\ now \in Timestamps
            /\ state \in ProtectedState
            /\ call.request = ExpectationFromSnapshot(state, now, call.in.window)
            /\ CheckGuardOffline(call.request, state, now) = "Ok"
            /\ call.in.expectedState # None =>
                 CheckGuardOffline(Quoted(call.in, state, now), state, now) = "Ok"

\* The plain transaction is offered after a classification that does not apply.
PlainIsClassified ==
    (/\ call.pc \in {"done", "reverified", "sentUnprotected"}
     /\ call.result.status = "NOT_APPLICABLE") =>
        /\ ParseBuildResponse(call.in.build)
        /\ call.result = Classify(call.in.build, call.sawMints)

\* The block finds a chain the program can meet; the reviewed binary decides.
LandedAsDecided ==
    /\ landed # None => call.pc \in {"executed", "rejected"}
    /\ call.pc \in {"executed", "rejected"} =>
         /\ Protected
         /\ landed.now \in Timestamps
         /\ landed.account.decode = "Ok" => landed.account.state \in ProtectedState
         /\ landed.program.check \in {"MISSING", "NOT_EXECUTABLE"} => call.pc = "rejected"
         /\ (landed.program.check \notin {"MISSING", "NOT_EXECUTABLE"}
               /\ landed.program.elf = "reviewed") =>
              (call.pc = "executed" <=>
                 AssertSafeExecutionVerdict(call.request, landed.account, landed.now) = "Ok")
         /\ call.attestation.mutability \in Final =>
              landed.program.check = "Ok" /\ landed.program.elf = "reviewed"

\* The phases of the call: what is idle holds no result, what is sent is protected
\* and what is sent without a guard does not apply.
PhasesInOrder ==
    /\ call.pc = "idle" => call.build = None \/ call.build \in Builds
    /\ call.pc \in {"sent", "reverified"} => Protected
    /\ call.pc = "sentUnprotected" => call.result.status = "NOT_APPLICABLE"
    /\ call.pc \in {"deploy", "snapshot"} => call.result.status = "CLASSIFIED"

IInv ==
    /\ Shape
    /\ QuoteIsRead
    /\ InputIsQuote
    /\ RequestInOrder
    /\ AttestationHolds
    /\ BuiltFromRead
    /\ PlainIsClassified
    /\ LandedAsDecided
    /\ PhasesInOrder
-------------------------------------------------------------------------------

LEMMA InitIInv == Init => IInv
  <1> SUFFICES ASSUME Init PROVE IInv
    OBVIOUS
  <1>1. call = NoCall /\ call.pc = "idle" /\ call.build = None
    BY DEF Init, NoCall
  <1>2. DOMAIN call = Fields
    BY <1>1 DEF NoCall, Fields
  <1>3. Shape
    BY <1>2 DEF Init, Shape
  <1> QED
    BY <1>1, <1>3 DEF Init, IInv, QuoteIsRead, InputIsQuote, RequestInOrder, AttestationHolds,
       BuiltFromRead, PlainIsClassified, LandedAsDecided, PhasesInOrder, Running, Protected
-------------------------------------------------------------------------------
\* The candidates of a classification are mints the chain knows, and its outcome is
\* CLASSIFIED with one of them or has no guard.
LEMMA ClassifiedMint ==
    ASSUME NEW build \in Builds, NEW view, Classify(build, view).status = "CLASSIFIED"
    PROVE  Classify(build, view).mint \in Mints
  <1> DEFINE traded     == <<build.inputMint, build.outputMint>>
             candidates == {i \in 1 .. 2 : traded[i] # USDC}
             protected  == {i \in candidates : VerdictFor(traded[i], view[traded[i]]) = "PROTECTED"}
             first      == CHOOSE i \in protected : \A j \in protected : i <= j
  <1>1. protected # {} /\ Classify(build, view).mint = traded[first]
    BY DEF Classify, Result
  <1>2. first \in protected
    <2>1. protected \subseteq {1, 2}
      OBVIOUS
    <2>2. \E i \in protected : \A j \in protected : i <= j
      BY <1>1, <2>1
    <2> QED
      BY <2>2
  <1>3. traded[first] \in {build.inputMint, build.outputMint} \ {USDC}
    <2>1. first \in 1 .. 2 /\ traded[first] # USDC
      BY <1>2
    <2>2. first = 1 \/ first = 2
      BY <2>1
    <2>3. traded[1] = build.inputMint /\ traded[2] = build.outputMint
      OBVIOUS
    <2> HIDE DEF first, traded
    <2> QED
      BY <2>1, <2>2, <2>3
  <1> QED
    BY <1>1, <1>3, SwapConstants

\* protect.ts classify: a trade that does not apply has no mint that is known or
\* readable as protected.
LEMMA NotApplicableIsOrdinary ==
    ASSUME NEW build, NEW view, Classify(build, view).status = "NOT_APPLICABLE"
    PROVE  /\ ~ReportedMintMismatch(build)
           /\ \A i \in 1 .. 2 :
                LET mint == <<build.inputMint, build.outputMint>>[i]
                IN  mint # USDC => mint \notin KnownAssets /\ view[mint].decode # "Ok"
  <1> DEFINE traded     == <<build.inputMint, build.outputMint>>
             candidates == {i \in 1 .. 2 : traded[i] # USDC}
             verdicts   == [i \in candidates |-> VerdictFor(traded[i], view[traded[i]])]
             refused    == {i \in candidates :
                              verdicts[i] \notin NotApplicableReason \cup {"PROTECTED"}}
             protected  == {i \in candidates : verdicts[i] = "PROTECTED"}
  <1>1. ~ReportedMintMismatch(build) /\ refused = {} /\ protected = {}
    BY DEF Classify, Result
  <1>2. \A i \in candidates : VerdictFor(traded[i], view[traded[i]]) \in NotApplicableReason
    BY <1>1
  <1>3. \A mint, account : VerdictFor(mint, account) \in NotApplicableReason =>
                             mint \notin KnownAssets /\ account.decode # "Ok"
    BY DEF VerdictFor, NotApplicableReason
  <1> QED
    BY <1>1, <1>2, <1>3
-------------------------------------------------------------------------------
\* A step of the chain: the call is left alone, and what it attested as final holds.
LEMMA ChainStepKeepsIInv ==
    ASSUME IInv, Shape', AttestationHolds', UNCHANGED <<quote, call, landed>>
    PROVE  IInv'
  BY DEF IInv, QuoteIsRead, InputIsQuote, RequestInOrder, BuiltFromRead, PlainIsClassified,
         LandedAsDecided, PhasesInOrder, Running, Protected

LEMMA ClockKeepsIInv ==
    ASSUME IInv, ClockAdvances
    PROVE  IInv'
  <1>1. Shape' /\ AttestationHolds'
    BY DEF IInv, Shape, AttestationHolds, ClockAdvances, Protected
  <1> QED
    BY <1>1, ChainStepKeepsIInv DEF ClockAdvances

LEMMA MintKeepsIInv ==
    ASSUME IInv, MintChanges
    PROVE  IInv'
  <1>1. Shape' /\ AttestationHolds'
    BY DEF IInv, Shape, AttestationHolds, MintChanges, Protected
  <1> QED
    BY <1>1, ChainStepKeepsIInv DEF MintChanges

\* The loader changes only a program whose authority can sign: never an attested
\* final one.
LEMMA ProgramKeepsIInv ==
    ASSUME IInv, ProgramChanges
    PROVE  IInv'
  <1>1. PICK at \in {Reviewed, Other} :
          /\ programs[at].authority = "key"
          /\ \/ programs' = [programs EXCEPT ![at].elf =
                               IF @ = "reviewed" THEN "foreign" ELSE "reviewed"]
             \/ \E authority \in {None, "zero"} :
                  programs' = [programs EXCEPT ![at].authority = authority]
             \/ programs' = [programs EXCEPT ![at].check = "MISSING"]
    BY DEF ProgramChanges
  <1>2. programs \in [{Reviewed, Other} -> ProgramAccount]
    BY DEF IInv, Shape
  <1>3. /\ programs' \in [{Reviewed, Other} -> ProgramAccount]
        /\ \A other \in {Reviewed, Other} \ {at} : programs'[other] = programs[other]
    BY <1>1, <1>2 DEF ProgramAccount
  <1>4. UNCHANGED <<clock, accounts, quote, call, landed>>
    BY DEF ProgramChanges
  <1>5. Shape'
    BY <1>3, <1>4 DEF IInv, Shape
  <1>6. AttestationHolds'
    BY <1>1, <1>3, <1>4 DEF IInv, AttestationHolds, Protected
  <1> QED
    BY <1>4, <1>5, <1>6, ChainStepKeepsIInv
-------------------------------------------------------------------------------
LEMMA QuoteKeepsIInv ==
    ASSUME IInv, TakeQuote
    PROVE  IInv'
  <1>1. call.pc = "idle" /\ UNCHANGED <<clock, accounts, programs, call, landed>>
    BY DEF TakeQuote, chain
  <1>2. PICK m \in Mints :
          /\ accounts[m].decode = "Ok"
          /\ quote' = [mint |-> m, state |-> accounts[m].state,
                       phase |-> PhaseAt(accounts[m].state, clock), at |-> clock]
    BY DEF TakeQuote
  <1>3. accounts[m].state \in ProtectedState /\ clock \in Timestamps
    BY <1>2, SwapConstants DEF IInv, Shape
  <1>4. QuoteIsRead'
    BY <1>2, <1>3 DEF QuoteIsRead
  <1>5. Shape'
    BY <1>1 DEF IInv, Shape
  <1> QED
    BY <1>1, <1>4, <1>5 DEF IInv, InputIsQuote, RequestInOrder, AttestationHolds, BuiltFromRead,
       PlainIsClassified, LandedAsDecided, PhasesInOrder, Running, Protected

\* A step of the call that ends it without a transaction.
LEMMA EndKeepsIInv ==
    ASSUME IInv, UNCHANGED <<chain, quote, landed>>, landed = None,
           DOMAIN call' = Fields, call'.pc \in {"done", "refused"},
           call'.pc = "done" => call'.result.status \notin {"PROTECTED", "NOT_APPLICABLE"}
    PROVE  IInv'
  <1>1. Shape' /\ QuoteIsRead'
    BY DEF IInv, Shape, QuoteIsRead, chain
  <1> QED
    BY <1>1 DEF IInv, InputIsQuote, RequestInOrder, AttestationHolds, BuiltFromRead,
       PlainIsClassified, LandedAsDecided, PhasesInOrder, Running, Protected

LEMMA ThrowsKeepsIInv ==
    ASSUME IInv, UNCHANGED <<chain, quote, landed>>, Throws,
           call.pc \notin {"executed", "rejected"}
    PROVE  IInv'
  <1>1. landed = None /\ DOMAIN call = Fields
    BY DEF IInv, LandedAsDecided, Shape
  <1>2. DOMAIN call' = Fields /\ call'.pc = "done" /\ call'.result.status = "THROWN"
    BY <1>1 DEF Throws, Fields, Result
  <1> QED
    BY <1>1, <1>2, EndKeepsIInv

\* The application obtains a build, or fails to.
LEMMA BuildKeepsIInv ==
    ASSUME IInv, FetchBuild \/ HoldRawBuild
    PROVE  IInv'
  <1>1. call.pc = "idle" /\ UNCHANGED <<chain, quote, landed>>
    BY DEF FetchBuild, HoldRawBuild
  <1>2. CASE Throws
    BY <1>1, <1>2, ThrowsKeepsIInv
  <1>3. ASSUME NEW build \in Builds, call' = [call EXCEPT !.build = build]
        PROVE  IInv'
    <2>1. DOMAIN call' = Fields /\ call'.pc = "idle" /\ call'.build = build
      BY <1>1, <1>3 DEF IInv, Shape, Fields
    <2>2. Shape' /\ QuoteIsRead'
      BY <1>1, <2>1 DEF IInv, Shape, QuoteIsRead, chain
    <2> QED
      BY <1>1, <1>3, <2>1, <2>2 DEF IInv, InputIsQuote, RequestInOrder, AttestationHolds,
         BuiltFromRead, PlainIsClassified, LandedAsDecided, PhasesInOrder, Running, Protected
  <1> QED
    BY <1>2, <1>3 DEF FetchBuild, HoldRawBuild

LEMMA CallKeepsIInv ==
    ASSUME IInv, CallProtect
    PROVE  IInv'
  <1>1. call.pc = "idle" /\ call.build \in Builds /\ UNCHANGED <<chain, quote, landed>>
    BY DEF CallProtect, IInv, PhasesInOrder
  <1>2. PICK window \in Windows, at \in {Other, Reviewed, None},
             withState \in BOOLEAN, withPhase \in BOOLEAN :
          /\ (withState \/ withPhase) => quote # None
          /\ call' = [call EXCEPT !.pc = "classify", !.build = None,
               !.in = [build |-> call.build, window |-> window, programAddress |-> at,
                       expectedState |-> IF withState THEN quote.state ELSE None,
                       expectedPhase |-> IF withPhase THEN quote.phase ELSE None]]
    BY Zenon DEF CallProtect
  <1>3. /\ DOMAIN call' = Fields /\ call'.pc = "classify"
        /\ call'.in = [build |-> call.build, window |-> window, programAddress |-> at,
                       expectedState |-> IF withState THEN quote.state ELSE None,
                       expectedPhase |-> IF withPhase THEN quote.phase ELSE None]
    BY <1>2 DEF IInv, Shape, Fields
  <1>4. /\ call'.in.build \in Builds
        /\ call'.in.programAddress \in {Other, Reviewed, None}
        /\ call'.in.expectedState = IF withState THEN quote.state ELSE None
        /\ call'.in.expectedPhase = IF withPhase THEN quote.phase ELSE None
    BY <1>1, <1>3
  <1>5. InputIsQuote'
    BY <1>1, <1>2, <1>4 DEF InputIsQuote
  <1>6. Shape' /\ QuoteIsRead'
    BY <1>1, <1>3 DEF IInv, Shape, QuoteIsRead, chain
  <1> QED
    BY <1>1, <1>3, <1>5, <1>6 DEF IInv, RequestInOrder, AttestationHolds, BuiltFromRead,
       PlainIsClassified, LandedAsDecided, PhasesInOrder, Protected

\* A classified trade goes on with a request in order, one that does not apply is
\* offered as it came, and anything else ends the call.
LEMMA ClassifyKeepsIInv ==
    ASSUME IInv, ClassifyStep
    PROVE  IInv'
  <1> DEFINE c      == Classify(call.in.build, accounts)
             parsed == ParseBuildResponse(call.in.build)
             result == IF ~parsed THEN Result("ERROR", "INVALID_JUPITER_BUILD", None)
                       ELSE IF c.status = "CLASSIFIED" /\ GuardRequestIssue(call.in)
                         THEN Result("ERROR", "INVALID_GUARD_REQUEST", c.mint)
                       ELSE c
  <1>1. call.pc = "classify" /\ UNCHANGED <<chain, quote, landed>> /\ landed = None
    BY DEF ClassifyStep, IInv, LandedAsDecided
  <1>2. call' = [call EXCEPT !.pc = IF result.status = "CLASSIFIED" THEN "deploy" ELSE "done",
                             !.result = result,
           !.sawMints = IF result.status = "NOT_APPLICABLE" THEN accounts ELSE None]
    BY DEF ClassifyStep
  <1> HIDE DEF result
  <1>3. /\ DOMAIN call' = Fields
        /\ call'.pc = IF result.status = "CLASSIFIED" THEN "deploy" ELSE "done"
        /\ call'.result = result
        /\ call'.sawMints = IF result.status = "NOT_APPLICABLE" THEN accounts ELSE None
        /\ call'.in = call.in
    BY <1>2 DEF IInv, Shape, Fields
  <1>4. Shape' /\ QuoteIsRead'
    BY <1>1, <1>3 DEF IInv, Shape, QuoteIsRead, chain
  <1>5. call.in.build \in Builds
    BY <1>1 DEF IInv, InputIsQuote, Running
  <1>6. result.status # "PROTECTED"
    <2>1. c.status # "PROTECTED"
      BY DEF Classify, Result
    <2> QED
      BY <2>1 DEF result, Result
  <1>7. CASE result.status = "CLASSIFIED"
    <2>1. result = c /\ ~GuardRequestIssue(call.in)
      BY <1>7 DEF result, Result
    <2>2. call'.result.mint \in Mints
      BY <1>3, <1>5, <1>7, <2>1, ClassifiedMint
    <2>3. InputIsQuote' /\ RequestInOrder'
      BY <1>1, <1>3, <2>1, <2>2 DEF IInv, InputIsQuote, RequestInOrder, Running
    <2> QED
      BY <1>1, <1>3, <1>4, <1>7, <2>3 DEF IInv, AttestationHolds, BuiltFromRead,
         PlainIsClassified, LandedAsDecided, PhasesInOrder, Protected
  <1>8. CASE result.status = "NOT_APPLICABLE"
    <2>1. parsed /\ result = c
      BY <1>8 DEF result, Result
    <2>2. PlainIsClassified'
      BY <1>3, <1>8, <2>1 DEF PlainIsClassified
    <2> QED
      BY <1>1, <1>3, <1>4, <1>8, <2>2 DEF IInv, InputIsQuote, RequestInOrder, AttestationHolds,
         BuiltFromRead, LandedAsDecided, PhasesInOrder, Running, Protected
  <1>9. CASE result.status \notin {"CLASSIFIED", "NOT_APPLICABLE"}
    BY <1>1, <1>3, <1>6, <1>9, EndKeepsIInv
  <1> QED
    BY <1>7, <1>8, <1>9

\* A resolved deployment is one of the two programs; it is reported as final only
\* for the reviewed binary under an authority that cannot sign.
LEMMA ResolvedDeployment ==
    ASSUME NEW requested \in {Other, Reviewed, None}, NEW served,
           NEW view \in [{Reviewed, Other} -> ProgramAccount],
           ResolveDeployment(requested, served, view).code = "Ok"
    PROVE  LET attestation == ResolveDeployment(requested, served, view).attestation
           IN  /\ attestation.program \in {Reviewed, Other}
               /\ attestation.mutability \in Final =>
                    LET program == view[attestation.program]
                    IN  program.check = "Ok" /\ program.elf = "reviewed"
                          /\ program.authority # "key"
  <1> DEFINE at    == IF requested # None THEN requested ELSE DeploymentForCluster(served)
             check == IF at = Reviewed THEN VerifyReviewedGuardDeployment(view[at])
                      ELSE CheckGuardProgramAccount(view[at])
  <1>1. at \in {Reviewed, Other, None}
    BY DEF DeploymentForCluster
  <1>2. at # None
    BY DEF ResolveDeployment, Deployment
  <1>3. check = "Ok"
    BY <1>2 DEF ResolveDeployment, Deployment, DeploymentFailureCode
  <1>4. ResolveDeployment(requested, served, view).attestation =
          IF at = Reviewed THEN ReviewedAttestation(view[at]) ELSE CallerTrustedAttestation(at)
    BY <1>2, <1>3 DEF ResolveDeployment, Deployment
  <1>5. CASE at = Reviewed
    <2>1. view[Reviewed].check = "Ok" /\ view[Reviewed].elf = "reviewed"
      BY <1>3, <1>5 DEF VerifyReviewedGuardDeployment, ProgramAccount
    <2>2. Mutability(view[Reviewed].authority) \in Final => view[Reviewed].authority # "key"
      BY SwapConstants DEF Mutability, Final
    <2> QED
      BY <1>4, <1>5, <2>1, <2>2 DEF ReviewedAttestation
  <1>6. CASE at = Other
    BY <1>4, <1>6, SwapConstants DEF CallerTrustedAttestation, Final
  <1> QED
    BY <1>1, <1>2, <1>5, <1>6

LEMMA DeployKeepsIInv ==
    ASSUME IInv, DeployStep
    PROVE  IInv'
  <1> DEFINE d == ResolveDeployment(call.in.programAddress, cluster, programs)
  <1>1. call.pc = "deploy" /\ UNCHANGED <<chain, quote, landed>> /\ landed = None
    BY DEF DeployStep, IInv, LandedAsDecided
  <1>2. call' = IF d.code = "Ok"
                THEN [call EXCEPT !.pc = "snapshot", !.attestation = d.attestation,
                                  !.sawElf = programs[d.attestation.program].elf]
                ELSE [call EXCEPT !.pc = "done",
                                  !.result = Result("ERROR", d.code, call.result.mint)]
    BY DEF DeployStep
  <1> HIDE DEF d
  <1>3. CASE d.code # "Ok"
    <2>1. DOMAIN call' = Fields /\ call'.pc = "done" /\ call'.result.status = "ERROR"
      BY <1>2, <1>3 DEF IInv, Shape, Fields, Result
    <2> QED
      BY <1>1, <2>1, EndKeepsIInv
  <1>4. CASE d.code = "Ok"
    <2>1. /\ DOMAIN call' = Fields /\ call'.pc = "snapshot"
          /\ call'.attestation = d.attestation
          /\ call'.in = call.in /\ call'.result = call.result
      BY <1>2, <1>4 DEF IInv, Shape, Fields
    <2>2. Shape' /\ QuoteIsRead'
      BY <1>1, <2>1 DEF IInv, Shape, QuoteIsRead, chain
    <2>3. InputIsQuote' /\ RequestInOrder'
      BY <1>1, <2>1 DEF IInv, InputIsQuote, RequestInOrder, Running
    <2>4. AttestationHolds'
      <3>1. call.in.programAddress \in {Other, Reviewed, None}
        BY <1>1 DEF IInv, InputIsQuote, Running
      <3>2. programs \in [{Reviewed, Other} -> ProgramAccount] /\ programs' = programs
        BY <1>1 DEF IInv, Shape, chain
      <3> QED
        BY <1>4, <2>1, <3>1, <3>2, ResolvedDeployment DEF d, AttestationHolds
    <2> QED
      BY <1>1, <2>1, <2>2, <2>3, <2>4 DEF IInv, BuiltFromRead, PlainIsClassified,
         LandedAsDecided, PhasesInOrder, Protected
  <1> QED
    BY <1>3, <1>4

\* A protected result has passed both comparisons with the snapshot.
LEMMA ProtectedFromSnapshot ==
    ASSUME NEW in, NEW mint, NEW account, NEW now,
           ProtectFromSnapshot(in, mint, account, now).status = "PROTECTED"
    PROVE  /\ account.decode = "Ok"
           /\ ProtectFromSnapshot(in, mint, account, now).mint = mint
           /\ CheckGuardOffline(ExpectationFromSnapshot(account.state, now, in.window),
                                account.state, now) = "Ok"
           /\ in.expectedState # None =>
                CheckGuardOffline(Quoted(in, account.state, now), account.state, now) = "Ok"
  BY DEF ProtectFromSnapshot, EconomicFailure, Composed, Result, Quoted

LEMMA SnapshotKeepsIInv ==
    ASSUME IInv, SnapshotStep
    PROVE  IInv'
  <1> DEFINE mint    == call.result.mint
             account == accounts[mint]
             result  == ProtectFromSnapshot(call.in, mint, account, clock)
             request == ExpectationFromSnapshot(account.state, clock, call.in.window)
  <1>1. call.pc = "snapshot" /\ UNCHANGED <<chain, quote, landed>> /\ landed = None
    BY DEF SnapshotStep, IInv, LandedAsDecided
  <1>2. call' = [call EXCEPT !.pc = "done", !.result = result,
           !.request = IF result.status # "PROTECTED" THEN None ELSE request,
           !.read = [account |-> account, now |-> clock]]
    BY DEF SnapshotStep
  <1> HIDE DEF result, request, account
  <1>3. /\ DOMAIN call' = Fields /\ call'.pc = "done" /\ call'.result = result
        /\ call'.request = IF result.status # "PROTECTED" THEN None ELSE request
        /\ call'.read = [account |-> account, now |-> clock]
        /\ call'.in = call.in /\ call'.attestation = call.attestation
    BY <1>2 DEF IInv, Shape, Fields
  <1>4. result.status # "NOT_APPLICABLE"
    BY DEF result, ProtectFromSnapshot, EconomicFailure, Composed, Result
  <1>5. CASE result.status # "PROTECTED"
    BY <1>1, <1>3, <1>4, <1>5, EndKeepsIInv
  <1>6. CASE result.status = "PROTECTED"
    <2>1. Shape' /\ QuoteIsRead'
      BY <1>1, <1>3 DEF IInv, Shape, QuoteIsRead, chain
    <2>2. InputIsQuote'
      BY <1>1, <1>3 DEF IInv, InputIsQuote, Running
    <2>3. mint \in Mints /\ ~GuardRequestIssue(call.in)
      BY <1>1 DEF IInv, RequestInOrder
    <2>4. /\ account.decode = "Ok" /\ result.mint = mint
          /\ CheckGuardOffline(request, account.state, clock) = "Ok"
          /\ call.in.expectedState # None =>
               CheckGuardOffline(Quoted(call.in, account.state, clock), account.state, clock)
                 = "Ok"
      BY <1>6, ProtectedFromSnapshot DEF result, request
    <2>5. RequestInOrder'
      BY <1>3, <2>3, <2>4 DEF RequestInOrder
    <2>6. AttestationHolds'
      BY <1>1, <1>3 DEF IInv, AttestationHolds, chain
    <2>7. account.state \in ProtectedState /\ clock \in Timestamps
      BY <2>3, <2>4, SwapConstants DEF IInv, Shape, account
    <2>8. /\ call'.read.account = account /\ call'.read.now = clock
          /\ call'.request = request
      BY <1>3, <1>6
    <2>9. BuiltFromRead'
      BY <1>3, <2>4, <2>7, <2>8 DEF BuiltFromRead, request
    <2> QED
      BY <1>1, <1>3, <1>6, <2>1, <2>2, <2>5, <2>6, <2>9 DEF IInv, PlainIsClassified,
         LandedAsDecided, PhasesInOrder
  <1> QED
    BY <1>5, <1>6

\* A step of the application that keeps a protected call protected.
LEMMA ProtectedStepKeepsIInv ==
    ASSUME IInv, Protected, UNCHANGED <<chain, quote, landed>>, landed = None,
           DOMAIN call' = Fields, call'.pc \in {"reverified", "sent"},
           \A f \in Fields \ {"pc", "reverifiedElf"} : call'[f] = call[f]
    PROVE  IInv'
  <1>1. /\ call'.in = call.in /\ call'.result = call.result
        /\ call'.attestation = call.attestation /\ call'.request = call.request
        /\ call'.read = call.read
    BY DEF Fields
  <1>2. Protected'
    BY <1>1 DEF Protected
  <1>3. Shape' /\ QuoteIsRead'
    BY DEF IInv, Shape, QuoteIsRead, chain
  <1>4. InputIsQuote' /\ RequestInOrder' /\ AttestationHolds'
    BY <1>1 DEF IInv, InputIsQuote, RequestInOrder, AttestationHolds, chain
  <1>5. BuiltFromRead'
    BY <1>1 DEF IInv, BuiltFromRead
  <1> QED
    BY <1>2, <1>3, <1>4, <1>5 DEF IInv, PlainIsClassified, LandedAsDecided, PhasesInOrder,
       Protected

LEMMA ReverifyKeepsIInv ==
    ASSUME IInv, Reverify
    PROVE  IInv'
  <1>1. /\ call.pc = "done" /\ call.result.status = "PROTECTED"
        /\ UNCHANGED <<chain, quote, landed>> /\ landed = None /\ DOMAIN call = Fields
    BY DEF Reverify, IInv, LandedAsDecided, Shape
  <1>2. PICK pc \in {"reverified", "refused"} :
          \E elf : call' = [call EXCEPT !.pc = pc, !.reverifiedElf = elf]
    BY DEF Reverify
  <1>3. /\ DOMAIN call' = Fields /\ call'.pc = pc
        /\ \A f \in Fields \ {"pc", "reverifiedElf"} : call'[f] = call[f]
    BY <1>1, <1>2 DEF Fields
  <1>4. CASE pc = "reverified"
    BY <1>1, <1>3, <1>4, ProtectedStepKeepsIInv DEF Protected
  <1>5. CASE pc = "refused"
    BY <1>1, <1>3, <1>5, EndKeepsIInv
  <1> QED
    BY <1>4, <1>5

LEMMA SendKeepsIInv ==
    ASSUME IInv, Send
    PROVE  IInv'
  <1>1. /\ call.pc \in {"done", "reverified"}
        /\ UNCHANGED <<chain, quote, landed>> /\ landed = None /\ DOMAIN call = Fields
    BY DEF Send, IInv, LandedAsDecided, Shape
  <1>2. PICK pc \in {"sent", "sentUnprotected", "refused"} :
          /\ call' = [call EXCEPT !.pc = pc]
          /\ pc = "sent" => call.result.status = "PROTECTED"
          /\ pc = "sentUnprotected" => call.result.status = "NOT_APPLICABLE"
    BY DEF Send
  <1>3. /\ DOMAIN call' = Fields /\ call'.pc = pc
        /\ \A f \in Fields \ {"pc"} : call'[f] = call[f]
    BY <1>1, <1>2 DEF Fields
  <1>4. CASE pc = "sent"
    BY <1>1, <1>2, <1>3, <1>4, ProtectedStepKeepsIInv DEF Protected
  <1>5. CASE pc = "refused"
    BY <1>1, <1>3, <1>5, EndKeepsIInv
  <1>6. CASE pc = "sentUnprotected"
    <2>1. call'.in = call.in /\ call'.result = call.result /\ call'.sawMints = call.sawMints
      BY <1>3 DEF Fields
    <2>2. Shape' /\ QuoteIsRead'
      BY <1>1, <1>3 DEF IInv, Shape, QuoteIsRead, chain
    <2>3. PlainIsClassified'
      BY <1>1, <1>2, <1>6, <2>1 DEF IInv, PlainIsClassified
    <2> QED
      BY <1>1, <1>2, <1>3, <1>6, <2>1, <2>2, <2>3 DEF IInv, InputIsQuote, RequestInOrder,
         AttestationHolds, BuiltFromRead, LandedAsDecided, PhasesInOrder, Running, Protected
  <1> QED
    BY <1>4, <1>5, <1>6

\* The block: the program at the attested address decides on the mint and the time
\* it finds.
LEMMA LandKeepsIInv ==
    ASSUME IInv, Land
    PROVE  IInv'
  <1> DEFINE program == programs[call.attestation.program]
             account == accounts[call.result.mint]
  <1>1. /\ call.pc = "sent" /\ Protected /\ DOMAIN call = Fields
        /\ UNCHANGED <<chain, quote>>
    BY DEF Land, IInv, PhasesInOrder, Shape
  <1>2. PICK ok \in BOOLEAN :
          /\ program.check \in {"MISSING", "NOT_EXECUTABLE"} => ~ok
          /\ (program.check \notin {"MISSING", "NOT_EXECUTABLE"} /\ program.elf = "reviewed") =>
               (ok <=> AssertSafeExecutionVerdict(call.request, account, clock) = "Ok")
          /\ call' = [call EXCEPT !.pc = IF ok THEN "executed" ELSE "rejected"]
          /\ landed' = [account |-> account, now |-> clock, program |-> program]
    BY DEF Land
  <1> HIDE DEF program, account
  <1>3. /\ DOMAIN call' = Fields /\ call'.pc = (IF ok THEN "executed" ELSE "rejected")
        /\ call'.in = call.in /\ call'.result = call.result
        /\ call'.attestation = call.attestation /\ call'.request = call.request
        /\ call'.read = call.read
    BY <1>1, <1>2 DEF Fields
  <1>4. landed'.account = account /\ landed'.now = clock /\ landed'.program = program
    BY <1>2
  <1>5. Protected'
    BY <1>1, <1>3 DEF Protected
  <1>6. Shape' /\ QuoteIsRead'
    BY <1>1, <1>3 DEF IInv, Shape, QuoteIsRead, chain
  <1>7. InputIsQuote' /\ RequestInOrder' /\ AttestationHolds' /\ BuiltFromRead'
    BY <1>1, <1>3 DEF IInv, InputIsQuote, RequestInOrder, AttestationHolds, BuiltFromRead,
       chain, Running
  <1>8. clock \in Timestamps /\ (account.decode = "Ok" => account.state \in ProtectedState)
    <2>1. call.result.mint \in Mints
      BY <1>1 DEF IInv, RequestInOrder
    <2> QED
      BY <2>1, SwapConstants DEF IInv, Shape, account
  <1>9. call.attestation.mutability \in Final => program.check = "Ok" /\ program.elf = "reviewed"
    BY <1>1 DEF IInv, AttestationHolds, program
  <1>10. LandedAsDecided'
    BY <1>2, <1>3, <1>4, <1>5, <1>8, <1>9 DEF LandedAsDecided
  <1> QED
    BY <1>3, <1>5, <1>6, <1>7, <1>10 DEF IInv, PlainIsClassified, PhasesInOrder

LEMMA NextIInv == IInv /\ [Next]_vars => IInv'
  <1> SUFFICES ASSUME IInv, [Next]_vars PROVE IInv'
    OBVIOUS
  <1>1. CASE ClockAdvances \/ MintChanges \/ ProgramChanges
    BY <1>1, ClockKeepsIInv, MintKeepsIInv, ProgramKeepsIInv
  <1>2. CASE TakeQuote \/ FetchBuild \/ HoldRawBuild \/ CallProtect
    BY <1>2, QuoteKeepsIInv, BuildKeepsIInv, CallKeepsIInv
  <1>3. CASE ClassifyStep \/ DeployStep \/ SnapshotStep
    BY <1>3, ClassifyKeepsIInv, DeployKeepsIInv, SnapshotKeepsIInv
  <1>4. CASE CallThrows
    BY <1>4, ThrowsKeepsIInv DEF CallThrows
  <1>5. CASE Reverify \/ Send \/ Land
    BY <1>5, ReverifyKeepsIInv, SendKeepsIInv, LandKeepsIInv
  <1>6. CASE UNCHANGED vars
    <2>1. Shape' /\ AttestationHolds'
      BY <1>6 DEF vars, IInv, Shape, AttestationHolds, Protected
    <2> QED
      BY <1>6, <2>1, ChainStepKeepsIInv DEF vars
  <1> QED
    BY <1>1, <1>2, <1>3, <1>4, <1>5, <1>6 DEF Next

LEMMA IInvHolds == Spec => []IInv
  BY InitIInv, NextIInv, PTL DEF Spec
-------------------------------------------------------------------------------
\* protect.ts with expectedState, for every instance: a swap that the reviewed
\* binary lets through settles at the multiplier that was quoted, across the three
\* reads of the call, the signature and the block.
THEOREM QuotedMultiplier == Spec => []SettlesAtQuotedMultiplier
  <1>1. IInv => SettlesAtQuotedMultiplier
    <2> DEFINE in    == call.in
               read  == call.read.account.state
               at    == call.read.now
               found == landed.account.state
    <2> SUFFICES ASSUME IInv, call.pc = "executed", landed.program.elf = "reviewed"
                 PROVE  /\ landed.account.decode = "Ok"
                        /\ EffectiveMultiplier(found, landed.now)
                             = IF in.expectedState # None
                               THEN EffectiveMultiplier(quote.state, quote.at)
                               ELSE EffectiveMultiplier(call.request.expected, at)
      BY DEF SettlesAtQuotedMultiplier
    <2>1. /\ Protected /\ landed.now \in Timestamps
          /\ landed.account.decode = "Ok" => found \in ProtectedState
          /\ AssertSafeExecutionVerdict(call.request, landed.account, landed.now) = "Ok"
      BY DEF IInv, LandedAsDecided
    <2>2. landed.account.decode = "Ok" /\ Check(call.request, found, landed.now) = "Ok"
      BY <2>1 DEF AssertSafeExecutionVerdict
    <2>3. /\ at \in Timestamps /\ read \in ProtectedState
          /\ call.request = ExpectationFromSnapshot(read, at, in.window)
          /\ in.expectedState # None => CheckGuardOffline(Quoted(in, read, at), read, at) = "Ok"
      BY <2>1 DEF IInv, BuiltFromRead
    <2>4. in.window \in ProtectionWindow /\ ~GuardRequestIssue(in)
      BY <2>1 DEF IInv, RequestInOrder, GuardRequestIssue
    <2>5. found = read /\ EffectiveMultiplier(found, landed.now) = EffectiveMultiplier(read, at)
      BY <2>1, <2>2, <2>3, <2>4, AcceptedAtSnapshotMultiplier
    <2>6. call.request.expected = read
      BY <2>3 DEF ExpectationFromSnapshot
    <2>7. ASSUME in.expectedState # None
          PROVE  EffectiveMultiplier(read, at) = EffectiveMultiplier(quote.state, quote.at)
      <3> DEFINE quoted == Quoted(in, read, at)
      <3>1. /\ quote # None /\ in.expectedState = quote.state
            /\ in.expectedPhase # None => in.expectedPhase = quote.phase
        BY <2>1, <2>7 DEF IInv, InputIsQuote
      <3>2. /\ quote.state \in ProtectedState /\ quote.at \in Timestamps
            /\ quote.phase = PhaseAt(quote.state, quote.at)
        BY <3>1 DEF IInv, QuoteIsRead
      <3>3. quoted \in AssertSafeExecution /\ quoted.expected = quote.state
        BY <2>4, <3>1, <3>2 DEF Quoted, AssertSafeExecution, PhaseAt, Phases
      <3>4. Check(quoted, read, at) = "Ok"
        BY <2>3, <2>7, <3>3, OfflineMirrorsProgram
      <3>5. /\ read = quote.state
            /\ HasScheduledChange(read) => PhaseAt(read, at) = quoted.expectedPhase
        BY <2>3, <3>3, <3>4, AcceptedStateIsExpected
      <3>6. HasScheduledChange(read) => quoted.expectedPhase = quote.phase
        BY <2>4, <2>7, <3>1, <3>5 DEF GuardRequestIssue, Quoted
      <3> QED
        BY <2>3, <3>2, <3>5, <3>6, PhaseDeterminesMultiplier
    <2> QED
      BY <2>2, <2>5, <2>6, <2>7
  <1> QED
    BY <1>1, IInvHolds, PTL

\* protect.ts "Refuse now what the program would refuse", for every instance: the
\* reviewed binary rejects a guarded swap only if the mint or the time moved after
\* the snapshot.
THEOREM RejectionsNeedChanges == Spec => []RejectionsFollowChanges
  <1>1. IInv => RejectionsFollowChanges
    <2> DEFINE read == call.read.account.state
    <2> SUFFICES ASSUME IInv, call.pc = "rejected", landed.program.check = "Ok",
                        landed.program.elf = "reviewed", landed.now = call.read.now,
                        landed.account.decode = "Ok",
                        landed.account.state = call.request.expected
                 PROVE  FALSE
      BY DEF RejectionsFollowChanges
    <2>1. /\ Protected
          /\ AssertSafeExecutionVerdict(call.request, landed.account, landed.now) # "Ok"
      BY DEF IInv, LandedAsDecided
    <2>2. /\ call.read.now \in Timestamps /\ read \in ProtectedState
          /\ call.request = ExpectationFromSnapshot(read, call.read.now, call.in.window)
          /\ CheckGuardOffline(call.request, read, call.read.now) = "Ok"
      BY <2>1 DEF IInv, BuiltFromRead
    <2>3. call.request \in AssertSafeExecution /\ call.request.expected = read
      <3>1. call.in.window \in ProtectionWindow
        BY <2>1 DEF IInv, RequestInOrder, GuardRequestIssue
      <3> QED
        BY <2>2, <3>1, ExpectationType DEF ExpectationFromSnapshot
    <2>4. Check(call.request, read, call.read.now) = "Ok"
      BY <2>2, <2>3, OfflineMirrorsProgram
    <2> QED
      BY <2>1, <2>3, <2>4 DEF AssertSafeExecutionVerdict
  <1> QED
    BY <1>1, IInvHolds, PTL

\* deployment.ts, for every instance: a deployment attested as immutable or without
\* a usable authority is the reviewed binary in the block.
THEOREM FinalAttestation == Spec => []ImmutableMeansReviewed
  <1>1. IInv => ImmutableMeansReviewed
    BY DEF IInv, LandedAsDecided, ImmutableMeansReviewed, Final
  <1> QED
    BY <1>1, IInvHolds, PTL

\* protect.ts "protection is never silently dropped", for every instance: the plain
\* transaction is sent only for a trade without a known or protected mint, and a
\* wallet asking supportsJupiterSwap is told the same.
THEOREM NeverSilentlyDropped == Spec => []UnprotectedOnlyWhenOrdinary
  <1>1. IInv => UnprotectedOnlyWhenOrdinary
    <2> DEFINE build == call.in.build
               reported == <<build.inputMint, build.outputMint>>
               trade == IF build.entrypoint = "route_v2" THEN build.moves ELSE reported
    <2> SUFFICES ASSUME IInv, call.pc = "sentUnprotected"
                 PROVE  \A i \in 1 .. 2 : trade[i] # USDC =>
                          /\ trade[i] \notin KnownAssets
                          /\ call.sawMints[trade[i]].decode # "Ok"
                          /\ SupportsJupiterSwap(build, call.sawMints) = call.result
      BY DEF UnprotectedOnlyWhenOrdinary
    <2>1. /\ ParseBuildResponse(build) /\ call.result = Classify(build, call.sawMints)
          /\ call.result.status = "NOT_APPLICABLE"
      BY DEF IInv, PlainIsClassified, PhasesInOrder
    <2>2. /\ ~ReportedMintMismatch(build)
          /\ \A i \in 1 .. 2 : reported[i] # USDC =>
               reported[i] \notin KnownAssets /\ call.sawMints[reported[i]].decode # "Ok"
      BY <2>1, NotApplicableIsOrdinary
    <2>3. trade = reported
      BY <2>2 DEF ReportedMintMismatch
    <2>4. SupportsJupiterSwap(build, call.sawMints) = call.result
      BY <2>1 DEF SupportsJupiterSwap
    <2> HIDE DEF trade, reported
    <2> QED
      BY <2>2, <2>3, <2>4
  <1> QED
    BY <1>1, IInvHolds, PTL
===============================================================================
