------------------------------ MODULE LocalDemo --------------------------------
(***************************************************************************)
(* The local live demo: a page that takes one Phantom signature before the   *)
(* armed activation, holds the bytes across it, submits them to be rejected, *)
(* and after a review executes a newly signed order, each leg attested by    *)
(* the coordinator.                                                          *)
(*                                                                           *)
(* Two pages host the same flow (activation-proof.ts, local-activation.ts,   *)
(* replay-execution.ts): the public site in live mode ("web": live-demo.ts,  *)
(* use-live-demo.ts over live-adapter.ts) and the feasibility app ("app":    *)
(* app.ts over demo-view.ts).  The two state machines differ in when Buy is  *)
(* offered and in Start over; a leg's continuation and the catch of what it  *)
(* throws are one step.  On the site a component that is unmounted leaves    *)
(* its leg running over the adapter's module-level variables.                *)
(***************************************************************************)
EXTENDS LocalCoordinator, FiniteSets

CONSTANTS
    MaxMounts,  \* bound: page loads and mounts of the demo component
    MaxEvents   \* bound: legs, mounts, restarts and a replaced program together

VARIABLES
    host,  \* which page: "web" or "app"
    page,  \* what it shows, and the adapter's module-level variables
    legs   \* the clicks: their continuations and local variables

vars == <<environment, host, page, legs>>

Finished == {"unused", "done", "failed", "gone"}

NewLeg(kind, pc, T, base) ==
    [pc |-> pc, kind |-> kind, mount |-> page.mount, T |-> T, base |-> base, wire |-> None,
     proof |-> None, digest |-> None, before |-> None, asked |-> FALSE, signedAt |-> None]

LoadedPage(mount) ==
    [mount |-> mount, kind |-> "IDLE", leg |-> None, stale |-> None, updated |-> None,
     failure |-> None, started |-> FALSE, session |-> None, stage |-> "PHANTOM_CONNECT",
     walletRequested |-> FALSE, submitted |-> FALSE]

Init ==
    /\ EnvironmentInit
    /\ host \in {"web", "app"}
    /\ page = LoadedPage(1)
    /\ legs = [p \in Legs |-> [pc |-> "unused", kind |-> "STALE", mount |-> 0, T |-> None,
                 base |-> None, wire |-> None, proof |-> None, digest |-> None,
                 before |-> None, asked |-> FALSE, signedAt |-> None]]
-------------------------------------------------------------------------------
\* Stages, failures and results.

\* The stage an await belongs to.
BuyStages ==
    [connect |-> "PHANTOM_CONNECT", load |-> "ENVIRONMENT_CHECK", arm |-> "ENVIRONMENT_CHECK",
     build |-> "TRANSACTION_BUILD", prepare |-> "TRANSACTION_BUILD", clock1 |-> "TRANSACTION_BUILD",
     presign |-> "PRE_SIGN_SIMULATION", clock2 |-> "PRE_SIGN_SIMULATION",
     deploy1 |-> "DEPLOYMENT_ATTESTATION", sign |-> "SIGN_REQUEST",
     clock3 |-> "SIGNED_BYTES_RETURNED", receipt |-> "SIGNED_AUTHORIZATION_RECEIPT",
     wait |-> "WAITING_FOR_ACTIVATION", lifetime |-> "BLOCKHASH_VALIDATION",
     deploy2 |-> "DEPLOYMENT_ATTESTATION", submit |-> "SUBMISSION", send |-> "SUBMISSION",
     confirm |-> "CONFIRMATION", verify |-> "BALANCE_VERIFICATION"]

\* track, and stage in app.ts: two of the stages set a flag.
Staged(pc) ==
    [page EXCEPT !.stage = BuyStages[pc], !.walletRequested = @ \/ pc = "sign",
                 !.submitted = @ \/ pc = "submit"]

\* A leg goes on to its next await.
Continue(p, leg) ==
    /\ legs' = [legs EXCEPT ![p] = leg]
    /\ page' = Staged(leg.pc)

At(p, pc) == [legs[p] EXCEPT !.pc = pc]

\* The component whose click the leg is still on the page.
Mounted(p) == legs[p].mount = page.mount

\* Faulty variant: the flags are cleared before the failure is described.
FailureForgets(p, kind, pg, error) ==
    [leg |-> p, headline |-> "SIGN_REQUEST", walletRequested |-> FALSE, submitted |-> FALSE]

\* traderFacingError: the headline of an error, by what it is or else by its stage.
TraderFacingError(kind, error, stage) ==
    IF error = "cancelled" THEN "cancelled"
    ELSE IF kind = "REFRESHED" /\ stage = "PRE_SIGN_SIMULATION" THEN "updated not verified"
    ELSE IF error = "missing" \/ stage = "PHANTOM_CONNECT" THEN "PHANTOM_CONNECT"
    ELSE IF error = "baseline" THEN "needs reset"
    ELSE IF error = "environment" THEN "ENVIRONMENT_CHECK"
    ELSE stage

\* describeLiveFailure, and failure in app.ts.
FailureOf(p, kind, pg, error) ==
    [leg |-> p, headline |-> TraderFacingError(kind, error, pg.stage),
     walletRequested |-> pg.walletRequested, submitted |-> pg.submitted]

\* What is left of a leg that ended: its local variables are gone.
Ended(p, pc) == [legs[p] EXCEPT !.pc = pc, !.wire = None, !.proof = None, !.digest = None,
                                !.before = None]

\* withFailure: the stale result of the attempt stays.  pg: the page at the throw.
Throw(p, pg, error) ==
    /\ legs' = [legs EXCEPT ![p] = Ended(p, "failed")]
    /\ page' = IF Mounted(p)
                   THEN [pg EXCEPT !.kind = "FAILED",
                                   !.failure = FailureOf(p, legs[p].kind, pg, error)]
                   ELSE pg

\* The text of most errors is left open: it may mention the local environment.
Fail(p) == \E error \in {"environment", "other"} : Throw(p, page, error)

\* A check on what was just read, then the next await.
Checked(p, ok, leg) == IF ok THEN Continue(p, leg) ELSE Fail(p)

\* snapshot in runLocalActivation: the mint must still be the armed, captured one.
SnapshotOk(p) == mint = LocalMint(legs[p].T)

\* coordinator: a refusal, or an answer that is not the one asked for, throws.
Answered(p, expected, leg) ==
    /\ job[p].at \in {"ok", "error"}
    /\ job' = [job EXCEPT ![p] = Idle]
    /\ Checked(p, job[p].at = "ok" /\ expected, leg)
    /\ UNCHANGED <<clock, boot, mint, program, moved, sent, landed, co, files, host>>

Asked(p) ==
    /\ job[p] = Idle
    /\ UNCHANGED <<clock, boot, mint, program, moved, sent, landed, files, host, page, legs>>

Reading == UNCHANGED <<environment, host>>
-------------------------------------------------------------------------------
\* A leg, await by await: startStaleAttempt, then executeAcrossActivation over the
\* dependencies of runLocalActivation.

\* The failure of a click whose adapter never loaded.
CouldNotStart(p) ==
    [leg |-> p, headline |-> "could not start", walletRequested |-> FALSE, submitted |-> FALSE]

\* loadAdapter, and resetLiveSession at the start of startStaleAttempt.  Clicks wait
\* for one promise, so they go on in their order; once loaded it stays loaded.
AdapterLoaded(p) ==
    /\ legs[p].pc = "adapter"
    /\ \A q \in 1 .. p - 1 : legs[q].pc # "adapter"
    /\ \/ /\ legs' = [legs EXCEPT ![p].pc = "connect"]
          /\ page' = [page EXCEPT !.session = None, !.stage = "PHANTOM_CONNECT",
                                  !.walletRequested = FALSE, !.submitted = FALSE]
       \/ /\ \A q \in Legs : legs[q].pc \in Finished \cup {"adapter"}
          /\ legs' = [legs EXCEPT ![p] = Ended(p, "failed")]
          /\ page' = IF Mounted(p) THEN [page EXCEPT !.kind = "FAILED", !.failure = CouldNotStart(p)]
                     ELSE page
    /\ Reading

\* detectPhantom and connectPhantomWallet.
ConnectAnswers == {"expected account", "another account", "no wallet", "refused"}

WalletConnects(p) ==
    /\ legs[p].pc = "connect"
    /\ \E answer \in ConnectAnswers :
         CASE answer = "expected account" -> Continue(p, At(p, "load"))
           [] answer = "another account"  -> Throw(p, page, "other")
           [] answer = "no wallet"        -> Throw(p, page, "missing")
           [] answer = "refused"          -> Throw(p, page, "cancelled")
    /\ Reading

\* loadReplayData; app.ts allows no further Buy from here on.
FixtureLoaded(p) ==
    /\ legs[p].pc = "load"
    /\ legs' = [legs EXCEPT ![p].pc = "arm"]
    /\ page' = [page EXCEPT !.started = host = "app"]
    /\ Reading

ArmRequested(p) == legs[p].pc = "arm" /\ ArmCall(p) /\ Asked(p)

\* The session begins with T.
Armed(p) ==
    /\ legs[p].pc = "arm"
    /\ job[p].at \in {"ok", "error"}
    /\ job' = [job EXCEPT ![p] = Idle]
    /\ IF job[p].at = "ok"
           THEN /\ legs' = [legs EXCEPT ![p].pc = "build", ![p].T = job[p].arg]
                /\ page' = [Staged("build") EXCEPT !.session = [T |-> job[p].arg, stale |-> None]]
           ELSE Fail(p)
    /\ UNCHANGED <<clock, boot, mint, program, moved, sent, landed, co, files, host>>

PhaseOf(kind) == IF kind = "STALE" THEN "Pending" ELSE "Activated"

BuildSnapshot(p) ==
    /\ legs[p].pc = "build"
    /\ Checked(p, SnapshotOk(p) /\ PhaseAt(mint, clock) = PhaseOf(legs[p].kind), At(p, "prepare"))
    /\ Reading

\* assertDeterministicBaseline: the trader's funded balance, so a second trade never
\* starts.
BaselineIntact == moved = 0

\* prepareReplay on the snapshot's expectation.  Which route, accounts and signer the
\* message must have is the grammar of TransactionGrammar.
PreparedReplay(p) ==
    [leg |-> p, T |-> legs[p].T, phase |-> PhaseOf(legs[p].kind), boot |-> boot, built |-> clock]

\* build after its snapshot, with the balances before.
Prepared(p) ==
    /\ legs[p].pc = "prepare"
    /\ IF BaselineIntact
           THEN Continue(p, [legs[p] EXCEPT !.pc = "clock1", !.before = moved,
                                            !.wire = PreparedReplay(p)])
           ELSE Throw(p, page, "baseline")
    /\ Reading

\* A Clock read of the stale leg before the activation.
ClockBeforeActivation(p) ==
    SnapshotOk(p) /\ (legs[p].kind = "STALE" => clock < legs[p].T)

BeforeSimulation(p) ==
    /\ legs[p].pc = "clock1"
    /\ Checked(p, ClockBeforeActivation(p)
                  /\ (legs[p].kind = "REFRESHED" => clock >= legs[p].T), At(p, "presign"))
    /\ Reading

PreSignRequested(p) == legs[p].pc = "presign" /\ PreSignCall(p, legs[p].wire) /\ Asked(p)

PreSigned(p) ==
    legs[p].pc = "presign"
    /\ Answered(p, TRUE, [legs[p] EXCEPT !.pc = "clock2", !.proof = job[p].arg])

AtSimulation(p) ==
    /\ legs[p].pc = "clock2"
    /\ Checked(p, ClockBeforeActivation(p), At(p, "deploy1"))
    /\ Reading

DeploymentRequested(p) ==
    legs[p].pc \in {"deploy1", "deploy2"} /\ AttestCall(p) /\ Asked(p)

DeploymentBeforeSigning(p) ==
    legs[p].pc = "deploy1"
    /\ Answered(p, TRUE, [legs[p] EXCEPT !.pc = "sign", !.asked = TRUE, !.digest = job[p].arg])

\* What signTransaction returns: signedTransactionBytes, the trader's rejection, or
\* another error of the wallet.
SignAnswers == {"same message", "changed message", "no bytes", "rejected", "error"}

\* exactPhantomSignature
ExactPhantomSignature(answer) == answer = "same message"

WalletSigns(p) ==
    /\ legs[p].pc = "sign"
    /\ \E answer \in SignAnswers :
         CASE answer = "rejected"           -> Throw(p, page, "cancelled")
           [] answer = "error"              -> Fail(p)
           [] ExactPhantomSignature(answer) ->
                Continue(p, [legs[p] EXCEPT !.pc = "clock3", !.signedAt = clock])
           [] OTHER                         -> Throw(p, Staged("clock3"), "other")
    /\ Reading

AtSigning(p) ==
    /\ legs[p].pc = "clock3"
    /\ Checked(p, ClockBeforeActivation(p), At(p, "receipt"))
    /\ Reading

ReceiptRequested(p) ==
    legs[p].pc = "receipt" /\ ReceiptCall(p, legs[p].proof, legs[p].wire) /\ Asked(p)

\* Faulty variant: a refused receipt is only logged.
ReceiptBestEffort(p) ==
    /\ legs[p].pc = "receipt"
    /\ job[p].at \in {"ok", "error"}
    /\ job' = [job EXCEPT ![p] = Idle]
    /\ Continue(p, At(p, IF legs[p].kind = "STALE" THEN "wait" ELSE "lifetime"))
    /\ UNCHANGED <<clock, boot, mint, program, moved, sent, landed, co, files, host>>

\* The receipt must be for the message and the bytes held.
ReceiptAnswered(p) ==
    /\ legs[p].pc = "receipt"
    /\ Answered(p, job[p].arg = p, At(p, IF legs[p].kind = "STALE" THEN "wait" ELSE "lifetime"))

\* The guard refuses the second T itself, so the wait ends after it.
ActivationPassed(p) == clock > legs[p].T

\* One poll; after 240 of them the leg gives up.
WaitPoll(p) ==
    /\ legs[p].pc = "wait"
    /\ \/ Checked(p, SnapshotOk(p), IF ActivationPassed(p) THEN At(p, "lifetime") ELSE legs[p])
       \/ ~ActivationPassed(p) /\ Fail(p)
    /\ Reading

LifetimeChecked(p) ==
    /\ legs[p].pc = "lifetime"
    /\ Checked(p, BlockhashValid(legs[p].wire), At(p, "deploy2"))
    /\ Reading

DeploymentBeforeSubmission(p) ==
    /\ legs[p].pc = "deploy2"
    /\ Answered(p, job[p].arg = legs[p].digest, At(p, "submit"))

\* submit: one more snapshot, then sendTransaction with the held bytes.
SubmitSnapshot(p) ==
    /\ legs[p].pc = "submit"
    /\ Checked(p, SnapshotOk(p) /\ PhaseAt(mint, clock) = "Activated", At(p, "send"))
    /\ Reading

\* Faulty variant: the order is built again, for the phase it is submitted in.
RebuiltBytes(p) == [legs[p].wire EXCEPT !.phase = PhaseAt(mint, clock)]

\* What is submitted is what was signed, whatever has happened since.
SubmittedBytes(p) == legs[p].wire

\* Only the stale leg skips the preflight.  The answer to a send may be lost.
Send(p) ==
    LET wire == SubmittedBytes(p)
        preflight == legs[p].kind = "REFRESHED"
    IN  /\ legs[p].pc = "send"
        /\ \/ /\ preflight => BlockhashValid(wire) /\ "Ok" \in Outcomes(wire)
              /\ sent' = [sent EXCEPT ![p] = wire]
              /\ Continue(p, At(p, "confirm")) \/ Fail(p)
           \/ /\ preflight /\ (~BlockhashValid(wire) \/ Outcomes(wire) # {"Ok"})
              /\ Fail(p)
              /\ UNCHANGED sent
        /\ UNCHANGED <<clock, boot, mint, program, moved, landed, co, job, files, host>>

\* confirmReplay: an executed wire is found once confirmed; otherwise the block
\* height or the number of polls ends it.
Confirmed(p) ==
    /\ legs[p].pc = "confirm"
    /\ \/ landed[p] # None /\ landed[p].boot = boot /\ Continue(p, At(p, "verify"))
       \/ Fail(p)
    /\ Reading

\* Faulty variant: what landed is not looked at.
StaleOutcomeUnchecked(p) == moved = legs[p].before

\* assertOutcome and verifyStaleResult.
StaleOutcomeProven(p) ==
    landed[p].outcome = "ActivationPhaseChanged" /\ moved = legs[p].before

\* assertOutcome and verifyUpdatedResult.
UpdatedOutcomeProven(p) ==
    landed[p].outcome = "Ok" /\ moved = legs[p].before + 1

\* assertStaleInvariants and assertUpdatedInvariants: the site checks what the adapter
\* returned once more before it shows it.
ShownInvariants(p) ==
    host = "web" =>
      IF legs[p].kind = "STALE"
          THEN landed[p].outcome = "ActivationPhaseChanged" /\ moved = legs[p].before
          ELSE landed[p].outcome = "Ok" /\ moved = legs[p].before + 1

\* The stale proof is stored in the session of the moment; without one that throws.
StaleVerified(p) ==
    /\ legs[p].pc = "verify" /\ legs[p].kind = "STALE"
    /\ IF StaleOutcomeProven(p) /\ page.session # None
           THEN LET stored == [page EXCEPT !.session.stale = p]
                IN  IF ~ShownInvariants(p) THEN Throw(p, stored, "other")
                    ELSE /\ legs' = [legs EXCEPT ![p] = Ended(p, "done")]
                         /\ page' = IF Mounted(p)
                                        THEN [stored EXCEPT !.kind = "STALE_VERIFIED", !.stale = p]
                                        ELSE stored
           ELSE Fail(p)
    /\ Reading

UpdatedVerified(p) ==
    /\ legs[p].pc = "verify" /\ legs[p].kind = "REFRESHED"
    /\ IF UpdatedOutcomeProven(p) /\ ShownInvariants(p)
           THEN /\ legs' = [legs EXCEPT ![p] = Ended(p, "done")]
                /\ page' = IF Mounted(p) THEN [page EXCEPT !.kind = "COMPLETED", !.updated = p]
                           ELSE page
           ELSE Fail(p)
    /\ Reading

LegStep(p) ==
    \/ AdapterLoaded(p) \/ FixtureLoaded(p) \/ ArmRequested(p) \/ Armed(p)
    \/ BuildSnapshot(p) \/ Prepared(p) \/ BeforeSimulation(p)
    \/ PreSignRequested(p) \/ PreSigned(p) \/ AtSimulation(p)
    \/ DeploymentRequested(p) \/ DeploymentBeforeSigning(p) \/ AtSigning(p)
    \/ ReceiptRequested(p) \/ ReceiptAnswered(p) \/ WaitPoll(p) \/ LifetimeChecked(p)
    \/ DeploymentBeforeSubmission(p) \/ SubmitSnapshot(p) \/ Send(p) \/ Confirmed(p)
    \/ StaleVerified(p) \/ UpdatedVerified(p)

\* A read, a request or its answer is lost on the way.
AwaitFails(p) ==
    /\ legs[p].pc \notin Finished \cup {"adapter", "connect", "sign"}
    /\ Fail(p)
    /\ Reading

\* recordEvidence, posted and forgotten.
Evidence(p) ==
    /\ legs[p].pc = "done"
    /\ LET stale     == IF legs[p].kind = "STALE" THEN p ELSE legs[p].base
           refreshed == IF legs[p].kind = "STALE" THEN None ELSE p
       IN  /\ \A f \in files : <<f.stale, f.refreshed>> # <<stale, refreshed>>
           /\ RecordEvidence(stale, refreshed)
    /\ UNCHANGED <<host, page, legs>>
-------------------------------------------------------------------------------
\* The trader and the browser.

MayHappen ==
    Cardinality({p \in Legs : legs[p].pc # "unused"}) + (page.mount - 1) + (boot - 1)
      + (IF program = Reviewed THEN 0 ELSE 1) < MaxEvents

NextLeg(p) ==
    MayHappen /\ legs[p].pc = "unused" /\ \A q \in 1 .. p - 1 : legs[q].pc # "unused"

\* showBuy, and busy || started in app.ts.
BuyOffered == IF host = "web" THEN page.kind = "IDLE" ELSE page.kind # "RUNNING" /\ ~page.started

\* A fresh attempt: every previous result is dropped.
BeginAttempt(p) ==
    [page EXCEPT !.kind = "RUNNING", !.leg = p, !.stale = None, !.updated = None, !.failure = None]

\* buy: beginStale or beginAttempt.
Buy(p) ==
    /\ NextLeg(p)
    /\ BuyOffered
    /\ legs' = [legs EXCEPT ![p] = NewLeg("STALE", IF host = "web" THEN "adapter" ELSE "connect",
                                          None, None)]
    /\ page' = IF host = "web" THEN BeginAttempt(p)
                   ELSE [BeginAttempt(p) EXCEPT !.session = None, !.stage = "PHANTOM_CONNECT",
                                      !.walletRequested = FALSE, !.submitted = FALSE]
    /\ Reading

Review ==
    /\ page.kind = "STALE_VERIFIED"
    /\ page' = [page EXCEPT !.kind = "REVIEWING"]
    /\ Reading /\ UNCHANGED legs

\* showUpdatedTerms
ConfirmOffered == page.kind = "REVIEWING"

\* confirm: beginUpdated or beginRefreshedLeg, and confirmUpdatedOrder up to its
\* first await.
ConfirmOrder(p) ==
    /\ NextLeg(p)
    /\ ConfirmOffered
    /\ IF page.session # None /\ page.session.stale # None
           THEN /\ legs' = [legs EXCEPT ![p] = NewLeg("REFRESHED", "build", page.session.T,
                                                      page.session.stale)]
                /\ page' = [page EXCEPT !.kind = "RUNNING", !.leg = p, !.failure = None,
                              !.stage = "TRANSACTION_BUILD",
                              !.walletRequested = FALSE, !.submitted = FALSE]
           ELSE /\ page' = [page EXCEPT !.kind = "FAILED", 
                                        !.failure = FailureOf(p, "REFRESHED", page, "other")]
                /\ legs' = [legs EXCEPT ![p] = NewLeg("REFRESHED", "failed", None, None)]
    /\ Reading

\* Start over: reset and resetLiveSession.
StartOver ==
    /\ host = "web"
    /\ page.kind = "FAILED"
    /\ page' = LoadedPage(page.mount)
    /\ Reading /\ UNCHANGED legs

\* The page is reloaded: its legs end wherever they are.
Reload ==
    /\ page.mount < MaxMounts
    /\ page' = LoadedPage(page.mount + 1)
    /\ legs' = [p \in Legs |-> IF legs[p].pc \in Finished THEN legs[p] ELSE Ended(p, "gone")]
    /\ Reading

\* The demo component is unmounted and mounted again within the site.
Remount ==
    /\ host = "web"
    /\ page.mount < MaxMounts
    /\ page' = [page EXCEPT !.mount = @ + 1, !.kind = "IDLE", !.leg = None, !.stale = None,
                            !.updated = None, !.failure = None]
    /\ Reading /\ UNCHANGED legs

Environment ==
    /\ \/ Tick
       \/ MayHappen /\ (ReplaceProgram \/ Restart)
       \/ \E p \in Legs : Land(p) \/ JobStep(p) \/ JobFails(p)
    /\ UNCHANGED <<host, page, legs>>

Next ==
    \/ Environment
    \/ \E p \in Legs : \/ LegStep(p) \/ AwaitFails(p) \/ Evidence(p)
                       \/ WalletConnects(p) \/ WalletSigns(p)
                       \/ Buy(p) \/ ConfirmOrder(p)
    \/ Review \/ StartOver
    \/ MayHappen /\ (Reload \/ Remount)

Spec == Init /\ [][Next]_vars

-------------------------------------------------------------------------------
\* The trader's tokens move at most once per environment, and only by the wire of
\* a confirmed updated order that follows a stale wire the guard rejected: no lost
\* answer, reload, remount, restart or second click executes a trade twice or
\* executes the stale authorization, as long as the reviewed program is the one that
\* runs.  The stale wire was rejected in the same environment if its attempt is the
\* one the order was confirmed in.  In app.ts that is always so; on the site an
\* orphaned leg can arm a session, or store its proof in one, that is not its own.
MovesOnlyAsConfirmed ==
    /\ \A p \in Legs :
         landed[p] # None /\ landed[p].outcome = "Ok" /\ landed[p].program = Reviewed =>
           /\ legs[p].kind = "REFRESHED"
           /\ landed[p].at > legs[p].T
           /\ landed[legs[p].base].outcome = "ActivationPhaseChanged"
           /\ host = "app" \/ legs[legs[p].base].T = legs[p].T =>
                landed[legs[p].base].boot = landed[p].boot
    /\ \A p, q \in Legs :
         landed[p] # None /\ landed[q] # None /\ landed[p].boot = landed[q].boot
         /\ landed[p].outcome = "Ok" /\ landed[q].outcome = "Ok"
         /\ {landed[p].program, landed[q].program} = {Reviewed} => p = q

\* What the coordinator has on record is what happened: a message recorded as
\* simulated before T was executed in simulation before T (the guard decides that,
\* not the earlier Clock read), and an authorization recorded as signed names the
\* message its own proof simulated, signed before the recorded Clock reading.
AttestationsAreTrue ==
    /\ \A i \in DOMAIN co.sims :
         co.sims[i].program = Reviewed =>
           co.sims[i].timing.clockRelation = ObservedRelation(co.sims[i].ran, co.sims[i].T)
    /\ \A a \in co.auths :
         /\ co.sims[a.proof].leg = a.leg
         /\ legs[a.leg].signedAt # None
         /\ co.sims[a.proof].ran <= legs[a.leg].signedAt
         /\ legs[a.leg].signedAt <= a.clock
         /\ a.timing.clockRelation = "before" => legs[a.leg].signedAt < a.T
    /\ \A a, b \in co.auths : a.proof = b.proof => a = b

\* A result on screen is a result on chain: "valid when it was signed, rejected
\* before the swap" is shown of a wire that was signed before T, executed after T,
\* rejected by the guard's own phase check and moved nothing; "executed" is shown
\* of a wire that executed.
ResultsAreReal ==
    /\ page.stale # None =>
         LET p == page.stale
         IN  /\ landed[p].outcome = "ActivationPhaseChanged"
             /\ legs[p].signedAt < legs[p].T
             /\ landed[p].at > legs[p].T
             /\ landed[p].boot = boot => \E a \in co.auths : a.leg = p
    /\ page.updated # None => landed[page.updated].outcome = "Ok"

\* The headlines that say a transaction was not submitted, or that nothing was.
NotSubmittedHeadlines ==
    {"SIGNED_AUTHORIZATION_RECEIPT", "DEPLOYMENT_ATTESTATION", "BLOCKHASH_VALIDATION"}

\* "No wallet signature was requested." and "No transaction was submitted." are true
\* of the failed leg whenever the page says them, also when the answer to the send
\* was lost and when an orphaned leg shares the adapter's flags.  In app.ts, where
\* no leg is orphaned, three things its headlines say are true as well: that a
\* transaction was not submitted, that the request was cancelled, that the
\* transaction finished.  What the headline of a failed attestation says of the
\* signature is another matter, see NothingSignedHeadline.
FailureClaimsAreTrue ==
    page.failure # None =>
      LET p == page.failure.leg
      IN  /\ ~page.failure.walletRequested => ~legs[p].asked
          /\ ~page.failure.submitted => sent[p] = None
          /\ host = "app" =>
               /\ page.failure.headline \in NotSubmittedHeadlines => sent[p] = None
               /\ page.failure.headline = "BALANCE_VERIFICATION" => landed[p] # None
               /\ page.failure.headline = "cancelled" => legs[p].signedAt = None

\* The headline of a failed deployment attestation, "The EquityGuard program could
\* not be re-verified. Nothing was signed or submitted." (trader-flow.ts:160): the
\* failed leg has no signature and was not sent.
NothingSignedHeadline ==
    page.failure # None /\ page.failure.headline = "DEPLOYMENT_ATTESTATION" =>
      legs[page.failure.leg].signedAt = None /\ sent[page.failure.leg] = None

\* An evidence file written by the environment that executed the stale wire holds
\* the coordinator's own authorization of that wire.
EvidenceIsBacked ==
    \A f \in files : landed[f.stale].boot = f.boot =>
      f.stale \in f.auths /\ f.armed = legs[f.stale].T

\* No click is left hanging: whatever was refused, lost, restarted or remounted, a
\* leg that does not wait for the trader has a step of its own, a handler of the
\* coordinator to wait for, or an earlier click's load of the adapter.  A leg has
\* finitely many steps, so it ends.
NobodyHangs ==
    \A p \in Legs : legs[p].pc \notin Finished \cup {"connect", "sign"} =>
      \/ ENABLED LegStep(p)
      \/ ENABLED JobStep(p)
      \/ \E q \in 1 .. p - 1 : legs[q].pc = "adapter"
===============================================================================
