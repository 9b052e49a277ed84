------------------------------ MODULE LiveDevnet ------------------------------
(***************************************************************************)
(* The live Devnet page of the public web site: the React component          *)
(* live-devnet-experience.tsx over the calls of devnet-public.ts.            *)
(*                                                                           *)
(* Nothing but the phase keeps two calls apart: which buttons are shown and  *)
(* enabled depends on it, and every call that ends sets it, whatever it was  *)
(* set to meanwhile.  A call keeps the session, the wallet and the held bytes *)
(* of the render it was started in.  Setting the state of one continuation   *)
(* is one render, after which the effects that depend on what changed are    *)
(* cleaned up and run again (SetState).                                      *)
(***************************************************************************)
EXTENDS DemoChain, FiniteSets

CONSTANTS
    MinRemaining,  \* MIN_AUTHORIZATION_REMAINING_SECONDS
    DemoWindow,    \* DEMO_AUTHORIZATION_MAX_REMAINING_SECONDS
    MaxPolls,      \* status reads of one confirmation (40 in devnet-public.ts)
    FirstScenario, \* the scenario the page opens with
    MaxConnects    \* bound: clicks on Connect

\* validatePublicTiming, with the delays scaled down.
ValidatePublicTiming(delay, minimumRemaining) == minimumRemaining < delay

ASSUME LiveDevnetConstants ==
    /\ {MinRemaining, DemoWindow, MaxPolls} \subseteq Nat
    /\ ValidatePublicTiming(ActivationDelay, MinRemaining)
    /\ FirstScenario \in Scenarios

VARIABLES
    phase,          \* useState: the phase
    wallet,         \* useState: provider and wallet
    scenario,       \* useState: scenarioId, what the page shows
    session,        \* useState: the PreparedSession
    held,           \* useState: the HeldAuthorization
    open,           \* useState: opensIn is 0
    stale,          \* useState: staleSignature, as an index of sent
    updated,        \* useState: updatedSignature and movement, as an index of sent
    submitStarted,  \* useRef
    watch,          \* the polling effect of the last render, while it runs
    calls,          \* calls in flight, with their captured and local variables
    connects,       \* clicks on Connect
    expired         \* history: whose held bytes were reported expired, and by whom

vars == <<chain, sent, phase, wallet, scenario, session, held, open, stale, updated, submitStarted,
          watch, calls, connects, expired>>

shown == <<open, stale, updated>>

Busy == phase \in {"preparing", "signing", "locked", "activating", "updating"}

NewCall(kind, pc, w, a, action) ==
    [kind |-> kind, pc |-> pc, wallet |-> w, attempt |-> a, action |-> action, held |-> None,
     ready |-> FALSE, sawFailed |-> FALSE, snapshot |-> None, lastValid |-> None,
     prefix |-> 0, before |-> None, tx |-> None, polls |-> 0]

\* readChainSnapshot: mint and Clock in one read.
SnapshotOf(a) == [state |-> mint[a], now |-> clock]

\* HeldAuthorization: what seal freezes for the submission.
Seal(c, expectation) ==
    [attempt |-> c.attempt, wallet |-> c.wallet, lastValid |-> c.lastValid,
     guardInstructionIndex |-> c.prefix, expectation |-> expectation]

\* The page's own copies of two checks.
AcceptActivationRejection(tx, guardIndex, before, after) ==
    ConfirmedActivationRejection(tx, guardIndex, before, after)

AcceptUpdatedExecution(tx, before, after) == ConfirmedUpdatedExecution(tx, before, after)

\* checkGuardOffline of this page: the stored bytes, the window, the phase.
PageCheckGuardOffline(request, actual, now) ==
    LET t     == actual.effectiveTimestamp
        start == t - request.window.beforeSecs
        end   == t + request.window.afterSecs
    IN  IF actual.multiplier # request.expected.multiplier THEN "MultiplierChanged"
        ELSE IF actual.newMultiplier # request.expected.newMultiplier THEN "NewMultiplierChanged"
        ELSE IF t # request.expected.effectiveTimestamp THEN "EffectiveTimestampChanged"
        ELSE IF ~HasScheduledChange(actual) THEN "Ok"
        ELSE IF start < MinI64 \/ end > MaxI64 THEN "ArithmeticOverflow"
        ELSE IF start <= now /\ now <= end THEN "InsideTransitionWindow"
        ELSE IF PhaseAt(actual, now) # request.expectedPhase THEN "ActivationPhaseChanged"
        ELSE "Ok"

\* chainReadyForStaleSubmit and submissionPermitted: the countdown that is shown
\* has no say.
SubmissionPermitted(snapshot, expectation) ==
    /\ expectation.expectedPhase = "Pending"
    /\ expectation.window = ZeroWindow
    /\ PageCheckGuardOffline(expectation, snapshot.state, snapshot.now) = "ActivationPhaseChanged"

\* Faulty variant: any activated mint is taken for the reviewed one.
ReviewOfAnyState(action, snapshot) == IF snapshot.now <= action.T THEN "wait" ELSE "ready"

\* activatedReviewDecision of this page.
ReviewDecision(action, snapshot) ==
    IF snapshot.state # ScheduledState(action) THEN "mismatch"
    ELSE IF snapshot.now <= action.T THEN "wait"
    ELSE IF PageCheckGuardOffline(ExpectationFromSnapshot(snapshot.state, snapshot.now, ZeroWindow),
                                  snapshot.state, snapshot.now) = "Ok" THEN "ready"
    ELSE "wait"

\* authorizeDecision
AuthorizeDecision(action, snapshot) ==
    CASE snapshot.state # ScheduledState(action) -> "mismatch"
      [] OTHER -> IF action.T - snapshot.now < MinRemaining \/ snapshot.now >= action.T
                      THEN "missed" ELSE "sign"

\* prepareSessionInstructions: one transaction makes the mint, schedules the
\* action, and gives the wallet its demo tokens.
PrepareSessionInstructions(action) ==
    <<[op |-> "create-mint"],
      [op |-> "initialize-scaled-ui", multiplier |-> InitialMultiplier],
      [op |-> "initialize-mint"],
      [op |-> "schedule-multiplier", multiplier |-> action.scenario, at |-> action.T],
      [op |-> "create-ata", token |-> "source"],
      [op |-> "mint-to", token |-> "source", amount |-> DemoMintAmount],
      [op |-> "create-ata", token |-> "destination"]>>

\* pendingReturnDecision
PendingReturnDecision(action, snapshot) ==
    IF snapshot.state # ScheduledState(action) \/ snapshot.now >= action.T THEN "elapsed" ELSE "hold"

\* demoAuthorizationOpensInSeconds is 0
DemoAuthorizationOpen(T, now) == T - now <= DemoWindow

\* Faulty variant: only the activation ends the wait.
HeldWaitUntilReady(blockHeight, lastValid, ready) == IF ready THEN "submit" ELSE "wait"

\* heldWaitDecision
HeldWaitDecision(blockHeight, lastValid, ready) ==
    IF blockHeight > lastValid THEN "expired" ELSE IF ready THEN "submit" ELSE "wait"
-------------------------------------------------------------------------------
\* One render: the new state, the cleanup of the effects and the effects again.
\* A poll that waits for the block height does not look at its cancelled flag
\* again: it goes on as a call of its own.

WatchOf(p, s, h) ==
    CASE p = "armed" /\ s # None ->
           {[pc |-> "clock", attempt |-> s.attempt, T |-> s.action.T, held |-> None, ready |-> FALSE]}
      [] p = "locked" /\ s # None /\ h # None ->
           {[pc |-> "snapshot", attempt |-> s.attempt, T |-> s.action.T, held |-> h, ready |-> FALSE]}
      [] OTHER -> {}

Orphaned(polls) ==
    {[NewCall("poll", "height", None, w.attempt, None) EXCEPT !.held = w.held, !.ready = w.ready] :
        w \in {x \in polls : x.pc = "height"}}

\* rest: the calls and polls: the polls that go on.
SetState(rest, polls, started, p, s, h) ==
    LET rendered == <<p, s, h>> # <<phase, session, held>>
        submits  == rendered /\ p = "activating" /\ s # None /\ h # None /\ ~started
    IN  /\ phase' = p
        /\ session' = s
        /\ held' = h
        /\ submitStarted' = (started \/ submits)
        /\ calls' = rest
             \cup (IF submits THEN {[NewCall("submit", "height", None, s.attempt, None) EXCEPT
                                       !.held = h, !.before = s.balances]} ELSE {})
             \cup (IF rendered THEN Orphaned(polls) ELSE {})
        /\ watch' = IF rendered THEN WatchOf(p, s, h) ELSE watch

\* A continuation that sets the phase only.
SetPhase(rest, polls, p) == SetState(rest, polls, submitStarted, p, session, held)

\* A step of a call that sets no state.
Proceed(rest) ==
    /\ calls' = rest
    /\ UNCHANGED <<phase, session, held, submitStarted, watch>>

Local(c, next) == Proceed((calls \ {c}) \cup {next})

Init ==
    /\ ChainInit
    /\ phase = "ready"
    /\ wallet = None /\ session = None /\ held = None
    /\ scenario = FirstScenario
    /\ open = FALSE /\ stale = None /\ updated = None
    /\ submitStarted = FALSE
    /\ watch = {} /\ calls = {}
    /\ connects = 0
    /\ expired = {}
-------------------------------------------------------------------------------
page == <<phase, wallet, scenario, session, held, shown, submitStarted, watch, calls, connects, expired>>

ChainAdvances == BlockProduced /\ UNCHANGED page

Lands(i) == Included(i) /\ UNCHANGED page

MintRewritten(a) == Rewritten(a) /\ UNCHANGED page
-------------------------------------------------------------------------------
\* Clicks.

\* connect: without Phantom it fails at once.
ClickConnect ==
    /\ ~Busy
    /\ connects < MaxConnects
    /\ connects' = connects + 1
    /\ \/ Proceed(calls \cup {[NewCall("connect", "connect", None, None, None) EXCEPT
                                 !.sawFailed = phase = "failed"]})
       \/ wallet = None /\ SetPhase(calls, watch, "failed")
    /\ UNCHANGED <<chain, sent, wallet, scenario, shown, expired>>

\* The phase it looks at is the one of the click.
ConnectAnswered(c) ==
    /\ c.pc = "connect"
    /\ wallet' \in Wallets
    /\ SetPhase(calls \ {c}, watch, IF c.sawFailed THEN "ready" ELSE phase)
    /\ UNCHANGED <<chain, sent, scenario, shown, connects, expired>>

\* An attempt that no call, state, report or transaction refers to.
Unused(a) ==
    /\ \A c \in calls : c.attempt # a /\ (c.kind \in {"submit", "poll"} => c.held.attempt # a)
    /\ \A x \in ({session, held} \ {None}) \cup expired : x.attempt # a
    /\ \A i \in DOMAIN sent : sent[i].attempt # a

\* The selector and "Random event": any scenario of the catalog, while no session
\* exists and the page is not busy.
SelectScenario ==
    /\ session = None
    /\ ~Busy
    /\ scenario' \in Scenarios \ {scenario}
    /\ UNCHANGED <<chain, sent, phase, wallet, session, held, shown, submitStarted, watch,
                   calls, connects, expired>>

\* startAttempt: the scenario of the click stays with the attempt.
StartAttempt == [scenario |-> scenario, T |-> None]

\* prepare draws the seed of a new mint.
ClickPrepare ==
    /\ phase \in {"ready", "armed"}
    /\ wallet # None
    /\ session = None
    /\ \E a \in Attempts :
         /\ Unused(a) /\ \A b \in 1 .. a - 1 : ~Unused(b)
         /\ SetPhase(calls \cup {NewCall("prepare", "clock", wallet, a, StartAttempt)}, watch, "preparing")
    /\ UNCHANGED <<chain, sent, wallet, scenario, shown, connects, expired>>

\* Authorize is offered; with bytes already held the click does nothing.
ClickAuthorize ==
    /\ phase = "armed"
    /\ open
    /\ wallet # None
    /\ session # None
    /\ held = None
    /\ SetPhase(calls \cup {NewCall("authorize", "snapshot", wallet, session.attempt, session.action)},
                watch, "signing")
    /\ UNCHANGED <<chain, sent, wallet, scenario, shown, connects, expired>>

ClickConfirm ==
    /\ phase = "protected"
    /\ stale # None
    /\ wallet # None
    /\ session # None
    /\ SetPhase(calls \cup {NewCall("confirm", "before", wallet, session.attempt, session.action)},
                watch, "updating")
    /\ UNCHANGED <<chain, sent, wallet, scenario, shown, connects, expired>>

\* "Start a new attempt": nothing that is in flight is stopped.
ClickReset ==
    /\ phase \in {"missed", "elapsed", "expired", "failed"}
    /\ SetState(calls, watch, FALSE, "ready", None, None)
    /\ open' = FALSE /\ stale' = None /\ updated' = None
    /\ UNCHANGED <<chain, sent, wallet, scenario, connects, expired>>
-------------------------------------------------------------------------------
\* Steps of a call, one per await.

others == <<chain, sent, wallet, scenario, shown, connects, expired>>

\* An RPC read fails, the environment is not the reviewed one, or the user
\* refuses: the catch of the call.
CallFails(c) ==
    /\ IF c.kind \in {"connect", "poll"} THEN Proceed(calls \ {c})
       ELSE SetPhase(calls \ {c}, watch, "failed")
    /\ UNCHANGED others

\* prepareLiveSession: the Clock that T is counted from.
ReadClock(c) ==
    /\ c.pc = "clock"
    /\ Local(c, [c EXCEPT !.pc = "blockhash", !.action.T = ActivationTimestamp(clock)])
    /\ UNCHANGED others

\* confirmUpdated: the balances before.
ReadBefore(c) ==
    /\ c.pc = "before"
    /\ Local(c, [c EXCEPT !.pc = "snapshot", !.before = balances[c.attempt]])
    /\ UNCHANGED others

\* authorizePending and authorizeUpdated: the snapshot the payload is built from,
\* and again before the wallet is asked.
ReadSnapshot(c) ==
    /\ c.pc \in {"snapshot", "again"}
    /\ LET snapshot == SnapshotOf(c.attempt)
           next == IF c.pc = "again" THEN [c EXCEPT !.pc = "sign"]
                   ELSE [c EXCEPT !.pc = "blockhash", !.snapshot = snapshot]
       IN  \/ /\ c.kind = "authorize"
              /\ IF AuthorizeDecision(c.action, snapshot) = "sign" THEN Local(c, next)
                 ELSE SetPhase(calls \ {c}, watch, "missed")
           \/ /\ c.kind = "confirm"
              /\ IF ReviewDecision(c.action, snapshot) = "ready" THEN Local(c, next)
                 ELSE SetPhase(calls \ {c}, watch, "failed")
    /\ UNCHANGED others

\* getLatestBlockhash.  The bound leaves room for the blockhash to expire.
ReadBlockhash(c) ==
    /\ c.pc = "blockhash"
    /\ height + BlockhashLife < MaxHeight
    /\ Local(c, [c EXCEPT !.pc = "height", !.lastValid = height + BlockhashLife])
    /\ UNCHANGED others

\* The height before the wallet is asked.
ReadHeight(c) ==
    /\ c.pc = "height"
    /\ c.kind \in {"prepare", "authorize", "confirm"}
    /\ IF height > c.lastValid
         THEN SetPhase(calls \ {c}, watch, IF c.kind = "authorize" THEN "missed" ELSE "failed")
         ELSE Local(c, [c EXCEPT !.pc = IF c.kind = "prepare" THEN "sign" ELSE "again"])
    /\ UNCHANGED others

Expectation(c) == ExpectationFromSnapshot(c.snapshot.state, c.snapshot.now, ZeroWindow)

\* signTransaction only signs; the wallet may prepend compute-budget
\* instructions, which move the guard.
WalletSigns(c) ==
    /\ c.pc = "sign"
    /\ c.kind = "authorize"
    /\ \E prefix \in 0 .. MaxPrefix :
         Local(c, [c EXCEPT !.pc = "afterSign", !.prefix = prefix])
    /\ UNCHANGED others

\* signAndSendTransaction also submits, and may report a failure after it has.
WalletSends(c) ==
    /\ c.pc = "sign"
    /\ c.kind \in {"prepare", "confirm"}
    /\ Broadcast(IF c.kind = "prepare"
           THEN DemoTransaction(c.kind, c.attempt, PrepareSessionInstructions(c.action), c.wallet,
                                c.lastValid, 0, None, None)
           ELSE DemoTransaction(c.kind, c.attempt, <<>>, c.wallet, c.lastValid, 0,
                                Expectation(c), c.action.scenario))
    /\ \/ Local(c, [c EXCEPT !.pc = "status", !.tx = Len(sent) + 1])
       \/ SetPhase(calls \ {c}, watch, "failed")
    /\ UNCHANGED <<chain, wallet, scenario, shown, connects, expired>>

\* The read after the signature, verifyWalletSignedTransaction and seal.
CheckAfterSign(c) ==
    /\ c.pc = "afterSign"
    /\ IF PendingReturnDecision(c.action, SnapshotOf(c.attempt)) = "hold"
           THEN SetState(calls \ {c}, watch, submitStarted, "locked", session,
                         Seal(c, Expectation(c)))
           ELSE SetPhase(calls \ {c}, watch, "elapsed")
    /\ UNCHANGED others

\* StaleAuthorizationExpired of the submission, or the same phase set by a poll:
\* the held bytes can no longer land.
ReportExpired(rest, polls, h, by) ==
    /\ SetPhase(rest, polls, "expired")
    /\ expired' = expired \cup {[attempt |-> h.attempt, by |-> by]}
    /\ UNCHANGED <<chain, sent, wallet, scenario, shown, connects>>

\* submitHeld: the height first.
SubmitHeight(c) ==
    /\ c.pc = "height"
    /\ c.kind = "submit"
    /\ IF height > c.held.lastValid THEN ReportExpired(calls \ {c}, watch, c.held, "submit")
       ELSE Local(c, [c EXCEPT !.pc = "send"]) /\ UNCHANGED others

\* sendTransaction takes the bytes, or fails after it has passed them on.
SendHeld(c) ==
    /\ c.pc = "send"
    /\ LET h == c.held
       IN  Broadcast(DemoTransaction("authorize", h.attempt, <<>>, h.wallet, h.lastValid,
                                     h.guardInstructionIndex, h.expectation, None))
    /\ \/ Local(c, [c EXCEPT !.pc = "status", !.tx = Len(sent) + 1])
       \/ SetPhase(calls \ {c}, watch, "failed")
    /\ UNCHANGED <<chain, wallet, scenario, shown, connects, expired>>

\* sendTransaction does not know the blockhash any more.
SendRefused(c) ==
    /\ c.pc = "send"
    /\ height > c.held.lastValid
    /\ ReportExpired(calls \ {c}, watch, c.held, "submit")

\* Faulty variant: a held submission is given up when its blockhash has run out.
ReadStatusOrExpired(c) ==
    /\ c.pc = "status"
    /\ \/ sent[c.tx].outcome # None /\ Local(c, [c EXCEPT !.pc = "metadata"]) /\ UNCHANGED others
       \/ /\ c.kind = "submit"
          /\ height > c.held.lastValid
          /\ ReportExpired(calls \ {c}, watch, c.held, "submit")

\* confirmSignature: status reads until it is confirmed or up to a limit.
ReadStatus(c) ==
    /\ c.pc = "status"
    /\ \/ sent[c.tx].outcome # None /\ Local(c, [c EXCEPT !.pc = "metadata"])
       \/ LET polls == c.polls + 1
          IN  Local(c, [c EXCEPT !.polls = polls,
                          !.pc = IF polls < MaxPolls THEN "status" ELSE "metadata"])
    /\ UNCHANGED others

\* The transaction, or null.  The stale signature is shown either way.
ReadMetadata(c) ==
    /\ c.pc = "metadata"
    /\ \/ /\ sent[c.tx].outcome # None
          /\ IF c.kind = "prepare" /\ sent[c.tx].outcome # "Executed"
                THEN SetPhase(calls \ {c}, watch, "failed")
                ELSE Local(c, [c EXCEPT !.pc = IF c.kind = "prepare" THEN "verify" ELSE "after"])
       \/ SetPhase(calls \ {c}, watch, "failed")
    /\ stale' = IF c.kind = "submit" THEN c.tx ELSE stale
    /\ UNCHANGED <<chain, sent, wallet, scenario, open, updated, connects, expired>>

\* prepareLiveSession: the mint account and the snapshot of the mint.
VerifyMint(c) ==
    /\ c.pc = "verify"
    /\ IF AuthorizeDecision(c.action, SnapshotOf(c.attempt)) = "mismatch"
         THEN SetPhase(calls \ {c}, watch, "failed")
         ELSE Local(c, [c EXCEPT !.pc = "balances"])
    /\ UNCHANGED others

ArmSession(c) ==
    /\ c.pc = "balances"
    /\ SetState(calls \ {c}, watch, submitStarted, "armed",
                [attempt |-> c.attempt, action |-> c.action, balances |-> balances[c.attempt]], held)
    /\ UNCHANGED others

\* The page claims protection.
ClaimStale(c) ==
    /\ c.pc = "after"
    /\ c.kind = "submit"
    /\ SetPhase(calls \ {c}, watch,
                IF AcceptActivationRejection(sent[c.tx], c.held.guardInstructionIndex,
                                             c.before, balances[c.attempt])
                  THEN "protected" ELSE "failed")
    /\ UNCHANGED others

\* The page claims the updated transfer.
ClaimUpdated(c) ==
    /\ c.pc = "after"
    /\ c.kind = "confirm"
    /\ LET accepted == AcceptUpdatedExecution(sent[c.tx], c.before, balances[c.attempt])
       IN  /\ SetPhase(calls \ {c}, watch, IF accepted THEN "executed" ELSE "failed")
           /\ updated' = IF accepted THEN c.tx ELSE updated
    /\ UNCHANGED <<chain, sent, wallet, scenario, open, stale, connects, expired>>
-------------------------------------------------------------------------------
\* The polling effects.

Rewatch(w) == watch' = {w} /\ UNCHANGED <<phase, session, held, submitStarted, calls>>

\* Armed: until Authorize is offered.
WatchClock(w) ==
    /\ w.pc = "clock"
    /\ open' = DemoAuthorizationOpen(w.T, clock)
    /\ watch' = IF open' THEN {} ELSE {w}
    /\ UNCHANGED <<chain, sent, phase, wallet, scenario, session, held, stale, updated,
                   submitStarted, calls, connects, expired>>

\* Locked: the snapshot, and then the block height.
WatchSnapshot(w) ==
    /\ w.pc = "snapshot"
    /\ Rewatch([w EXCEPT !.pc = "height",
                   !.ready = SubmissionPermitted(SnapshotOf(w.attempt), w.held.expectation)])
    /\ UNCHANGED others

WatchHeight(w) ==
    /\ w.pc = "height"
    /\ CASE HeldWaitDecision(height, w.held.lastValid, w.ready) = "expired" ->
               ReportExpired(calls, {}, w.held, "poll")
         [] HeldWaitDecision(height, w.held.lastValid, w.ready) = "submit" ->
               SetPhase(calls, {}, "activating") /\ UNCHANGED others
         [] OTHER -> Rewatch([w EXCEPT !.pc = "snapshot", !.ready = FALSE]) /\ UNCHANGED others

WatchFails == watch # {} /\ SetPhase(calls, {}, "failed") /\ UNCHANGED others

\* The same continuation of a poll that was cancelled while it waited.
OrphanHeight(c) ==
    /\ c.kind = "poll"
    /\ CASE HeldWaitDecision(height, c.held.lastValid, c.ready) = "expired" ->
               ReportExpired(calls \ {c}, watch, c.held, "poll")
         [] HeldWaitDecision(height, c.held.lastValid, c.ready) = "submit" ->
               SetPhase(calls \ {c}, watch, "activating") /\ UNCHANGED others
         [] OTHER -> Proceed(calls \ {c}) /\ UNCHANGED others
-------------------------------------------------------------------------------
Answers(c) ==
    \/ ReadClock(c) \/ ReadBefore(c) \/ ReadSnapshot(c) \/ ReadBlockhash(c) \/ ReadHeight(c)
    \/ CheckAfterSign(c) \/ SubmitHeight(c) \/ SendHeld(c) \/ SendRefused(c)
    \/ ReadStatus(c) \/ ReadMetadata(c) \/ VerifyMint(c) \/ ArmSession(c)
    \/ ClaimStale(c) \/ ClaimUpdated(c) \/ OrphanHeight(c)

Watches == \E w \in watch : WatchClock(w) \/ WatchSnapshot(w) \/ WatchHeight(w)

Next ==
    \/ ChainAdvances
    \/ \E i \in DOMAIN sent : Lands(i)
    \/ \E a \in Attempts : MintRewritten(a)
    \/ SelectScenario
    \/ ClickConnect \/ ClickPrepare \/ ClickAuthorize \/ ClickConfirm \/ ClickReset
    \/ \E c \in calls : Answers(c) \/ CallFails(c)
    \/ \E c \in calls : ConnectAnswered(c) \/ WalletSigns(c) \/ WalletSends(c)
    \/ Watches
    \/ WatchFails

Spec == Init /\ [][Next]_vars

\* Blocks are produced, the timers of the page fire and its RPC calls return;
\* nothing is assumed of the wallet, the user and the inclusion of transactions.
FairSpec ==
    /\ Spec
    /\ WF_vars(ChainAdvances)
    /\ WF_vars(Watches)
    /\ WF_vars(\E c \in calls : Answers(c))
-------------------------------------------------------------------------------
\* A transfer the page had signed executes only at the multiplier it was built
\* for: the one before the action for the held bytes, the one the attempt's own
\* scenario brings for the updated transfer, whatever is selected meanwhile.
ExecutesAsReviewed ==
    \A i \in DOMAIN sent :
        sent[i].outcome = "Executed" =>
            CASE sent[i].kind = "authorize" -> sent[i].multiplier = InitialMultiplier
              [] sent[i].kind = "confirm"   -> sent[i].multiplier = sent[i].note
              [] OTHER                      -> TRUE

\* submitStarted and the effects, however attempts overlap: the held bytes of an
\* attempt are submitted at most once, and never when their submission reports
\* them as expired.  Polls that outlive their render, late answers, resets and the
\* bytes of another attempt on the page cannot send them again.
HeldIsSubmittedOnce ==
    \A a \in Attempts :
        /\ \A i, j \in Transactions("authorize", a) : i = j
        /\ [attempt |-> a, by |-> "submit"] \in expired => Transactions("authorize", a) = {}

HeldSubmissions == {i \in DOMAIN sent : sent[i].kind = "authorize"}

\* The result panels, however attempts overlap: "Protected by StateGuard" is shown
\* only after the guard has refused held bytes of this page because of the
\* activation, and links to a submission of held bytes; "Executed" links to a
\* transaction that executed.
ClaimsAreTrue ==
    /\ phase = "protected" =>
         \E i \in HeldSubmissions : sent[i].outcome = "ActivationPhaseChanged"
    /\ stale # None => stale \in HeldSubmissions
    /\ phase = "executed" => updated # None /\ sent[updated].outcome = "Executed"

\* STALE_AUTHORIZATION_EXPIRED_MESSAGE, "The signed authorization expired before
\* Solana could land it" (devnet-public.ts:177): held bytes that were reported
\* as expired have not landed.
ExpiredNeverLanded ==
    \A e \in expired : \A i \in Transactions("authorize", e.attempt) : sent[i].outcome = None

\* The page does not stay at "Waiting for on-chain activation": the activation,
\* the end of the blockhash or an error ends the wait.
HeldIsResolved == (phase = "locked" /\ session # None) ~> phase # "locked"
===============================================================================
