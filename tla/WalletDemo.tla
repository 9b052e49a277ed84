------------------------------ MODULE WalletDemo ------------------------------
(***************************************************************************)
(* The devnet wallet demo (apps/devnet-wallet-demo): a page that arms a      *)
(* corporate action on a mint of its own, has the wallet sign a protected    *)
(* transfer before the activation, holds the signed bytes until the action   *)
(* is active, submits them to see the guard refuse them, and then has a      *)
(* fresh transfer signed and executed.                                       *)
(*                                                                           *)
(* The page is one asynchronous flow at a time (withBusy), cut at every      *)
(* await; between two of its steps the chain moves on, the wallet answers,   *)
(* transactions land or are lost, the mint is rewritten elsewhere, and a     *)
(* connection or disconnection that was started earlier completes.  Only the *)
(* clicks look at the busy flag, those completions do not.                   *)
(***************************************************************************)
EXTENDS DemoChain

CONSTANTS
    MaxSignLead,        \* MAX_SIGN_LEAD_SECONDS
    MaxPolls            \* rounds of a waiting loop (90 in app.ts)

\* validateActivationTiming: a prompt fits before the activation, and the bytes
\* outlive it (the margins are scaled down with the delays).
ValidateActivationTiming(delay, lead, budget) == 0 < lead /\ lead < budget /\ lead < delay

ASSUME WalletDemoConstants ==
    /\ {MaxSignLead, MaxPolls} \subseteq Nat
    /\ ValidateActivationTiming(ActivationDelay, MaxSignLead, BlockhashLife)

VARIABLES
    wallet,      \* state.provider and state.wallet
    session,     \* state.session: the attempt it belongs to
    activation,  \* per attempt: its scenario and T
    flags,       \* per attempt: held, staleAccepted, updated, proofClosed
    attempts,    \* attempts started
    flow,        \* the running flow: its local variables, and when it was signed
    pending,     \* toggleWallet calls that wait for the provider
    resettable,  \* "Start a new attempt" is shown
    results      \* what the authorize and the updated panels show

vars == <<chain, sent, wallet, session, activation, flags, attempts, flow, pending,
          resettable, results>>

page == <<wallet, session, activation, flags, attempts, pending, resettable, results>>

Idle == [kind |-> None]

Busy == flow # Idle

\* fetchGuardSnapshot: mint and Clock in one read.
Snapshot == [state |-> mint[flow.attempt], now |-> clock]

PendingSignDecision(a, snapshot) ==
    CASE snapshot.state # ScheduledState(activation[a]) -> "mismatch"
      [] OTHER ->
    CASE snapshot.now >= activation[a].T -> "missed"
      [] activation[a].T - snapshot.now > MaxSignLead -> "wait"
      [] OTHER -> "sign"

\* demo-asset.ts: the setup transaction, in the order of its instructions.
CreateDemoMintInstructions ==
    <<[op |-> "create-mint"],
      [op |-> "initialize-scaled-ui", multiplier |-> InitialMultiplier],
      [op |-> "initialize-mint"]>>

ArmCorporateActionInstruction(action) ==
    [op |-> "schedule-multiplier", multiplier |-> action.scenario, at |-> action.T]

MintToWalletInstructions ==
    <<[op |-> "create-ata", token |-> "source"],
      [op |-> "mint-to", token |-> "source", amount |-> DemoMintAmount]>>

CreateDestinationAtaInstruction == [op |-> "create-ata", token |-> "destination"]

PrepareSessionInstructions(action) ==
    CreateDemoMintInstructions \o <<ArmCorporateActionInstruction(action)>>
        \o MintToWalletInstructions \o <<CreateDestinationAtaInstruction>>

\* confirmedSetupResult
ConfirmedSetupResult(tx, after) ==
    /\ tx.outcome = "Executed"
    /\ after = [source |-> DemoMintAmount, destination |-> 0]

Init ==
    /\ ChainInit
    /\ wallet = None
    /\ session = None
    /\ activation = [a \in Attempts |-> None]
    /\ flags = [a \in Attempts |-> {}]
    /\ attempts = 0
    /\ flow = Idle
    /\ pending = {}
    /\ resettable = FALSE
    /\ results = [authorize |-> None, confirm |-> None]
-------------------------------------------------------------------------------
\* The chain.

ChainAdvances == BlockProduced /\ UNCHANGED <<flow, page>>

Lands(i) == Included(i) /\ UNCHANGED <<flow, page>>

MintRewritten(a) == Rewritten(a) /\ UNCHANGED <<flow, page>>
-------------------------------------------------------------------------------
\* The wallet connection: toggleWallet waits for the provider without being busy.

ClickConnect ==
    /\ ~Busy
    /\ wallet = None
    /\ pending' = pending \cup {"connect"}
    /\ UNCHANGED <<chain, sent, flow, wallet, session, activation, flags,
                   attempts, resettable, results>>

Connected ==
    /\ "connect" \in pending
    /\ pending' = pending \ {"connect"}
    /\ wallet' \in Wallets \cup {wallet}   \* a refusal leaves it as it was
    /\ UNCHANGED <<chain, sent, flow, session, activation, flags, attempts,
                   resettable, results>>

ClickDisconnect ==
    /\ ~Busy
    /\ wallet # None
    /\ pending' = pending \cup {"disconnect"}
    /\ UNCHANGED <<chain, sent, flow, wallet, session, activation, flags,
                   attempts, resettable, results>>

Disconnected ==
    /\ "disconnect" \in pending
    /\ pending' = pending \ {"disconnect"}
    /\ wallet' = None
    /\ session' = None
    /\ UNCHANGED <<chain, sent, flow, activation, flags, attempts, resettable,
                   results>>

\* resetAttempt, once its button has been shown.
ClickReset ==
    /\ ~Busy
    /\ resettable
    /\ session' = None
    /\ resettable' = FALSE
    /\ results' = [authorize |-> None, confirm |-> None]
    /\ UNCHANGED <<chain, sent, flow, wallet, activation, flags, attempts, pending>>
-------------------------------------------------------------------------------
\* Starting a flow.  A flow keeps the wallet and the session it started with.

StartFlow(kind, a, pc) ==
    flow' = [kind |-> kind, attempt |-> a, wallet |-> wallet, pc |-> pc, polls |-> 0,
             snapshot |-> None, lastValid |-> None, expectation |-> None,
             before |-> None, tx |-> None, prefix |-> 0, signedAt |-> None]

\* prepareDemo up to the chain time its activation is counted from.  The selector
\* is locked from the click on, so scenarioForAttempt finds the same scenario.
ClickPrepare ==
    /\ ~Busy
    /\ wallet # None
    /\ session = None
    /\ attempts < MaxAttempts
    /\ attempts' = attempts + 1
    /\ \E scenario \in Scenarios :
         activation' = [activation EXCEPT ![attempts + 1] =
                          [scenario |-> scenario, T |-> ActivationTimestamp(clock)]]
    /\ StartFlow("prepare", attempts + 1, "blockhash")
    /\ UNCHANGED <<chain, sent, wallet, session, flags, pending, resettable, results>>

\* The authorize button is enabled.
AuthorizeEnabled == session # None /\ flags[session] \cap {"held", "proofClosed"} = {}

ClickAuthorize ==
    /\ ~Busy
    /\ wallet # None
    /\ AuthorizeEnabled
    /\ StartFlow("authorize", session, "ready")
    /\ UNCHANGED <<chain, sent, page>>

ClickConfirm ==
    /\ ~Busy
    /\ wallet # None
    /\ session # None
    /\ "staleAccepted" \in flags[session]
    /\ "updated" \notin flags[session]
    /\ StartFlow("confirm", session, "ready")
    /\ UNCHANGED <<chain, sent, page>>
-------------------------------------------------------------------------------
\* Steps of the running flow, one per await.

At(pc) == Busy /\ flow.pc = pc

Goto(pc) == flow' = [flow EXCEPT !.pc = pc]

Kind(kinds) == flow.kind \in kinds

\* The flow ends and its panel shows a result.
Finish(result) ==
    /\ flow' = Idle
    /\ results' = IF flow.kind = "prepare" THEN results
                  ELSE [results EXCEPT ![flow.kind] = result]

\* It ends in an error: withBusy's catch, or authorize's own.
Abort(result) ==
    /\ Finish(result)
    /\ resettable' = TRUE
    /\ UNCHANGED <<chain, wallet, session, activation, flags, attempts, pending>>

\* Any RPC read fails, or the cluster or the deployment is not the reviewed one.
RpcFails ==
    /\ Busy
    /\ flow.pc \notin {"sign", "send"}
    /\ Abort("FAILED")
    /\ UNCHANGED sent

\* Only the mint's state: what the waiting loops see and decide.
Decision(snapshot) ==
    IF flow.kind = "authorize" THEN PendingSignDecision(flow.attempt, snapshot)
    ELSE ActivatedReviewDecision(activation[flow.attempt], snapshot)

\* waitForPendingSign and waitForActivatedReview.
PollReady ==
    /\ At("ready")
    /\ UNCHANGED sent
    /\ LET decision == Decision(Snapshot)
       IN  \/ /\ decision \in {"sign", "ready"}
              /\ flow' = [flow EXCEPT !.pc = "before", !.snapshot = Snapshot, !.polls = 0]
              /\ UNCHANGED <<chain, page>>
           \/ /\ decision = "wait"
              /\ flow.polls + 1 < MaxPolls
              /\ flow' = [flow EXCEPT !.polls = @ + 1]
              /\ results' = [results EXCEPT ![flow.kind] = "PENDING"]
              /\ UNCHANGED <<chain, wallet, session, activation, flags, attempts,
                             pending, resettable>>
           \/ /\ \/ decision = "wait" /\ flow.polls + 1 = MaxPolls
                 \/ decision \in {"missed", "mismatch"}
              /\ Abort("FAILED")

ReadBefore ==
    /\ At("before")
    /\ flow' = [flow EXCEPT !.pc = "blockhash", !.before = balances[flow.attempt]]
    /\ UNCHANGED <<chain, sent, page>>

\* getLatestBlockhash.  The bound leaves room for the blockhash to expire.
ReadBlockhash ==
    /\ At("blockhash")
    /\ height + BlockhashLife < MaxHeight
    /\ flow' = [flow EXCEPT !.lastValid = height + BlockhashLife,
                            !.pc = IF Kind({"authorize"}) THEN "snapshot" ELSE "height"]
    /\ UNCHANGED <<chain, sent, page>>

\* signPendingProtectedTransfer: the snapshot the payload is built from.
ReadSnapshot ==
    /\ At("snapshot")
    /\ UNCHANGED sent
    /\ IF Decision(Snapshot) = "sign"
           THEN /\ flow' = [flow EXCEPT !.pc = "height", !.snapshot = Snapshot]
                /\ UNCHANGED <<chain, page>>
           ELSE Abort("FAILED")

\* assertBlockhashActive before the signature.
ReadSigningHeight ==
    /\ At("height")
    /\ UNCHANGED sent
    /\ IF height > flow.lastValid THEN Abort("FAILED")
       ELSE /\ Goto(IF Kind({"prepare"}) THEN "sign" ELSE "again")
            /\ UNCHANGED <<chain, page>>

\* The last look at the chain before the wallet is asked.
LookAgain ==
    /\ At("again")
    /\ UNCHANGED sent
    /\ IF /\ Decision(Snapshot) \in {"sign", "ready"}
          /\ Kind({"authorize"}) => Snapshot.state = flow.snapshot.state
           THEN /\ flow' = [flow EXCEPT !.pc = "sign",
                     !.expectation = ExpectationFromSnapshot(flow.snapshot.state,
                                                             flow.snapshot.now, ZeroWindow)]
                /\ results' = [results EXCEPT ![flow.kind] = "PENDING"]
                /\ UNCHANGED <<chain, wallet, session, activation, flags,
                               attempts, pending, resettable>>
           ELSE Abort("FAILED")

\* What the network is given.
Transaction ==
    DemoTransaction(flow.kind, flow.attempt,
                    IF Kind({"prepare"}) THEN PrepareSessionInstructions(activation[flow.attempt])
                    ELSE <<>>,
                    flow.wallet, flow.lastValid, flow.prefix, flow.expectation, flow.signedAt)

Submit == Broadcast(Transaction)

\* Phantom signs.  Held bytes stay with the page, and may have got compute-budget
\* instructions in front of the guard; others are sent by Phantom.
WalletSigns ==
    /\ At("sign")
    /\ \/ /\ Kind({"authorize"})
          /\ \E prefix \in 0 .. MaxPrefix :
               flow' = [flow EXCEPT !.pc = "afterSign", !.signedAt = clock, !.prefix = prefix]
          /\ UNCHANGED sent
       \/ /\ Kind({"prepare", "confirm"})
          /\ Submit
          /\ flow' = [flow EXCEPT !.pc = "status", !.tx = Len(sent) + 1]
    /\ UNCHANGED <<chain, page>>

\* The user refuses, Phantom fails, or it fails after it has sent.
WalletDoesNotSign ==
    /\ At("sign")
    /\ \/ Abort("CANCELLED") /\ UNCHANGED sent
       \/ Abort("FAILED") /\ UNCHANGED sent
       \/ Kind({"prepare", "confirm"}) /\ Submit /\ Abort("FAILED")

\* pendingAuthorizationAfterSignature
StillOpen(a, snapshot) == PendingSignDecision(a, snapshot) \in {"sign", "wait"}

\* assertPendingAuthorizationStillOpen, verifyWalletSignedTransaction, the seal.
CheckAfterSign ==
    /\ At("afterSign")
    /\ UNCHANGED <<chain, sent, wallet, session, activation, attempts, pending>>
    /\ \/ /\ StillOpen(flow.attempt, Snapshot)
          /\ Goto("holdSnapshot")
          /\ flags' = [flags EXCEPT ![flow.attempt] = @ \cup {"held"}]
          /\ UNCHANGED <<results, resettable>>
       \/ /\ StillOpen(flow.attempt, Snapshot)
          /\ Finish("FAILED")   \* the wallet changed the transaction
          /\ resettable' = TRUE
          /\ UNCHANGED flags
       \/ /\ ~StillOpen(flow.attempt, Snapshot)
          /\ Finish("AUTHORIZATION_WINDOW_ELAPSED")
          /\ resettable' = TRUE
          /\ flags' = IF session = None THEN flags
                      ELSE [flags EXCEPT ![session] = @ \cup {"proofClosed"}]

\* heldWaitDecision
HeldWaitDecision(blockHeight, lastValid, ready) ==
    IF blockHeight > lastValid THEN "expired" ELSE IF ready THEN "submit" ELSE "wait"

\* waitForActivation: the snapshot, then the height.
HoldSnapshot ==
    /\ At("holdSnapshot")
    /\ flow' = [flow EXCEPT !.pc = "holdHeight", !.snapshot = Snapshot]
    /\ UNCHANGED <<chain, sent, page>>

HoldHeight ==
    /\ At("holdHeight")
    /\ UNCHANGED sent
    /\ LET decision == HeldWaitDecision(height, flow.lastValid,
                          ChainReadyForStaleSubmit(flow.snapshot, flow.expectation))
       IN  \/ decision = "expired" /\ Abort("STALE_AUTHORIZATION_EXPIRED")
           \/ decision = "submit" /\ Goto("submitHeight") /\ UNCHANGED <<chain, page>>
           \/ /\ decision = "wait"
              /\ flow.polls + 1 < MaxPolls
              /\ flow' = [flow EXCEPT !.pc = "holdSnapshot", !.polls = @ + 1]
              /\ UNCHANGED <<chain, page>>
           \/ /\ decision = "wait"
              /\ flow.polls + 1 = MaxPolls
              /\ Abort("FAILED")

\* prepareHeldSubmission
SubmitHeight ==
    /\ At("submitHeight")
    /\ UNCHANGED sent
    /\ IF height > flow.lastValid THEN Abort("STALE_AUTHORIZATION_EXPIRED")
       ELSE Goto("send") /\ UNCHANGED <<chain, page>>

\* sendTransaction: taken, refused as expired, or failed with the bytes passed
\* on or not.
Send ==
    /\ At("send")
    /\ \/ /\ Submit
          /\ flow' = [flow EXCEPT !.pc = "status", !.tx = Len(sent) + 1]
          /\ UNCHANGED <<chain, page>>
       \/ /\ height > flow.lastValid
          /\ Abort("STALE_AUTHORIZATION_EXPIRED")
          /\ UNCHANGED sent
       \/ Abort("FAILED") /\ UNCHANGED sent
       \/ Submit /\ Abort("FAILED")

\* getSignatureStatuses: a transaction that landed may not be confirmed yet.
PollStatus ==
    /\ At("status")
    /\ \/ sent[flow.tx].outcome # None /\ Goto("metadata")
       \/ Goto("pollHeight")
    /\ UNCHANGED <<chain, sent, page>>

\* Faulty variant: the confirmation loop does not look at the height.
BlockhashNeverExpires(lastValid) == FALSE

BlockhashExpired(lastValid) == height > lastValid

PollHeight ==
    /\ At("pollHeight")
    /\ UNCHANGED sent
    /\ IF BlockhashExpired(flow.lastValid)
           THEN Abort(IF Kind({"authorize"}) THEN "STALE_AUTHORIZATION_EXPIRED" ELSE "FAILED")
           ELSE Goto("status") /\ UNCHANGED <<chain, page>>

\* getTransaction; a setup that failed on chain ends here.
ReadMetadata ==
    /\ At("metadata")
    /\ UNCHANGED sent
    /\ IF Kind({"prepare"}) /\ sent[flow.tx].outcome # "Executed" THEN Abort("FAILED")
       ELSE /\ Goto(IF Kind({"prepare"}) THEN "verify" ELSE "after")
            /\ UNCHANGED <<chain, page>>

\* verifyScheduledDemoMint.
VerifyMint ==
    /\ At("verify")
    /\ UNCHANGED sent
    /\ IF mint[flow.attempt] # ScheduledState(activation[flow.attempt]) THEN Abort("FAILED")
       ELSE Goto("setup") /\ UNCHANGED <<chain, page>>

\* readTokenBalances
ReadSetupBalances ==
    /\ At("setup")
    /\ flow' = [flow EXCEPT !.pc = "arm", !.before = balances[flow.attempt]]
    /\ UNCHANGED <<chain, sent, page>>

\* The last snapshot of prepareDemo, and the new session: state.session is set
\* whether or not the wallet is still connected, and stays when the balances are
\* not the expected ones.
ArmSession ==
    /\ At("arm")
    /\ UNCHANGED sent
    /\ IF PendingSignDecision(flow.attempt, Snapshot) \in {"missed", "mismatch"}
           THEN Abort("FAILED")
           ELSE /\ flow' = Idle
                /\ session' = flow.attempt
                /\ resettable' = (resettable \/ ~ConfirmedSetupResult(sent[flow.tx], flow.before))
                /\ UNCHANGED <<chain, wallet, activation, flags, attempts, pending, results>>

\* The balances afterwards, and the claim the page makes.
ClaimStale ==
    /\ At("after")
    /\ Kind({"authorize"})
    /\ UNCHANGED sent
    /\ IF ConfirmedActivationRejection(sent[flow.tx], flow.prefix, flow.before,
                                       balances[flow.attempt])
           THEN /\ Finish("CONFIRMED_ACTIVATION_REJECTION")
                /\ flags' = [flags EXCEPT ![flow.attempt] = @ \cup {"staleAccepted"}]
                /\ UNCHANGED <<chain, wallet, session, activation, attempts, pending,
                               resettable>>
           ELSE Abort("FAILED")

ClaimUpdated ==
    /\ At("after")
    /\ Kind({"confirm"})
    /\ UNCHANGED sent
    /\ IF ConfirmedUpdatedExecution(sent[flow.tx], flow.before, balances[flow.attempt])
           THEN /\ Finish("CONFIRMED_UPDATED_EXECUTION")
                /\ flags' = [flags EXCEPT ![flow.attempt] = @ \cup {"updated"}]
                /\ resettable' = TRUE
                /\ UNCHANGED <<chain, wallet, session, activation, attempts, pending>>
           ELSE Abort("FAILED")

\* Everything the page does by itself: its awaits settle one after the other.
PageStep ==
    \/ PollReady \/ ReadBefore \/ ReadBlockhash \/ ReadSnapshot \/ ReadSigningHeight
    \/ LookAgain \/ CheckAfterSign \/ HoldSnapshot \/ HoldHeight \/ SubmitHeight \/ Send
    \/ PollStatus \/ PollHeight \/ ReadMetadata \/ VerifyMint \/ ReadSetupBalances \/ ArmSession
    \/ ClaimStale \/ ClaimUpdated

Click ==
    \/ ClickConnect \/ ClickDisconnect \/ ClickReset
    \/ ClickPrepare \/ ClickAuthorize \/ ClickConfirm

Next ==
    \/ ChainAdvances
    \/ \E i \in DOMAIN sent : Lands(i)
    \/ \E a \in Attempts : MintRewritten(a)
    \/ Connected
    \/ Disconnected
    \/ WalletSigns
    \/ WalletDoesNotSign
    \/ RpcFails
    \/ Click
    \/ PageStep

Spec == Init /\ [][Next]_vars

\* The event loop runs what is ready, and blocks are produced.  Nothing is
\* assumed of the user, the wallet, or the fate of a transaction.
FairSpec == Spec /\ WF_vars(PageStep) /\ WF_vars(ChainAdvances)
-------------------------------------------------------------------------------
\* signPendingProtectedTransfer and submitHeldAuthorization: however long the wallet
\* prompt stayed open, the bytes submitted to be refused were signed before the
\* activation, and they never move a token, whatever the mint, the clock and the
\* network do once they are held.
StaleAuthorizationNeverExecutes ==
    \A i \in DOMAIN sent : sent[i].kind = "authorize" =>
        sent[i].outcome # "Executed" /\ sent[i].note < activation[sent[i].attempt].T

\* confirmedActivationRejection and confirmedUpdatedExecution: a claim on the
\* page is about a transaction of its own attempt that really ended that way,
\* and an update is claimed only after a refusal was.
ClaimsAreTrue ==
    \A a \in Attempts :
        /\ "staleAccepted" \in flags[a] =>
             \E i \in Transactions("authorize", a) : sent[i].outcome = "ActivationPhaseChanged"
        /\ "updated" \in flags[a] =>
             /\ "staleAccepted" \in flags[a]
             /\ \E i \in Transactions("confirm", a) : sent[i].outcome = "Executed"

\* waitForActivatedReview and its repetition before the signature: a transfer
\* that executes does so at the multiplier the review panel showed, and after
\* the stale one was seen refused.
ExecutesAsReviewed ==
    \A i \in DOMAIN sent : (sent[i].kind # "prepare" /\ sent[i].outcome = "Executed") =>
        /\ sent[i].kind = "confirm"
        /\ sent[i].multiplier = activation[sent[i].attempt].scenario
        /\ "staleAccepted" \in flags[sent[i].attempt]

\* Once the wallet has answered, a flow ends: held bytes are submitted or
\* expire, and the confirmation loop cannot outlive the blockhash.
SignedFlowsEnd ==
    (Busy /\ flow.pc \in {"afterSign", "holdSnapshot", "status"}) ~> ~Busy

\* ui.ts, the text shown for STALE_AUTHORIZATION_EXPIRED: "The signed
\* authorization expired before Solana could land it."
ExpiredNeverLanded ==
    (results.authorize = "STALE_AUTHORIZATION_EXPIRED" /\ session # None) =>
        \A i \in Transactions("authorize", session) : sent[i].outcome = None
===============================================================================
