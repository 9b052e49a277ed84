------------------------------- MODULE DemoChain ------------------------------
(***************************************************************************)
(* The Solana devnet as the two demo pages use it: block height and Clock,   *)
(* one demo mint per attempt with a scheduled multiplier, the network that   *)
(* includes a submitted transaction while its blockhash is valid or never,   *)
(* and the guard's verdict on each guarded transfer.                         *)
(***************************************************************************)
EXTENDS GuardCheck, Sequences
LOCAL INSTANCE SequencesExt

CONSTANTS
    Wallets,            \* accounts the wallet may connect with
    InitialMultiplier,  \* the multiplier every scenario starts at
    Scenarios,          \* SCENARIO_CATALOG: the multiplier each action brings
    ActivationDelay,    \* ACTIVATION_DELAY_SECONDS
    BlockhashLife,      \* blocks a blockhash stays valid for
    DemoMintAmount,     \* DEMO_MINT_AMOUNT, in units of DEMO_TRANSFER_RAW
    MaxPrefix,          \* compute-budget instructions a wallet may prepend (2)
    RewrittenStates,    \* what a mint may be rewritten to outside the page
    ClockSteps,         \* seconds one block may take
    MaxHeight,          \* bound: blocks
    MaxAttempts,        \* bound: demo mints
    MaxSent,            \* bound: transactions submitted
    MaxRewrites,        \* bound: rewrites outside the page
    None                \* null

\* validateScenarioCatalog: every scenario brings an approved change.
ValidateScenarioCatalog(catalog) ==
    /\ catalog # {}
    /\ {InitialMultiplier} \cup catalog \subseteq Multipliers
    /\ InitialMultiplier \notin catalog

ASSUME DemoChainConstants ==
    /\ ValidateScenarioCatalog(Scenarios)
    /\ {ActivationDelay, BlockhashLife, DemoMintAmount, MaxPrefix, MaxAttempts} \subseteq Nat
    /\ ClockSteps \subseteq Nat
    /\ RewrittenStates \subseteq ProtectedState
    /\ None \notin {"Executed", "ActivationPhaseChanged"} \cup Nat

VARIABLES
    clock,     \* Clock::unix_timestamp
    height,    \* block height
    mint,      \* per attempt: the demo mint, once its setup has landed
    owner,     \* per attempt: the wallet whose setup landed
    balances,  \* per attempt: the demo tokens of the wallet and the recipient
    rewrites,  \* rewrites outside the page so far
    sent       \* transactions the network was given, in that order

chain == <<clock, height, mint, owner, balances, rewrites>>

Attempts == 1 .. MaxAttempts

ChainInit ==
    /\ clock = 0
    /\ height = 0
    /\ mint = [a \in Attempts |-> None]
    /\ owner = [a \in Attempts |-> None]
    /\ balances = [a \in Attempts |-> None]
    /\ rewrites = 0
    /\ sent = <<>>

\* The two pages use no time around the activation itself.
ZeroWindow == [beforeSecs |-> 0, afterSecs |-> 0]   \* CLOCK_CROSSING_WINDOW

ActivationTimestamp(now) == now + ActivationDelay

\* What a setup transaction is meant to leave in the mint.  The corporate action
\* of an attempt is its scenario and the time T it takes effect.
ScheduledState(action) ==
    [multiplier |-> InitialMultiplier, newMultiplier |-> action.scenario,
     effectiveTimestamp |-> action.T]

\* What the instructions of a setup transaction have made so far.
NoAccounts ==
    [created |-> FALSE, initialized |-> FALSE, state |-> None, source |-> None, destination |-> None]

\* The System, Token-2022 and associated-token programs, on one instruction of a
\* setup transaction; None once an instruction has failed.  UpdateMultiplier wants
\* an initialized mint, and a timestamp that has passed takes effect at once.
Applied(made, i) ==
    CASE made = None -> None
      [] made # None /\ i.op = "create-mint" /\ ~made.created -> [made EXCEPT !.created = TRUE]
      [] made # None /\ i.op = "initialize-scaled-ui" /\ made.created /\ ~made.initialized ->
           [made EXCEPT !.state = [multiplier |-> i.multiplier, newMultiplier |-> i.multiplier,
                                   effectiveTimestamp |-> 0]]
      [] made # None /\ i.op = "initialize-mint" /\ made.created /\ ~made.initialized ->
           [made EXCEPT !.initialized = TRUE]
      [] made # None /\ i.op = "schedule-multiplier" /\ made.initialized /\ made.state # None ->
           [made EXCEPT !.state.newMultiplier = i.multiplier, !.state.effectiveTimestamp = i.at,
                        !.state.multiplier = IF i.at <= clock THEN i.multiplier ELSE @]
      [] made # None /\ i.op = "create-ata" /\ made.initialized ->
           [made EXCEPT ![i.token] = IF @ = None THEN 0 ELSE @]
      [] made # None /\ i.op = "mint-to" /\ made.initialized /\ made[i.token] # None ->
           [made EXCEPT ![i.token] = @ + i.amount]
      [] OTHER -> None

\* A transaction is all of its instructions, in order, or nothing.
SetupResult(instructions) == FoldLeft(Applied, NoAccounts, instructions)

\* Faulty variant: the held bytes go out as soon as they are held.
ReadyOnceHeld(snapshot, expectation) == TRUE

\* chainReadyForStaleSubmit: the guard would refuse the held bytes for the one
\* reason the page wants to show.
ChainReadyForStaleSubmit(snapshot, expectation) ==
    /\ expectation.expectedPhase = "Pending"
    /\ expectation.window = ZeroWindow
    /\ CheckGuardOffline(expectation, snapshot.state, snapshot.now) = "ActivationPhaseChanged"

\* Faulty variant: any activated mint is taken for the reviewed one.
ActivatedReviewOfAnyState(action, snapshot) ==
    IF snapshot.now <= action.T THEN "wait" ELSE "ready"

\* activatedReviewDecision
ActivatedReviewDecision(action, snapshot) ==
    CASE snapshot.state # ScheduledState(action) -> "mismatch"
      [] OTHER ->
    CASE snapshot.now <= action.T -> "wait"
      [] OTHER ->
    LET expectation == ExpectationFromSnapshot(snapshot.state, snapshot.now, ZeroWindow)
    IN  IF CheckGuardOffline(expectation, snapshot.state, snapshot.now) = "Ok"
            THEN "ready" ELSE "wait"

\* parseCustomError: the instruction that failed, and its error code.
ParseCustomError(tx) ==
    IF tx.outcome = "Executed" THEN None
    ELSE [instructionIndex |-> tx.failedAt, code |-> tx.outcome]

\* The programs whose success the logs report.  The guard is invoked in every
\* guarded transfer.
Succeeded(tx) ==
    IF tx.outcome = "Executed" THEN {"EquityGuard", "Token2022"}
    ELSE IF tx.failedAt > tx.prefix THEN {"EquityGuard"} ELSE {}

\* Faulty variant: any error of the transaction proves the point.
AnyRejectionConfirms(tx, guardIndex, before, after) ==
    ParseCustomError(tx) # None /\ before = after

\* A confirmed refusal: the guard's own instruction failed, with this error, and
\* no demo token moved.
ConfirmedActivationRejection(tx, guardIndex, before, after) ==
    /\ ParseCustomError(tx) = [instructionIndex |-> guardIndex, code |-> "ActivationPhaseChanged"]
    /\ before = after
    /\ "Token2022" \notin Succeeded(tx)

\* A confirmed execution: both programs succeeded and exactly one transfer's
\* worth moved.
ConfirmedUpdatedExecution(tx, before, after) ==
    /\ tx.outcome = "Executed"
    /\ before.source - after.source = 1
    /\ after.destination - before.destination = 1
    /\ {"EquityGuard", "Token2022"} \subseteq Succeeded(tx)
-------------------------------------------------------------------------------
\* Blocks are produced; the Clock moves by whole seconds or not at all.
BlockProduced ==
    /\ height < MaxHeight
    /\ height' = height + 1
    /\ \E step \in ClockSteps : clock' = clock + step
    /\ UNCHANGED <<mint, owner, balances, rewrites, sent>>

\* The mint's authority may use it elsewhere.
Rewritten(a) ==
    /\ mint[a] # None
    /\ rewrites < MaxRewrites
    /\ rewrites' = rewrites + 1
    /\ \E state \in RewrittenStates : mint' = [mint EXCEPT ![a] = state]
    /\ UNCHANGED <<clock, height, owner, balances, sent>>

\* What the network is given, and what became of it.  note is
\* history: what a page wants remembered of it.
DemoTransaction(kind, a, setup, wallet, lastValid, prefix, expectation, note) ==
    [kind |-> kind, attempt |-> a, setup |-> setup, wallet |-> wallet,
     lastValid |-> lastValid, prefix |-> prefix, expectation |-> expectation, note |-> note,
     outcome |-> None, failedAt |-> None, multiplier |-> None]

Broadcast(tx) == Len(sent) < MaxSent /\ sent' = Append(sent, tx)

\* A guarded transfer: the guard, then the token program, which wants the
\* owner's signature and the tokens.
TransferOutcome(tx) ==
    LET a == tx.attempt
        verdict == Check(tx.expectation, mint[a], clock)
    IN  CASE verdict # "Ok"          -> <<verdict, tx.prefix>>
          [] tx.wallet # owner[a]    -> <<"OwnerMismatch", tx.prefix + 1>>
          [] balances[a].source = 0  -> <<"InsufficientFunds", tx.prefix + 1>>
          [] OTHER                   -> <<"Executed", None>>

\* A submitted transaction is included while its blockhash is valid.  A setup
\* may also fail for want of lamports.
Included(i) ==
    LET tx == sent[i]
        a  == tx.attempt
    IN  /\ tx.outcome = None
        /\ height <= tx.lastValid
        /\ \/ /\ tx.kind = "prepare"
              /\ LET made == SetupResult(tx.setup)
                 IN  /\ made # None
                     /\ mint' = [mint EXCEPT ![a] = made.state]
                     /\ balances' = [balances EXCEPT ![a] =
                                       [source |-> made.source, destination |-> made.destination]]
              /\ sent' = [sent EXCEPT ![i].outcome = "Executed"]
              /\ owner' = [owner EXCEPT ![a] = tx.wallet]
           \/ /\ tx.kind = "prepare"
              /\ sent' = [sent EXCEPT ![i].outcome = "Failed"]
              /\ UNCHANGED <<mint, owner, balances>>
           \/ /\ tx.kind # "prepare"
              /\ LET result == TransferOutcome(tx)
                 IN  /\ sent' = [sent EXCEPT ![i].outcome = result[1], ![i].failedAt = result[2],
                                             ![i].multiplier = EffectiveMultiplier(mint[a], clock)]
                     /\ balances' = IF result[1] # "Executed" THEN balances
                                    ELSE [balances EXCEPT ![a].source = @ - 1,
                                                          ![a].destination = @ + 1]
              /\ UNCHANGED <<mint, owner>>
        /\ UNCHANGED <<clock, height, rewrites>>
-------------------------------------------------------------------------------
Transactions(kind, a) == {i \in DOMAIN sent : sent[i].kind = kind /\ sent[i].attempt = a}
===============================================================================
