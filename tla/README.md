# A TLA+ verification of EquityGuard

EquityGuard protects trades of tokenized equities on Solana. A tokenized equity
is a Token-2022 mint with the ScaledUiAmount extension: its *multiplier* says how
many shares one raw token stands for, and a corporate action replaces it, at once
or at a scheduled time. A trade that was quoted under one multiplier and lands
under another settles at a price nobody agreed to. EquityGuard puts an instruction
in front of the trade that compares the mint, when the transaction executes, with
the state that was seen when it was built, and aborts the transaction if they
differ. Around that program stand a client library, an integration with Jupiter,
a library that decides between two representations of the same equity, and
several applications.

This directory models the system from its source, checks the models with TLC and
proves the central results with TLAPS. `PROJECT.json` maps every definition to the
lines it translates and lists runs, mutants, hazards, findings and theorems.

## 1. Inventory

| Part | State it keeps | Operations | What makes it correct |
|---|---|---|---|
| On-chain guard, state policy (`programs/equity_guard/src/{state,guard}.rs`) | none: reads the mint account and the Clock | `decode_protected_state`, `phase_at`, `ProtectionWindow::contains`, `check` | a transaction executes only at the multiplier it was authorized at and outside its window; a refusal has a cause |
| On-chain guard, transaction grammar (`{processor,downstream,jupiter,sysvar}.rs`) | none: reads the Instructions sysvar | commitments, `route_v2` suffix grammar, top-level check | what is accepted is what was committed, and only ever one trade of its owner |
| Instruction ABI (`instruction.rs`, `abi.ts`) | none | parse, encode | both sides agree on every field |
| Guard client (`packages/guard-client`) | none | `fetchGuardSnapshot`, `checkGuardOffline`, `sysvarView`, builders, deployment attestation, protection adapter | the client's verdicts are the program's |
| Jupiter integration (`packages/jupiter`) | none across calls, much between the awaits of one | `protectJupiterSwap`, `composeGuardedJupiterTrade`, `verifyProtectedSwap`, `reverifyGuardDeployment` | protection is never dropped silently; a quoted swap settles as quoted |
| Representation state (`packages/representation-state`) | the consumed consents, the issued and the consumed plans | `decide`, `compareQuotes`, `grantConsent`, `decideExecution`, `createExecutionPlan`, `verifyExecutionPlan`, `consumeExecutionPlan` | a reroute happens only with a live consent to its exact cost, once |
| Devnet executor (`scripts/demo/devnet-execution.ts`, `scripts/devnet/send.ts`) | a plan in hand | `executeGuardedPlan` | a plan is attempted once, whatever fails |
| Devnet tools (`runDevnetDemo` in `scripts/demo`, `scripts/devnet/{cli,scenarios}.ts`) | the two test mints, which all of them write | reset, verify, observe, plan, probe, execute; `schedule`; the scenarios safe, stale and transition | a run delivers once and as compared, a probe of a pending change is refused, a scenario shows what it is there to show |
| Devnet wallet demo (`apps/devnet-wallet-demo`) | wallet, session (held bytes, progress), what the page shows | connect, prepare, authorize and hold, submit, confirm, reset | the held authorization never executes; claims are true; no flow hangs |
| Live Devnet page of the web site (`apps/web/components/demo/live-devnet-experience.tsx`, `lib/devnet-public.ts`) | phase, wallet, session, held bytes, what it shows, two polling effects | connect, prepare, authorize, poll, submit, confirm, reset | the wait for the activation ends; what it reports of the held bytes and of the transfers is true |
| Representation adapters (`representation-state/src/{chain-observation,xstocks-adapter,ondo-adapter}.ts`) | none | classify chain evidence, weigh it with API evidence | a conflict or a stale answer never bears an execution |
| Capture decoding, change detection, timeline, correlation (`representation-state/src/{capture,events,timeline,xstocks-api,kox-correlation}.ts`) | the last observation of each mint, while a file is read | decode, detect, cut intervals and gaps, rate the evidence, correlate two sources | the timeline is what the capture says; what is called GOOD misses nothing that lasts; an order of two sources is claimed only when it was so |
| Observation tools (`scripts/observation`) | files and their manifests | snapshot, extract a window, analyse | a sealed copy is what its manifest says, whoever writes meanwhile |
| Local live demo (`apps/web/lib/{live-demo,use-live-demo}.ts` over `apps/phantom-local-feasibility/src`) | what the page shows, module-level session, stage and flags | load, buy, confirm, start over, remount | tokens move once, as confirmed; results and failures shown are true; no click hangs |
| Local coordinator (`apps/phantom-local-feasibility/server`) | armed activation, proofs, signed authorizations, evidence files | arm, simulate before signing, date the signed bytes, attest the program, record | every attestation it gives is true of the validator |
| Jupiter build client (`packages/jupiter/src/build-client.ts`) | none | request, fetch, validate | what the caller holds was validated |
| Site content, reference application, research and evidence scripts | recorded data | replays of the above | |

The parts interact in four ways: by reading the chain (mint, Clock, program
accounts, slot, block height) at moments that differ from the moment of use; by
the transaction, which carries the client's expectation and commitment to the
program; by single-use records in memory (consent, plan); and through the wallet,
which answers after any delay and may change what it signs.

The hard behaviours follow from that. Everything a client reads is stale when the
transaction lands; the multiplier changes by the passage of time alone, with every
stored byte unchanged; calls of several actors interleave at each `await`; any
read may fail between two state changes; a transaction may land although its
sender was told that it failed; and the hashes cover flags that the runtime, and
not the instruction, determines. `PROJECT.json` lists each such hazard with its
line and the property that covers it.

## 2. Modules

| Module | Models | Used by |
|---|---|---|
| `Absent` | the value that stands for an absent one | `EquityGuard`, `GuardedTransaction`, `RerouteDecision` |
| `GuardCheck` | state policy and its offline mirror, as operators | all guard models |
| `EquityGuard` | a mint, its issuer, the clock and guarded transactions: the abstract statement of what the system promises | `EquityGuardProofs`, `MCChecks` |
| `EquityGuardProofs` | theorems about the guard's promise and its offline mirror, and about the files of the observation tools | |
| `TransactionGrammar` | instructions, merged and demoted flags, commitments and the program's `route_v2` grammar | `GuardedTransaction` |
| `GuardedTransaction` | the client's own grammar and commitments; building, editing, client check and execution of one transaction | `GuardedTransactionProofs`, `MCChecks` |
| `GuardedTransactionProofs` | theorems about what is accepted, built and answered | |
| `ProtectedSwap` | `protectJupiterSwap` over its three reads, reverification, submission, landing | `ProtectedSwapProofs`, `MCProtectedSwap` |
| `ProtectedSwapProofs` | theorems about a protected swap | |
| `RerouteDecision` | exact cost, decision, consent and eligibility, as operators | `Adapters`, `ExecutionPlan` |
| `Adapters` | from chain and API evidence to a representation's state, as operators | `RerouteCheck`, `DevnetTools` |
| `RerouteCheck` | every combination of evidence, quote, consent and slot, against a declarative reading | `DevnetToolsProofs`, `MCChecks` |
| `AtMostOnce` | abstract specification of a single-use capability: a ledger of who spent and who performed it | refined by `ExecutionPlan` |
| `ExecutionPlan` | from a decision to a delivery: consents, plans, concurrent executors | `ExecutionPlanProofs`, `MCExecutionPlan` |
| `ExecutionPlanProofs` | theorems about plans and consents | |
| `DevnetTools` | the demo run, `schedule` and the scenarios as concurrent processes on the shared mints | `DevnetToolsProofs`, `MCDevnetTools` |
| `DevnetToolsProofs` | theorems about decision, evidence and cost, the demo run and the transition scenario | |
| `DemoChain` | the chain as both demo pages use it, and the decisions they share | `WalletDemo`, `LiveDevnet` |
| `WalletDemo` | the page of the wallet demo and its wallet | `WalletDemoProofs`, `MCWalletDemo` |
| `WalletDemoProofs` | theorems about the wallet demo | |
| `LiveDevnet` | the live Devnet page: calls, renders, effects | `LiveDevnetProofs`, `MCLiveDevnet` |
| `LiveDevnetProofs` | theorems about the live page | |
| `LocalCoordinator` | the local validator and the coordinator's requests, as jobs cut at their awaits | `LocalDemo` |
| `LocalDemo` | the two pages over that coordinator: legs, page state, restarts, remounts | `LocalDemoProofs`, `MCLocalDemo` |
| `LocalDemoProofs` | theorems about moves, attestations, results, failures and evidence | |
| `Timeline` | capture decoding, change detector, timeline and evidence quality, as folds | `Correlation` |
| `Correlation` | API captures and their correlation with the chain's | `CaptureTools` |
| `CaptureTools` | two sources, their recorders and the tools that work on the files | `EquityGuardProofs`, `MCCaptureTools` |

`MC*` modules give constants their values; `MCLiveDevnet` also has a state constraint
(section 3). `MCChecks` puts three components that share no state (`EquityGuard`,
`GuardedTransaction`, `RerouteCheck`, with the values of their own `MC` modules) into one
run: a behaviour is one of one of them.

### Correspondence with the code

*State policy.* `Check` has the same sequence of comparisons as `guard.rs`, each
with its own error. Multipliers are compared by their bytes in the program and are
uninterpreted here; timestamps keep the i64 range (`MinI64`, `MaxI64`), because
the window's bounds are computed with checked arithmetic and fail closed.
`EffectiveMultiplier` is Token-2022's rule and appears in properties only: the
guard never computes it. In `EquityGuard` the issuer may write any state at any
time, including one that was there before, the mint may become unreadable, and
`Land` decides a transaction atomically, as the runtime does.

*Grammar.* An instruction is a program, a sequence of metas (address, signer,
writable) and structured data. A commitment is the tuple it hashes: SHA-256 is taken
to be injective. `SysvarView` computes the flags the program will see, merged
over the whole message with the fee payer, and demoted for reserved keys and for
programs: that the client does this correctly is a property, not an assumption.
`Edit` changes an address, a flag, data, a program or the list itself; `Recommit`
rewrites the commitment, since whoever can edit can also hash. The lookup table the
client resolves with and the chain's are different variables. What the wallet returns
is checked by the same operators as on the live page: it may put up to `MaxPrefix`
compute-budget instructions in front, which moves the index the guard is found at.
A Jupiter plan is bound to its quote's identity (`JupiterTradeBindingOf`). The grammar
exists twice in the code, in `jupiter.rs` and in `guard-client/src/jupiter.ts`, and so it
does here: `CheckSuffix` is translated from the first, `CheckJupiterSuffix` with
`RouteVerdict`, `SetupVerdict` and the commitments from the second. That they agree is
checked (`ClientMirrorsProgram`) and proved (`ClientGrammarIsPrograms`).

*Jupiter.* Each read of `protectJupiterSwap` (traded mints, deployment, snapshot)
is a step of its own; issuers, clock and loader act between any two.
The result codes are the code's. A foreign binary may do anything when it lands.
The build comes from `FetchBuild`: the request (`BuildRequestUrl`), an answer of the
service that may be refused, malformed or about something else, its validation, and
the raw build the caller holds (`HoldRawBuild`). `fetchBuild` validates the answer and
does not compare it with the request. Composition may be refused, or fail with an error
that `compositionFailure` turns into a code of its own. What keeps a build of other mints from going
out unguarded is `protectJupiterSwap`, which classifies what the instruction moves.

*Reroute.* Costs are exact rationals with the code's scale and its `ceilDiv`
(basis points, rounded against the user's benefit). `DecideExecution` is composed of
the code's `decide`, its consent issues and its route checks in the code's order. The
observations it starts from are resolved by `Adapters` from evidence: a decoded or
undecodable mint read at a known or unknown time, and an API answer that is live,
expired, undated or in conflict with the chain.

*Plans.* Library calls are synchronous and therefore one step; the caller's reads
and `executeGuardedPlan` are cut at their awaits. `SpendPlan` is the code between
the build and the first network call: commitment check, second verification and
consumption. `CallFails` is a failure of any later read, or the death of the process.

*Devnet tools.* Each tool is a process whose program counter stands at an await. The
guard decides a delivery by `Check`, the decision is that of `Adapters` and
`RerouteDecision` on what the tool observed. A read and the send that follows it are
one step: the reads in between change nothing the transaction contains, and `Land` comes
arbitrarily late. Multipliers are counted in quarters, the step of the scenarios. A transaction
carries at most two updates, which `ApplyUpdates` applies in order when it lands. A read
that fails, a foreign genesis hash, a plan that is no longer fresh and the death of the
process are `Fails`; what a run delivered is kept as history after it has ended.

*Wallet demo.* `flow` holds the local variables of the one asynchronous flow the
page allows (`withBusy`), with a program counter per await; connection changes run
beside it. Preparation sends the setup instructions in the code's order, with the
balance they mint (`DemoMintAmount`); the activation follows one of `Scenarios`. A wallet prompt stays open for any time. A submission may be taken,
refused, or reported as failed with the bytes passed on or not.

*Live Devnet page.* Here nothing keeps two calls apart but the phase, which every
call sets when it ends. `calls` is therefore a set: each element holds what the
call captured when it was started and its local variables. `SetState` is one
render: the new state, the cleanup of the effects whose dependencies changed, and
the effects again, the submitting one included. `watch` is the polling effect of
the last render. A poll looks at its `cancelled` flag after the snapshot and not
after the block height (line 118), so a poll that waits for the height when its
effect is cleaned up lives on as a call (`Orphaned`, `OrphanHeight`). A connect
call looks at the phase of its click (line 188). `SelectScenario` is offered where the
picker is; the session keeps the scenario it was prepared with.

*Local demo.* A leg is one Buy or Confirm, cut at each await; its request to the
coordinator is a job of its own, which other jobs, the Clock and a restart interleave
with. `page` holds what is shown and the adapter's module-level variables (session,
stage, flags), because on the site a leg outlives the component that started it and
goes on over the variables of the next one. `BuyStages` gives the stage an await
belongs to and `TraderFacingError` the headline a failure there shows. A restart of
the environment loses the validator's and the coordinator's memory and
keeps the evidence files and the page; it takes two validator starts, each polled at half
a second, so the Clock moves on. The program may be replaced once.

*Observation.* The recorder and the API watcher are not in the repository; they append
whole lines, each with an optional wallclock and block time. The sources change as they
like, and `held` and `published` keep what they really were, for the properties only.
Decoding, detection, intervals and correlation are folds over the lines, as in the
code. A tool is a process with a program counter per await (read, write, seal, look at
the source again, withdraw), and may be killed at each of them. A snapshot is named after
the clock once the source is read and the directory made; the name is to the second, so
that two snapshots can have one name.

## 3. Runs

No run checks for deadlock: every model reaches states in which the system has
simply finished.

| Run | Bounds | Shows |
|---|---|---|
| `checks` | the guard: 2 multipliers, timestamps 0..3 which are also the i64 range, windows (0,0) and (1,1), one transaction | executes at the authorized multiplier (`ExecutesAtAuthorizedMultiplier`), outside the window (`ExecutesOutsideTransition`), refuses only with a cause (`RejectionsAreJustified`), keeps its types (`TypeOK`) |
| | the transaction: all three adapter kinds, 3 transfers, 7 builds, two edits with or without a new commitment | `AcceptedIsCommitted`, `AcceptedIsOneOwnTrade`, `BuiltIsAccepted`, `ClientMirrorsProgram` |
| | the reroute: every kind of chain and API evidence, 4 offers with costs of 10000, 1667 and -1666 bps, two limits, 3 slots | `EXECUTABLE` exactly when the declarative reading allows it (`EligibilityIsExact`), only on evidence that bears it (`EvidenceBearsExecution`), cost is the exact ceiling (`DisclosedCostIsExact`) |
| `execution_plan` | 2 plans, 2 executors, 1 consent, 2 recipients, 3 slots; plans and executors symmetric | `OneConsentOnePlan`, `NoSecondAttempt`, `DeliveredAsConsented`, and refinement of `AtMostOnce` (`PlansAreSingleUse`): one call spends a plan, and that call alone signs, once |
| `devnet_tools` | 2 tools, clock 0..9, the fixture's outputs (17 bps at the target), windows of 3 before and 1 after (demo, in units of 300 s) and 1 on both sides (scenarios), landing margin 2 | `PendingProbesAreRefused`, `RunDeliversOnce`, `TransitionStepsMatch` |
| `protected_swap` | 3 mints, 10 builds, 2 windows, 2 clusters, timestamps 0..2, a reviewed program that may be foreign, malformed, upgraded, closed or finalized at any moment | `SettlesAtQuotedMultiplier`, `UnprotectedOnlyWhenOrdinary`, `RejectionsFollowChanges`, `ImmutableMeansReviewed` |
| `wallet_demo` | one attempt, 2 wallets, 6 blocks, blockhash life 2, 3 submissions, one rewrite of the mint | `StaleAuthorizationNeverExecutes`, `ClaimsAreTrue`, `ExecutesAsReviewed`, and, with fairness, `SignedFlowsEnd` |
| `live_devnet` | two attempts that may overlap, 1 wallet, 2 scenarios, 2 clicks on Connect, 5 blocks, blockhash life 2, 4 submissions, one rewrite of the mint | `ExecutesAsReviewed`, `HeldIsSubmittedOnce`, `ClaimsAreTrue`, and, with fairness, `HeldIsResolved` |
| `local_demo` | 2 multipliers, clock 0..4, activation after 1 s, blockhash life 2, 2 starts of the environment, 3 legs, 2 mounts, 4 of these events together | `MovesOnlyAsConfirmed`, `AttestationsAreTrue`, `ResultsAreReal`, `FailureClaimsAreTrue`, `EvidenceIsBacked`, `NobodyHangs` |
| `observation` | six budgets, each for one question: the capture alone (4 polls at 1, 30 or 105 s; 5 at 1, 30 or 89 s), a second mint's errors, two sources, the API alone, two tools racing the recorder with one crash | `TimelineIsExact`, `GoodEvidenceMissesNothing`, `CorrelationIsTrue`, `SealedCopiesAreExact` |
| `reverify_same_program`, `expired_report`, `live_expired`, `nothing_signed` | as above, smaller (`live_expired`: three clicks on Connect) | four statements of the repository that the code does not keep: section 6 |

*Why the bounds are enough.* The guard only compares bytes and orders three times
(now, activation, window ends): two multipliers tell equal from different, four
timestamps place the clock before, at and after both ends and make the range
overflow on both sides, and transactions do not influence each other. A double use
needs two plans or two executors on one plan; a stale consent needs one change and
one slot beyond its life. A swap has three reads, and one change between any two of
them suffices to make them disagree; three multipliers or a longer clock add
nothing that the proofs of section 5 do not already cover. Two edits compose (an
edit that invalidates and one that hides it), and `Recommit` makes the depth of
editing independent of the commitment. The wallet demo needs the activation (2 s),
the end of a blockhash (2 blocks) and a polling limit (2 rounds) in every order,
which six blocks of 0 or 1 second give; two wallets are needed for a flow that
outlives its connection. The live page needs one block more, because Authorize is
offered only near the activation, and two connect calls, one for the wallet and one
whose answer comes late. Two attempts overlap when a
late connect answer enables Prepare again while a preparation runs, and what the
page then shows and submits mixes the two. All combinations of this with a rewritten
mint, a second scenario and a wallet that puts instructions in front are too many for one
run, so `Bounded` explores the second attempt and the second click on Connect for the first
scenario, a mint nobody rewrites and bytes left as they are, and everything else with one
attempt. The constraint cuts clicks, rewrites and signatures only; none of them is
fair, so a behaviour it cuts off may also simply not take that step and goes on without
it, and `HeldIsResolved` loses no counterexample. The theorems of section 5 have no such bound.
Calls are a set, so two Connect calls that wait at the same place are one.

A demo run meets at most one other tool at each of its steps, and every command that
writes a mint is among them; the clock is long enough for the run's change and its
window, or for a whole transition scenario, to pass. Two tools are symmetric.

The local demo needs a stale leg and an updated one, and a third for a second click or
an orphaned leg; one restart makes an identifier name two things; the clock places
every await before or after the activation and the end of a blockhash. A
timeline is decided by pairs of neighbouring polls of one mint and by what lies
between them: four polls give a change, a hole and a recovery in every order, and the
spacings lie below, at and above the thresholds of 60 and 90 s (the five polls at up to
89 s keep a capture GOOD through a state of more than 90 s). The API also takes an
update back, with 0 where it had null. A snapshot that is used before it
is withdrawn needs two tools, and the crash may fall at any of their steps. What takes
three tools is in sections 5 and 6: `SealedIsExact` is for any number of them.


*Fairness* is assumed only in the two Devnet demo runs: weak fairness of the page's steps
(`PageStep`; `Watches` and `Answers`: the event loop runs a continuation whose await
has settled, and every RPC call settles, with an answer or with an error) and of
`ChainAdvances` (blocks are produced; the bound on the height
leaves room for every blockhash to run out, see `ReadBlockhash`). Nothing is
assumed of the user, of the wallet, or of whether a transaction lands: that is why
the two properties start where the wallet has answered. `NobodyHangs` needs none: a
leg has finitely many steps, and the invariant says that it is never left without
a next one.

Every property has a mutant: a plausible fault in the code (a dropped
phase assertion, a half-open window, a consent that is not consumed, flags taken
from the instruction instead of the message, a confirmation loop that ignores the
block height, ...) under which TLC finds the property violated.

## 4. Abstract specifications

`EquityGuard` states the promise of the guard without client, Jupiter or wallet.
`AtMostOnce` states what a single-use capability is: it is issued, then spent by one
user, and only that user may perform it, once. `ExecutionPlan` implements it,
with a plan as the capability and the executing calls as its users. The ledger is the set of
calls that spent the plan and the set of those that signed it, so a second spend or a second
signature of one plan changes it and is no step of the specification. Checked by TLC as `PlansAreSingleUse` and proved as
`PlansImplementAtMostOnce`. `RerouteCheck`'s declarative eligibility is the
reference for the code's sequence of early returns.

## 5. Proofs

Each proof module has an inductive invariant, named `IInv` (`CheckInv` for
`RerouteCheck`, `TransactionInv` for `GuardedTransaction`, `CaptureInv` for
`CaptureTools`; `LiveDevnetProofs` adds `Orderly`), whose parts say what the
state a later step will use was read from, and one lemma per action. TLC checked each
of them, and `Consented` and `OneAttempt`, as invariants of the run's instance (in
`LiveDevnetProofs` with the times of `Actions` bounded), except `CheckInv`, which
quantifies over infinite sets. The
assumptions are the named `ASSUME`s of the modules; they give constants
their types and the relations the code establishes at start, and TLC evaluates
them on every run.

*`EquityGuardProofs`* (`GuardConstants`: the timestamps lie in an integer range;
`EquityGuardConstants`: windows are pairs of naturals).

- `OfflineMirrorsProgram`: `CheckGuardOffline` and `Check` agree on every request,
  state and time. They are written differently (unbounded arithmetic compared
  afterwards, checked arithmetic first), so this is not by definition.
- `TypeCorrect`, `AuthorizedMultiplier`, `OutsideTransition`,
  `JustifiedRejections`: the four invariants of the run, for any set of
  transactions, windows, multipliers and any range. None but the type is
  inductive: what a finished transaction satisfies depends on the request it
  carried and on the mint that judged it. `IInv` adds `SignedFromSnapshot` (a
  signed request's state and phase are those of one moment, `authorizedAt`) and
  `DecidedByGuard` (the recorded verdict is the guard's answer on the recorded
  mint and time). The properties then follow from a case analysis of `Check`: an
  unscheduled state has one multiplier at all times, and a scheduled one is told
  apart by its phase.

*`EquityGuardProofs`*, the files of the observation tools (`CaptureConstants`: spans are
pairs of integers, budgets have their types).

- `SealedIsExact` (`SealedCopiesAreExact`), for any number of tools, crashes, polls and
  budgets and any spans. `CaptureInv` says that every file of the chain's captures but a
  window is a beginning of the capture, whoever wrote it and wherever it was cut
  (`FilesOK`); that a manifest is true of the lines it was made of, whether or not its
  file is still there (`ManifestsOK`); what each tool holds across its awaits (`ToolOK`);
  that no two tools write one copy or answer for one manifest (`Apart`: the files are
  created exclusively); and that a snapshot once reported is there and no tool's
  any more (`ReportOK`), which is why an analysis of it hashes what it read. TLC checked
  `CaptureInv` on the run's instance; with three tools it met no error in more than
  10 million states, without finishing.
- The window's lines are those of a loop (`WindowLines`, a recursive function over the
  positions). The prover has no induction over data, so `LoopKeepsWindow` is by a least
  counterexample: the first position at which the loop has kept other lines than those
  of the span is not 0, and the one before it does not differ.

*`ProtectedSwapProofs`* (`SwapConstants`: known assets are mints, the stable coin is
none, the two program addresses differ, mint accounts that decode hold a protected
state, builds are of these mints).

- `QuotedMultiplier`, `RejectionsNeedChanges`, `FinalAttestation` and
  `NeverSilentlyDropped`: the four invariants of the run. The call keeps what its three
  reads returned while the chain moves on, so the invariant ties each of them to the
  moment it was made: `BuiltFromRead` (the request is the expectation of one read,
  which passed the offline check against itself and against the quote),
  `AttestationHolds` (a final attestation is still true, because nothing can replace a
  program without an authority), `PlainIsClassified` (an unguarded swap is one the
  classification let go) and `LandedAsDecided`.

*`GuardedTransactionProofs`* (`TransactionConstants`: instructions are typed, only the
guard a builder writes carries a guard's payload, the protected mint decodes and USDC, a
mint of the legacy token program, does not, a slippage is a natural number).

- `TradesAreOwn` (`AcceptedIsOneOwnTrade`), `CommitmentsHold` (`AcceptedIsCommitted`),
  `BuildsAreAccepted` (`BuiltIsAccepted`) and `ClientAnswersAsProgram`
  (`ClientMirrorsProgram`), for any mint, transfers, builds, payers and number of edits,
  and transactions of any length. The invariant `TransactionInv` (`TransactionCorrect`) ties
  the transaction on its way to what was built: unedited it is the build, and until the
  commitment is rewritten it carries the one it was built with (`OnItsWay`); the client's
  answer and the program's verdict are those on the transaction as it is now, because an
  edit withdraws the answer and nothing is edited after the execution. The rest is about
  operators: the grammar accepts suffixes of three or four instructions only and every
  guard of a transaction is judged on its own, the verdict being that of the first that fails,
  so no induction over the list is needed; and the merged and demoted flags the client
  computes are the ones the program is shown. `ClientGrammarIsPrograms` says that the
  client's translation of the grammar gives the program's answer on every suffix, whether or
  not it is well-formed.

*`ExecutionPlanProofs`* (`PlanConstants`: the limits are naturals, lifetimes
are positive, observations and offers have their types and `None` is no identity).

- `ConsentsAreSingleUse` (`OneConsentOnePlan`), `NoBlindRetry`
  (`NoSecondAttempt`) and `PlansImplementAtMostOnce`, for any number of plans,
  consents and executors, any observations and offers. The inductive invariant
  joins the shape of the variables with: the consent of every plan is
  spent (so that a second plan finds it spent), every call beyond "building" has
  its plan in `used`, what is used was issued, and two calls beyond "building" have
  different plans. The last is the property, and needs the others because the second call
  passes its first verification: only the re-verification inside the
  consumption keeps the two apart. The refinement follows from it: the calls beyond
  "building" on a plan are its ledger entry, so the step that would add a second one is
  impossible, and signing is a step of the call that is already there.
- `ReroutesCostAsConsented` (`DeliveredAsConsented`). A second invariant, `Consented`,
  follows the cost from the comparison through the decision (`DecisionFits`), the consent
  record and the plan (`PlansFit`: the plan's quote costs no more than its consent
  accepts) to the block (`LandedFits`: the guard lets a delivery pass only in the
  economic state its quote is bound to).

*`DevnetToolsProofs`*, the decision layer (`CheckConstants`: types of evidence, offers,
inputs and limits).

- `ExactEligibility`: the sequence of early returns of `DecideExecution` is equivalent
  to the declarative reading. One lemma per group of checks gives the condition under which it
  falls through; consent issues are the ones of a record that names both quotes.
- `ExecutionRestsOnEvidence`: the adapters, by cases on what each kind of evidence
  resolves to.
- `ExactDisclosedCost`: `CeilDiv` is the ceiling for every sign of the numerator, and
  the denominators of quotes are positive.

*`DevnetToolsProofs`*, the tools (`ToolConstants`: the lead exceeds the scenario's window by two landing
margins, as `scenarios.ts` has it; chain times and the timestamps made from them are
i64; the two assets differ).

- `PendingProbesRefused`, `DemoDeliversOnce` and `MarginsSuffice`, for any number of
  tools. `Fits` says for each program counter of a tool what the fields it will still
  use were read from: a snapshot of a mint at a time that has passed. Two
  facts relate a tool to the others, who may rewrite the mints between any two of its
  steps: chain time only grows, and a change that is still scheduled was dated after
  the transaction that scheduled it landed. So a state that is gone when its
  activation has passed never comes back, and a probe bound to it stays refused.

*`WalletDemoProofs`* (`DemoChainConstants`, `WalletDemoConstants`: the catalog and the
timing the page validates at start).

- `StaleNeverExecutes`, `TrueClaims` and `ReviewedExecution`, for any number of
  attempts, wallets, blocks and submissions and every rewriting of the mint. A flow
  holds what it read across its awaits, so the invariant says on which side of the activation
  each read was made (`SnapshotFits`, `ExpectationFits`), and of every
  transaction on the network which state it asks the guard for (`TxFits`): bytes of the
  pending phase, sent after the activation, are refused whatever the mint has become.

*`LiveDevnetProofs`* (`DemoChainConstants`, `LiveDevnetConstants`).

- `LiveReviewedExecution` (`ExecutesAsReviewed`), for any number of attempts whose calls,
  polls and renders overlap in any way: each call works on the action of its click.
- `LiveHeldSubmittedOnce` (`HeldIsSubmittedOnce`) and `LiveTrueClaims` (`ClaimsAreTrue`),
  likewise for any number of overlapping attempts. `InOnePlace` says, attempt by
  attempt, that the authorization is in one place at a time: in a call that carries it,
  offered to the submitting effect, kept by the page, given up or on the network. A page that
  drops one attempt's bytes for another's never takes them back, and `submitStarted` keeps
  a poll that outlived its render from sending them again. `Results` ties the
  final phases to a refusal on the network and to a confirmed transfer.

  What the page says of an *expired* authorization is not among them. It is false
  with two overlapping attempts (`live_expired`, section 6), and so is, for
  the same reason, that the panel of a protected attempt links to the transaction that was
  refused: with two submissions in flight the link can be to the other one.

*`LocalDemoProofs`* (`LocalCoordinatorConstants`: the activation delay is positive, the
two multipliers differ, `None` is neither a number nor a session).

- `MovesAreConfirmed`, `AttestationsHold`, `ShownIsReal`, `FailuresAreTrue` and
  `FiledEvidenceIsBacked`: five of the six invariants of the run, for any number of legs,
  mounts, restarts and events and any length of the clock. A leg holds its T, its wire and
  the coordinator's answers across some twenty awaits, while the Clock, other
  handlers, a restart and the legs of other mounts go on. `LegFits` says what
  each await has behind it (the wire is of the leg's T and phase, a stale wire was signed
  before T, its receipt is on the coordinator of the environment it was built in),
  `JobFits` the same of a handler in the coordinator, `SentFits` and `LandedFits` of what was
  submitted and executed. Three parts relate several legs:
  `ArmFits` (one request arms an environment), `FreshT` (no T is armed twice, also after a
  restart: this is why tokens of two environments are never taken for each other) and
  `MountsFit` (one leg of the mounted component runs). `SessionFits` says that a session
  is of one T and that this T is confirmed at most once, which makes a second
  execution impossible; `FlagsFit` and `ShownFits` that the flags a failure is described
  with are at least those of the mounted leg.
- Looking for this invariant showed that an earlier, stronger form of
  `MovesOnlyAsConfirmed` was false beyond the bounds of the run. It said that
  the rejected stale wire and the executed order are always of the same environment. TLC
  then found a behaviour of 76 states on the site (5 events, clock to 6): a leg orphaned
  by a remount arms the restarted environment and begins its session; the stale leg of the
  mounted component, of the old environment, verifies its rejection and stores it in that
  session (`live-adapter.ts`, `session.stale = proof`), so that the order the trader then
  confirms is executed in an environment that has rejected nothing. The property now says
  "the same environment" for `app.ts`, and on the site for an order of the same T.

*Only model-checked.*

- Liveness (`SignedFlowsEnd`, `HeldIsResolved`) and `NobodyHangs` of `LocalDemo`: the prover
  handles neither fairness nor ENABLED.
- `TimelineIsExact`, `GoodEvidenceMissesNothing` and `CorrelationIsTrue` of `CaptureTools`:
  detector, intervals, gaps and quality are nested folds of the community modules over the
  lines of a capture, and what a fold computes on every input needs induction over data
  with an operator as its parameter, which no installed prover can instantiate.

## 6. Where the code and its text differ

1. *Reverification.* `protect.ts:558` says that it reports whether the deployment "is
   still the same program". For an address only the caller trusts nothing
   identifies the binary (`reverify_same_program`).
2. *"Not submitted".* The wallet demo says that a held authorization expired before it could
   land. It says so also of one that was submitted and landed, when the confirmation
   comes after the last valid block (`expired_report`).
3. *"Expired before Solana could land it".* The live Devnet page says so
   (`devnet-public.ts:177`) also of bytes that landed (`live_expired`, 56 states). A late
   answer to Connect, which looks at the phase of its click
   (`live-devnet-experience.tsx:188`), sets "ready" over a running preparation, so that
   another is started beside it, authorized and locked. The first one now fails, which
   takes the page out of "locked" while its poll, which has seen the activation, waits for the
   block height; after that it does not look at `cancelled` (line 118). The trader starts over,
   and when the poll is answered the next attempt is locked: the page goes on to submit what
   it now holds. These bytes land, while their own poll, cleaned up in the same way, still
   waits for its height and then reports them as expired.
4. *"Nothing was signed or submitted."* The local demo attests the deployment before the
   signature and again before the submission, and shows this headline
   (`trader-flow.ts:160`) when either fails. At the second the bytes are signed, and
   the coordinator has dated them (`nothing_signed`). That nothing was submitted is
   true (`FailureClaimsAreTrue`).

Seen while modelling, and not the subject of a run:

- The guard and its client: the comment at `error.rs:19` speaks of exactly one
  account where `processor.rs:39` takes two; the client refuses some transactions the
  chain accepts, because of flags the runtime demotes, which is safe.
- `ECONOMIC_STATE_CHANGED`, documented as chain state that no longer matches the quote,
  is also the answer when the protection window overflows, with no quote given.
- Freshness of plans: `execution-plan.ts:95` calls `expiresAtSlot` the "last slot at which
  the plan may be signed". `executeGuardedPlan` compares it with a slot read before
  three further reads (`devnet-execution.ts:434`, `send.ts:66-74`), so the signature can be
  later.
- Devnet demo: the comparison is not "always" 17 bps (`devnet-execution.ts:110-112`). Another
  tool, or the activation, can change a mint between the verification of the reset and
  the observations; the run then decides on what it observed. The guard of the delivery
  asserts the state of the selected asset only, so a change of the preferred one after
  the decision does not stop a reroute. A rejection probe that is bound to a change
  already activated can be delivered once its window has ended; the run then aborts, as
  `RunDeliversOnce` requires.
- Transition scenario: the pending change it goes on with need not be the one it
  scheduled (`scenarios.ts:222`); the times it waits for are then those of another change.
  `TransitionStepsMatch` is stated for its own.
- Wallet demo: a confirmed transfer whose confirmation is lost leaves the confirm
  button enabled, so that a second transfer can be signed while the first may still
  land (listed as a hazard).
- Live Devnet page: a late connect answer after a failure leaves the phase at "ready"
  with a session, where no button leads on; and the panels show the selected scenario
  and not the session's (`live-devnet-experience.tsx:174`; `devnet-public.ts:293` binds a
  session to its scenario). With overlapping attempts the protected panel, "Guard result
  ActivationPhaseChanged" with a link (`live-devnet-experience.tsx:379-383`), can link to
  held bytes of another attempt that were not refused for that reason, and a late
  answer can bring "protected" back after a confirmation was sent, so that a second one can be
  signed.
- Local demo: the headline of the blockhash check says that it expired also when only the read failed. On the site
  the headline's stage, and the flags that `live-adapter.ts` describes as "for this
  leg", can be those of an orphaned leg. `FailureClaimsAreTrue` states the two
  sentences about the flags for both pages and the headlines for `app.ts`, where no
  leg is orphaned. The session is a variable of the module too: an orphaned leg can begin
  one that the mounted leg then stores its proof in (section 5, `LocalDemoProofs`), although
  `live-adapter.ts` says that "nothing survives across attempts".
- Timeline: an observation without a block time has no phase, so
  `ACTIVATION_PHASE_CHANGED` is not emitted and one stable interval spans the
  activation (`events.ts:88`, `timeline.ts:360-383`; `timeline.ts:7-8` promises
  otherwise), and the correlation can claim an order that was not so. `TimelineIsExact`
  and `CorrelationIsTrue` are stated for captures with block times. Quality
  is reported by symbol while tracks are kept by mint (`timeline.ts:400`), and the coverage
  before a chain change counts failed API polls (`kox-correlation.ts:304`).
  `API_PENDING_CHAIN_NOT_YET_PENDING` is said whenever the mint was not pending at the last
  poll, also when its update had already activated (`kox-correlation.ts:284-286`);
  `CorrelationIsTrue` states what it does say. An API answer that goes from null to 0 with
  nothing pending ends an interval without an event (`kox-correlation.ts:217`,
  `xstocks-api.ts:262-278`).
- Observation tools: the analyses read their input twice, once for the lines and once
  for the digest; a window can be extracted from a snapshot that is withdrawn
  afterwards; and after a crash a copy cut short, without a manifest, is an
  accepted input 90 s later. Looking for `CaptureInv` showed more: snapshots
  are named to the second (`snapshot-capture.ts:66`), so with three tools the digest
  of an analysis can be of other lines than those it analysed, although its input was sealed. One tool
  seals a snapshot, a second checks and reads it, the source has changed and the first
  withdraws it; a third, in the same second and so under the same name, is killed while it
  writes, and the second tool hashes the piece. `SealedCopiesAreExact` says what
  still holds: such an analysis is exact of a window and of a snapshot that was reported.

## 7. What is not modelled

- Bytes: TLV walking, ABI offsets, ELF hashing, SHA-256, message serialisation and
  compute limits. Decoding is one outcome out of the code's errors.
- Command lines, configuration and evidence files (`cli.ts`, `config.ts`, `evidence.ts`): input
  and output without state. `create-mints` is the initial state of `DevnetTools`.
- In the Phantom experiment, the first feasibility transfer (`runFeasibility`), the
  recorded replay `signSubmitAndConfirmReplay` drives, and technical details as text.
- The faucet request and the balances of the two Devnet pages; the registry's table.
- `UNRESOLVABLE_TRANSACTION` of `verifyProtectedSwap`: the transactions of
  `GuardedTransaction` have been resolved; one whose lookups cannot be is refused before the
  checks modelled here, and by the runtime as well.
- `UNSUPPORTED_STATE_MODEL` of the protection adapter: every known asset has the state model
  that is implemented, so the code cannot return it.
- In the local demo, the reads of one `prepareReplay` are one step (one request arms an
  environment, so nothing it reads changes between them), and a setup transaction does
  not land after the coordinator gave up on it (`arming` stays set, so no later request sees it).
- Decimals in a timeline's state (a mint cannot change them), and milliseconds: captures are in
  whole seconds, which no property of the correlation tells apart.
- Rendering, content and styling (the rest of `apps/web`, `apps/reference`).
- Batch tools under `scripts/` that replay, measure or package evidence
  (`scripts/m11b`, research): sequential programs over files, built from the
  operations that are modelled at their source.

## 8. Plan

Done, in this order: `GuardCheck` and `EquityGuard` with their proofs,
`RerouteDecision`, `ExecutionPlan` with its proofs, `ProtectedSwap`,
`TransactionGrammar` and `GuardedTransaction`, `DemoChain` with `WalletDemo` and
`LiveDevnet`; then `Adapters` under `RerouteCheck`, the build client, the binding of Jupiter plans,
scenarios and wallet-signed transactions, `LocalCoordinator` with
`LocalDemo`, `Timeline`, `Correlation` and `CaptureTools`, and `DevnetTools`.

Then the proofs of section 5, in the order of the modules.

Next: an orphaned leg of the local demo that begins the mounted leg's session, as a run with a
longer clock; the part of a timeline that is decided by two neighbouring polls, as a
theorem without folds.
