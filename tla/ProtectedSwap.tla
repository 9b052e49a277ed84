----------------------------- MODULE ProtectedSwap -----------------------------
(***************************************************************************)
(* One swap through the Jupiter integration: an application quotes, fetches a *)
(* build (build-client.ts), calls protectJupiterSwap (protect.ts), and signs  *)
(* and sends what it returns (apps/example-jupiter-protected/src/swap.ts).    *)
(* The call of protectJupiterSwap reads the chain                             *)
(* three times: the traded mints, the guard deployment, and the protected     *)
(* mint with the Clock.  Issuers, the clock and the holder of an upgrade      *)
(* authority act between the reads, before the signature and before the block.*)
(*                                                                            *)
(* A Jupiter build is what it reports, what its instruction moves, the kinds  *)
(* of value in its JSON and whether the composer can represent it; the grammar*)
(* of the composed transaction is a component of its own.                     *)
(***************************************************************************)
EXTENDS GuardCheck, Sequences

CONSTANTS
    Mints,          \* traded mints other than USDC
    USDC,           \* the canonical counter asset
    KnownAssets,    \* KNOWN_PROTECTED_ASSETS
    MintAccounts,   \* for each mint, the accounts it may have
    Requests,       \* BuildRequests of the application
    Builds,         \* Jupiter builds
    Windows,        \* protection windows, valid or not
    Clusters,       \* clusters the RPC may serve
    Reviewed,       \* the reviewed deployment's address
    Other,          \* an address only the caller knows
    ProgramStates,  \* for each address, what it may hold at first
    None

ASSUME SwapConstants ==
    /\ KnownAssets \subseteq Mints
    /\ USDC \notin Mints
    /\ Reviewed # Other
    /\ None \notin {Reviewed, Other}
    /\ None \notin {"zero", "key"}
    /\ \A m \in Mints : \A account \in MintAccounts[m] :
         account.decode = "Ok" => account.state \in ProtectedState
    /\ \A build \in Builds : {build.inputMint, build.outputMint} \subseteq Mints \cup {USDC}

VARIABLES
    clock,       \* Clock::unix_timestamp
    accounts,    \* the mint accounts
    programs,    \* the accounts at the two program addresses
    cluster,     \* the cluster of the RPC
    quote,       \* the snapshot the application quoted from
    call,        \* the call of protectJupiterSwap and the application's next steps
    landed       \* what the block found: the account, the time, the executing binary

vars == <<clock, accounts, programs, cluster, quote, call, landed>>

chain == <<clock, accounts, programs>>

\* An executable program, or the first thing that is wrong with it.
ProgramAccount ==
    [check : {"Ok", "MISSING", "NOT_EXECUTABLE", "UNEXPECTED_LOADER",
              "PROGRAM_DATA_MISMATCH", "MALFORMED_PROGRAM_DATA"},
     elf : {"reviewed", "foreign"}, authority : {None, "zero", "key"}]
-------------------------------------------------------------------------------
\* The build: build-client.ts.

\* buildRequestUrl does not throw.  maxAccounts is optional.
BuildRequestUrl(request) ==
    /\ request.validAddresses
    /\ request.amount > 0
    /\ request.slippageBps >= 0
    /\ request.maxAccounts # None => request.maxAccounts \in 1 .. 64

\* BuildResponse: the kinds of JSON value each part of it may have.
BuildResponse ==
    [mints : {"address"}, amounts : {"unsigned integer string"}, swapMode : {"string"},
     slippageBps : {"number"}, routePlan : {"steps"}, requiredInstructions : {"instructions"},
     optionalInstructions : {"instructions", "absent"}, lookupTables : {"addresses", "absent"},
     blockhash : {"32 bytes"}, lastValidBlockHeight : {"number"}]

\* parseBuildResponse does not throw.
ParseBuildResponse(build) == build.json \in BuildResponse
-------------------------------------------------------------------------------
\* Classification: protection-adapter.ts and protect.ts.

\* NotApplicableReason
NotApplicableReason == {"NO_TOKEN_2022_MINT", "NO_PROTECTED_STATE_MODEL"}

\* resolveProtectionAdapter and verdictFor, on an account that was returned.  The state
\* model of every known asset is implemented.
VerdictFor(mint, account) ==
    CASE account.decode = "Ok" -> "PROTECTED"
      [] account.decode \in {"InvalidMintOwner", "MissingScaledUiAmount"} ->
           IF mint \in KnownAssets THEN "NO_SUPPORTED_STATE_ADAPTER"
           ELSE IF account.decode = "InvalidMintOwner" THEN "NO_TOKEN_2022_MINT"
           ELSE "NO_PROTECTED_STATE_MODEL"
      [] account.decode = "InvalidExtensionCombination" -> "UNSUPPORTED_TOKEN_STATE"
      [] account.decode = "AccountNotFound" -> "MINT_STATE_UNAVAILABLE"
      [] OTHER -> "MALFORMED_TOKEN_STATE"

\* Faulty variant: the reported mints are believed.
NoReportedMintMismatch(build) == FALSE

\* Only route_v2 instructions are parsed.
ReportedMintMismatch(build) ==
    /\ build.entrypoint = "route_v2"
    /\ build.moves # <<build.inputMint, build.outputMint>>

Result(status, code, mint) == [status |-> status, code |-> code, mint |-> mint]

\* classify.  The candidates are judged in order, and the first that is refused
\* decides.
Classify(build, view) ==
    LET traded     == <<build.inputMint, build.outputMint>>
        candidates == {i \in 1 .. 2 : traded[i] # USDC}
        verdicts   == [i \in candidates |-> VerdictFor(traded[i], view[traded[i]])]
        modelless  == {i \in candidates : verdicts[i] = "NO_PROTECTED_STATE_MODEL"}
        refused    == {i \in candidates : verdicts[i] \notin NotApplicableReason \cup {"PROTECTED"}}
        protected  == {i \in candidates : verdicts[i] = "PROTECTED"}
        first(set) == CHOOSE i \in set : \A j \in set : i <= j
        mint       == traded[first(protected)]
        offender   == traded[first(refused)]
        verdict    == verdicts[first(refused)]
    IN  IF ReportedMintMismatch(build)
          THEN Result("ERROR", "INVALID_JUPITER_BUILD", None)
        ELSE IF build.inputMint = build.outputMint
          THEN Result("UNSUPPORTED_PROTECTED_ROUTE", "UNSUPPORTED_ROUTE_SHAPE", build.inputMint)
        ELSE IF refused # {}
          THEN Result(IF verdict = "NO_SUPPORTED_STATE_ADAPTER"
                        THEN "UNSUPPORTED_PROTECTED_ASSET" ELSE "ERROR",
                      verdict,
                      IF verdict = "MINT_STATE_UNAVAILABLE" /\ offender \notin KnownAssets
                        THEN None ELSE offender)
        ELSE IF protected = {}
          THEN Result("NOT_APPLICABLE", IF modelless # {} THEN "NO_PROTECTED_STATE_MODEL"
                                        ELSE "NO_TOKEN_2022_MINT", None)
        ELSE IF {build.inputMint, build.outputMint} # {mint, USDC}
          THEN Result("UNSUPPORTED_PROTECTED_ROUTE", "UNSUPPORTED_COUNTER_ASSET", mint)
        ELSE Result("CLASSIFIED", None, mint)

\* supportsJupiterSwap: what a wallet shows before the user commits.
SupportsJupiterSwap(build, view) ==
    LET c == Classify(build, view)
    IN  IF ~ParseBuildResponse(build) THEN Result("ERROR", "INVALID_JUPITER_BUILD", None)
        ELSE IF c.status = "CLASSIFIED" THEN Result("STRUCTURALLY_SUPPORTED", None, c.mint)
        ELSE c
-------------------------------------------------------------------------------
\* The deployment the guard is built against: deployment.ts and protect.ts.

DeploymentForCluster(served) == IF served = "devnet" THEN Reviewed ELSE None

\* decodeProgramDataHeader: the zero key cannot sign, but is not reported as
\* immutable.
Mutability(authority) ==
    CASE authority = None   -> "IMMUTABLE"
      [] authority = "zero" -> "NO_USABLE_AUTHORITY"
      [] OTHER              -> "UPGRADEABLE"

\* Faulty variant: a program account in order is taken for the reviewed binary.
CheckProgramAccountOnly(program) == program.check

\* verifyReviewedGuardDeployment: "Ok", or the first check that fails.
VerifyReviewedGuardDeployment(program) ==
    IF program.check \notin {"Ok", "MALFORMED_PROGRAM_DATA"} THEN program.check
    ELSE IF program.elf # "reviewed" THEN "BINARY_MISMATCH"
    ELSE program.check

\* checkGuardProgramAccount looks only at existence and executability.
CheckGuardProgramAccount(program) ==
    IF program.check \in {"MISSING", "NOT_EXECUTABLE"} THEN program.check ELSE "Ok"

DeploymentFailureCode(reason) ==
    CASE reason = "MISSING"        -> "GUARD_DEPLOYMENT_UNAVAILABLE"
      [] reason = "NOT_EXECUTABLE" -> "GUARD_PROGRAM_NOT_EXECUTABLE"
      [] OTHER                     -> "GUARD_BINARY_UNVERIFIED"

\* What was established about a program at the moment it was read.
ReviewedAttestation(program) ==
    [program |-> Reviewed, identity |-> "REVIEWED_BINARY",
     mutability |-> Mutability(program.authority), upgradeAuthority |-> program.authority]

CallerTrustedAttestation(at) ==
    [program |-> at, identity |-> "CALLER_TRUSTED", mutability |-> "UNKNOWN",
     upgradeAuthority |-> None]

Deployment(code, attestation) == [code |-> code, attestation |-> attestation]

\* resolveDeployment, on the accounts of one read.
ResolveDeployment(requested, served, view) ==
    LET at    == IF requested # None THEN requested ELSE DeploymentForCluster(served)
        check == IF at = Reviewed THEN VerifyReviewedGuardDeployment(view[at])
                 ELSE CheckGuardProgramAccount(view[at])
    IN  IF at = None
          THEN Deployment(IF served = "unknown" THEN "UNSUPPORTED_CLUSTER"
                          ELSE "GUARD_DEPLOYMENT_UNAVAILABLE", None)
        ELSE IF check # "Ok" THEN Deployment(DeploymentFailureCode(check), None)
        ELSE Deployment("Ok", IF at = Reviewed THEN ReviewedAttestation(view[at])
                              ELSE CallerTrustedAttestation(at))

\* reverifyGuardDeployment answers ok.  An attestation has no deployment slot:
\* the comparison leaves it out.
ReverifyGuardDeployment(attestation, served, view) ==
    LET current == ResolveDeployment(attestation.program, served, view)
    IN  current.code = "Ok" /\ current.attestation = attestation
-------------------------------------------------------------------------------
\* The request and its verdict.

\* Faulty variant: a phase is never asked for.
WindowIssueOnly(in) == in.window \notin ProtectionWindow

\* guardRequestIssue
GuardRequestIssue(in) ==
    \/ in.window \notin ProtectionWindow
    \/ in.expectedPhase # None /\ in.expectedState = None
    \/ /\ in.expectedState # None
       /\ in.expectedPhase = None
       /\ HasScheduledChange(in.expectedState)

StateFailureCode(decode) ==
    CASE decode = "InvalidExtensionCombination" -> "UNSUPPORTED_TOKEN_STATE"
      [] decode \in {"AccountNotFound", "InvalidClockData"} -> "MINT_STATE_UNAVAILABLE"
      [] decode \in {"InvalidExpectedState", "InvalidProtectionWindow"} -> "INVALID_GUARD_REQUEST"
      [] OTHER -> "MALFORMED_TOKEN_STATE"

EconomicFailure(verdict, mint) ==
    Result("ERROR", IF verdict = "InsideTransitionWindow" THEN "INSIDE_TRANSITION_WINDOW"
                    ELSE "ECONOMIC_STATE_CHANGED", mint)

\* composeGuardedJupiterTrade and compositionFailure, by what is wrong with the build,
\* the compute unit limit, or the compiled transaction.
Composed(build, mint) ==
    CASE build.entrypoint # "route_v2" \/ build.shape = "unsupported" ->
           Result("UNSUPPORTED_PROTECTED_ROUTE", "UNSUPPORTED_ROUTE_SHAPE", mint)
      [] build.entrypoint = "route_v2" /\ build.shape = "oversized" ->
           Result("UNSUPPORTED_PROTECTED_ROUTE", "TRANSACTION_TOO_LARGE", mint)
      [] build.entrypoint = "route_v2" /\ build.shape = "limit is no u32" ->
           Result("ERROR", "INVALID_GUARD_REQUEST", mint)
      [] build.entrypoint = "route_v2" /\ build.shape = "resolves differently" ->
           Result("ERROR", "COMMITMENT_FAILURE", mint)
      [] OTHER -> Result("PROTECTED", None, mint)

\* Faulty variant: a guard is built that the program would refuse right now.
ProtectWithoutOfflineCheck(in, mint, account, now) ==
    IF account.decode # "Ok" THEN Result("ERROR", StateFailureCode(account.decode), mint)
    ELSE LET quoted == [expected |-> in.expectedState,
                        expectedPhase |-> IF in.expectedPhase # None THEN in.expectedPhase
                                          ELSE PhaseAt(account.state, now),
                        window |-> in.window]
         IN  IF in.expectedState # None
                  /\ CheckGuardOffline(quoted, account.state, now) # "Ok"
               THEN EconomicFailure(CheckGuardOffline(quoted, account.state, now), mint)
             ELSE Composed(in.build, mint)

\* The rest of protectJupiterSwap once the snapshot is there: what was quoted,
\* then what the program would say now, then the composition.
ProtectFromSnapshot(in, mint, account, now) ==
    IF account.decode # "Ok" THEN Result("ERROR", StateFailureCode(account.decode), mint)
    ELSE LET quoted == [expected |-> in.expectedState,
                        expectedPhase |-> IF in.expectedPhase # None THEN in.expectedPhase
                                          ELSE PhaseAt(account.state, now),
                        window |-> in.window]
             moved  == IF in.expectedState = None THEN "Ok"
                       ELSE CheckGuardOffline(quoted, account.state, now)
             fails  == CheckGuardOffline(ExpectationFromSnapshot(account.state, now, in.window),
                                         account.state, now)
         IN  IF moved # "Ok" THEN EconomicFailure(moved, mint)
             ELSE IF fails # "Ok" THEN EconomicFailure(fails, mint)
             ELSE Composed(in.build, mint)
-------------------------------------------------------------------------------
\* sawMints, sawElf, read and reverifiedElf are history: what each read found.
NoCall == [pc |-> "idle", build |-> None, in |-> None, result |-> None, attestation |-> None,
           request |-> None, sawMints |-> None, sawElf |-> None, read |-> None,
           reverifiedElf |-> None]

Init ==
    /\ clock \in Timestamps
    /\ accounts \in [Mints -> UNION {MintAccounts[m] : m \in Mints}]
    /\ \A m \in Mints : accounts[m] \in MintAccounts[m]
    /\ programs \in [{Reviewed, Other} -> ProgramAccount]
    /\ \A at \in {Reviewed, Other} : programs[at] \in ProgramStates[at]
    /\ cluster \in Clusters
    /\ quote = None
    /\ call = NoCall
    /\ landed = None

\* The chain: the clock, the issuers and the loader.  Nothing that happens after
\* the swap is over is looked at.
Over == call.pc \in {"executed", "rejected", "refused", "sentUnprotected"}

ClockAdvances ==
    /\ ~Over
    /\ \E now \in Timestamps : now > clock /\ clock' = now
    /\ UNCHANGED <<accounts, programs, cluster, quote, call, landed>>

MintChanges ==
    /\ ~Over
    /\ \E m \in Mints : \E account \in MintAccounts[m] :
         account # accounts[m] /\ accounts' = [accounts EXCEPT ![m] = account]
    /\ UNCHANGED <<clock, programs, cluster, quote, call, landed>>

\* Upgrade, and set-upgrade-authority to another key, to the zero key or final.
\* Nobody holds the zero key.
ProgramChanges ==
    /\ ~Over
    /\ \E at \in {Reviewed, Other} :
         /\ programs[at].check = "Ok"
         /\ programs[at].authority = "key"
         /\ \/ programs' = [programs EXCEPT ![at].elf =
                              IF @ = "reviewed" THEN "foreign" ELSE "reviewed"]
            \/ \E authority \in {None, "zero"} :
                 programs' = [programs EXCEPT ![at].authority = authority]
            \/ programs' = [programs EXCEPT ![at].check = "MISSING"]
    /\ UNCHANGED <<clock, accounts, cluster, quote, call, landed>>
-------------------------------------------------------------------------------
\* The application reads the mint it is going to trade.
TakeQuote ==
    /\ call.pc = "idle"
    /\ quote = None
    /\ \E m \in Mints :
         /\ accounts[m].decode = "Ok"
         /\ quote' = [mint |-> m, state |-> accounts[m].state,
                      phase |-> PhaseAt(accounts[m].state, clock), at |-> clock]
    /\ UNCHANGED <<chain, cluster, call, landed>>

Throws == call' = [call EXCEPT !.pc = "done", !.result = Result("THROWN", None, None)]

\* buildJupiterSwap and fetchBuild, which throws on an invalid request, a network
\* error, a timeout, an HTTP error, a body that is not JSON and one that does not
\* parse.  Nothing in the answer is compared with the request.
FetchBuild ==
    /\ call.pc = "idle"
    /\ call.build = None
    /\ \/ \E request \in Requests, build \in Builds :
            /\ BuildRequestUrl(request)
            /\ ParseBuildResponse(build)
            /\ call' = [call EXCEPT !.build = build]
       \/ Throws
    /\ UNCHANGED <<chain, cluster, quote, landed>>

\* An application with a client of its own holds the JSON as it came.
HoldRawBuild ==
    /\ call.pc = "idle"
    /\ call.build = None
    /\ \E build \in Builds : call' = [call EXCEPT !.build = build]
    /\ UNCHANGED <<chain, cluster, quote, landed>>

\* protectJupiterSwap is called, with or without the quoted state and its phase.
\* The quoted state is of the mint the build is for.
CallProtect ==
    /\ call.pc = "idle"
    /\ call.build # None
    /\ \E window \in Windows, at \in {Other, Reviewed, None},
          withState \in BOOLEAN, withPhase \in BOOLEAN :
         LET build == call.build
         IN
         /\ (withState \/ withPhase) =>
              quote # None /\ quote.mint \in {build.inputMint, build.outputMint}
         /\ call' = [call EXCEPT !.pc = "classify", !.build = None,
              !.in = [build |-> build, window |-> window, programAddress |-> at,
                      expectedState |-> IF withState THEN quote.state ELSE None,
                      expectedPhase |-> IF withPhase THEN quote.phase ELSE None]]
    /\ UNCHANGED <<chain, cluster, quote, landed>>

\* Parsing, the read of the traded mints, and the check of the request.
ClassifyStep ==
    /\ call.pc = "classify"
    /\ LET parsed == ParseBuildResponse(call.in.build)
           c      == Classify(call.in.build, accounts)
           result == IF ~parsed THEN Result("ERROR", "INVALID_JUPITER_BUILD", None)
                     ELSE IF c.status = "CLASSIFIED" /\ GuardRequestIssue(call.in)
                       THEN Result("ERROR", "INVALID_GUARD_REQUEST", c.mint)
                     ELSE c
       IN  call' = [call EXCEPT !.pc = IF result.status = "CLASSIFIED" THEN "deploy" ELSE "done",
                                !.result = result,
              !.sawMints = IF result.status = "NOT_APPLICABLE" THEN accounts ELSE None]
    /\ UNCHANGED <<chain, cluster, quote, landed>>

\* The genesis hash and the read of the program accounts.
DeployStep ==
    /\ call.pc = "deploy"
    /\ LET d == ResolveDeployment(call.in.programAddress, cluster, programs)
       IN  call' = IF d.code = "Ok"
                   THEN [call EXCEPT !.pc = "snapshot", !.attestation = d.attestation,
                                     !.sawElf = programs[d.attestation.program].elf]
                   ELSE [call EXCEPT !.pc = "done",
                                     !.result = Result("ERROR", d.code, call.result.mint)]
    /\ UNCHANGED <<chain, cluster, quote, landed>>

\* The snapshot of mint and Clock at one slot, and everything after it.
SnapshotStep ==
    /\ call.pc = "snapshot"
    /\ LET mint    == call.result.mint
           account == accounts[mint]
           result  == ProtectFromSnapshot(call.in, mint, account, clock)
       IN  call' = [call EXCEPT !.pc = "done", !.result = result,
              !.request = IF result.status # "PROTECTED" THEN None
                          ELSE ExpectationFromSnapshot(account.state, clock, call.in.window),
              !.read = [account |-> account, now |-> clock]]
    /\ UNCHANGED <<chain, cluster, quote, landed>>

\* RPC and network failures are thrown, not returned; the application does not
\* catch them.
CallThrows ==
    /\ call.pc \in {"classify", "deploy", "snapshot"}
    /\ Throws
    /\ UNCHANGED <<chain, cluster, quote, landed>>

\* An application may look at the deployment again; on a mismatch it does not
\* sign.
Reverify ==
    /\ call.pc = "done"
    /\ call.result.status = "PROTECTED"
    /\ call' = [call EXCEPT !.pc =
                  IF ReverifyGuardDeployment(call.attestation, cluster, programs)
                  THEN "reverified" ELSE "refused",
                          !.reverifiedElf = programs[call.attestation.program].elf]
    /\ UNCHANGED <<chain, cluster, quote, landed>>

\* swap.ts: a protected transaction is signed and sent, the plain one only when
\* the guard does not apply, and anything else is refused.
Send ==
    /\ call.pc \in {"done", "reverified"}
    /\ call' = [call EXCEPT !.pc =
                  CASE call.result.status = "PROTECTED"      -> "sent"
                    [] call.result.status = "NOT_APPLICABLE" -> "sentUnprotected"
                    [] OTHER                                 -> "refused"]
    /\ UNCHANGED <<chain, cluster, quote, landed>>

\* The block.  Without an executable program the transaction fails, the reviewed
\* binary decides it, any other binary may do anything.
Land ==
    /\ call.pc = "sent"
    /\ LET program == programs[call.attestation.program]
           account == accounts[call.result.mint]
           verdict == AssertSafeExecutionVerdict(call.request, account, clock)
       IN  \E ok \in BOOLEAN :
             /\ program.check \in {"MISSING", "NOT_EXECUTABLE"} => ~ok
             /\ (program.check \notin {"MISSING", "NOT_EXECUTABLE"} /\ program.elf = "reviewed") =>
                  (ok <=> verdict = "Ok")
             /\ call' = [call EXCEPT !.pc = IF ok THEN "executed" ELSE "rejected"]
             /\ landed' = [account |-> account, now |-> clock, program |-> program]
    /\ UNCHANGED <<chain, cluster, quote>>

Next ==
    \/ ClockAdvances \/ MintChanges \/ ProgramChanges
    \/ TakeQuote \/ FetchBuild \/ HoldRawBuild \/ CallProtect
    \/ ClassifyStep \/ DeployStep \/ SnapshotStep \/ CallThrows
    \/ Reverify \/ Send \/ Land

Spec == Init /\ [][Next]_vars
-------------------------------------------------------------------------------
\* protectJupiterSwap with expectedState: the multiplier of the quote is the
\* multiplier the swap settles at, through the reads of the call, the signature
\* and the block, as long as the binary that executes is the reviewed one.
SettlesAtQuotedMultiplier ==
    (call.pc = "executed" /\ landed.program.elf = "reviewed") =>
        LET in == call.in
        IN  /\ landed.account.decode = "Ok"
            /\ EffectiveMultiplier(landed.account.state, landed.now)
                 = IF in.expectedState # None
                   THEN EffectiveMultiplier(quote.state, quote.at)
                   ELSE EffectiveMultiplier(call.request.expected, call.read.now)

\* GuardDeploymentAttestation: what is attested as immutable, or as without a
\* usable authority, is the reviewed binary when the transaction lands.
ImmutableMeansReviewed ==
    (landed # None /\ call.attestation.mutability \in {"IMMUTABLE", "NO_USABLE_AUTHORITY"}) =>
        landed.program.check = "Ok" /\ landed.program.elf = "reviewed"

\* The head comment of protect.ts: protection is never silently dropped.  The
\* plain transaction is sent only if no mint of the trade was a known tokenized
\* equity or carried a protected state when the call looked.  The mints of the
\* trade are the ones a route_v2 instruction moves; of any other entrypoint the
\* client knows only what the build reports.  A wallet that asks supportsJupiterSwap
\* of the same accounts is not told anything else.
UnprotectedOnlyWhenOrdinary ==
    call.pc = "sentUnprotected" =>
        LET build == call.in.build
            trade == IF build.entrypoint = "route_v2" THEN build.moves
                     ELSE <<build.inputMint, build.outputMint>>
        IN  \A i \in 1 .. 2 : trade[i] # USDC =>
                /\ trade[i] \notin KnownAssets
                /\ call.sawMints[trade[i]].decode # "Ok"
                /\ SupportsJupiterSwap(build, call.sawMints) = call.result

\* "Refuse now what the program would refuse at execution time": the reviewed
\* binary rejects only what moved after the snapshot.
RejectionsFollowChanges ==
    (call.pc = "rejected" /\ landed.program.check = "Ok" /\ landed.program.elf = "reviewed") =>
        \/ landed.now # call.read.now
        \/ landed.account.decode # "Ok"
        \/ landed.account.state # call.request.expected

\* reverifyGuardDeployment as documented: it reports whether the deployment is
\* still the same program.
ReverifiedIsSameProgram ==
    call.pc = "reverified" => call.reverifiedElf = call.sawElf
===============================================================================
