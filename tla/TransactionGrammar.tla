--------------------------- MODULE TransactionGrammar ---------------------------
(***************************************************************************)
(* What a guard accepts about the transaction it is in: the on-chain checks  *)
(* (processor.rs, downstream.rs, jupiter.rs) and the client's mirrors of      *)
(* them (guard-client/src/jupiter.ts, downstream.ts).                         *)
(*                                                                            *)
(* An instruction is its program, its accounts in order and its decoded data, *)
(* a record whose tag names the variant (a tag of its own stands for data of  *)
(* the wrong length).  A commitment is the domain and the content it hashes:  *)
(* the hash is taken to be injective.  Sequences count from 1, so the guard   *)
(* at top-level index 0 is at position 1.                                     *)
(***************************************************************************)
EXTENDS Integers, Sequences

CONSTANT Ata(_, _, _)   \* the associated token address of owner, mint and token program

\* Addresses pinned by the code.
GuardProgram           == "EquityGuard"
JUPITER_PROGRAM_ID     == "JUP6"
JUPITER_EVENT_AUTHORITY == "JUP6 event authority"
USDC_MINT              == "USDC"
LEGACY_TOKEN_PROGRAM_ID == "Token"
TOKEN_2022_PROGRAM_ID  == "Token-2022"
ASSOCIATED_TOKEN_PROGRAM_ID == "AToken"
COMPUTE_BUDGET_PROGRAM_ID == "ComputeBudget"
SYSTEM_PROGRAM_ID      == "System"
INSTRUCTIONS_SYSVAR    == "SysvarInstructions"

Meta(address, signer, writable) ==
    [address |-> address, signer |-> signer, writable |-> writable]

Instruction(program, accounts, data) ==
    [program |-> program, accounts |-> accounts, data |-> data]

\* DownstreamAdapter: kind 1, kind 2 and kind 3.
TransferKind == 1
BuyKind      == 2
SellKind     == 3

DownstreamCommitment(instruction) ==
    [domain |-> "EQUITYGUARD_DOWNSTREAM_V2", instructions |-> <<instruction>>]

JupiterSuffixCommitment(suffix) ==
    [domain |-> "EQUITYGUARD_JUPITER_SUFFIX_V1", instructions |-> suffix]

ZeroCommitment == [domain |-> "zero", instructions |-> <<>>]

\* A guard's payload, without the economic expectation.
AssertSafeExecutionV2(mint, adapter, commitment) ==
    [tag |-> "guard", version |-> 2, expectedMint |-> mint, adapter |-> adapter,
     commitment |-> commitment]
-------------------------------------------------------------------------------
\* Flags: what the Instructions sysvar shows of an account is merged over the
\* whole message.

Metas(instructions) ==
    UNION {{instructions[i].accounts[j] : j \in DOMAIN instructions[i].accounts} :
             i \in DOMAIN instructions}

Signers(instructions, feePayer) ==
    {feePayer} \cup {m.address : m \in {m \in Metas(instructions) : m.signer}}

Writables(instructions, feePayer) ==
    {feePayer} \cup {m.address : m \in {m \in Metas(instructions) : m.writable}}

WithFlags(instructions, signers, writables) ==
    [i \in DOMAIN instructions |->
       Instruction(instructions[i].program,
                   [j \in DOMAIN instructions[i].accounts |->
                      LET a == instructions[i].accounts[j].address
                      IN  Meta(a, a \in signers, a \in writables)],
                   instructions[i].data)]

\* Programs a message invokes, builtins and sysvars are never writable.
Demoted(instructions, feePayer) ==
    {a \in Writables(instructions, feePayer) :
        \/ \E i \in DOMAIN instructions : instructions[i].program = a
        \/ a \in {SYSTEM_PROGRAM_ID, COMPUTE_BUDGET_PROGRAM_ID, INSTRUCTIONS_SYSVAR}}

\* Faulty variant: each instruction keeps the flags of its own account metas.
InstructionLevelView(instructions, feePayer) == instructions

\* sysvarView where it does not throw; asCommittedInstruction and
\* resolveWireTransaction compute the same flags and never throw.
SysvarView(instructions, feePayer) ==
    WithFlags(instructions, Signers(instructions, feePayer), Writables(instructions, feePayer))

\* The runtime: what the program is shown.
RuntimeView(instructions, feePayer) ==
    WithFlags(instructions, Signers(instructions, feePayer),
              Writables(instructions, feePayer) \ Demoted(instructions, feePayer))
-------------------------------------------------------------------------------
\* jupiter.rs

Fixed == 10   \* route_v2 fixed accounts, in IDL order

MAX_SLIPPAGE_BPS == 10000

Route(trade) ==
    [authority |-> trade.accounts[1].address,
     source |-> trade.accounts[2].address,
     destination |-> trade.accounts[3].address,
     sourceMint |-> trade.accounts[4].address,
     destinationMint |-> trade.accounts[5].address,
     sourceTokenProgram |-> trade.accounts[6].address,
     destinationTokenProgram |-> trade.accounts[7].address]

\* The protected side and its counter side: kind 2 buys, kind 3 sells.
ProtectedSide(route, adapter) ==
    IF adapter = BuyKind
    THEN <<route.destinationMint, route.destinationTokenProgram,
           route.sourceMint, route.sourceTokenProgram>>
    ELSE <<route.sourceMint, route.sourceTokenProgram,
           route.destinationMint, route.destinationTokenProgram>>

CheckRoute(trade, adapter, mint) ==
    IF Len(trade.accounts) < Fixed \/ trade.data.tag # "route_v2"
      THEN "InvalidJupiterInstruction"
    ELSE LET route == Route(trade)
             side  == ProtectedSide(route, adapter)
             valid == /\ trade.accounts[9].address = JUPITER_EVENT_AUTHORITY
                      /\ trade.accounts[1].signer
                      /\ trade.data.inAmount > 0
                      /\ trade.data.quotedOutAmount > 0
                      /\ trade.data.slippageBps <= MAX_SLIPPAGE_BPS
                      /\ trade.data.routePlanLen > 0
    IN  IF trade.accounts[10].address # JUPITER_PROGRAM_ID THEN "InvalidJupiterProgram"
        ELSE IF ~valid THEN "InvalidJupiterInstruction"
        ELSE IF trade.accounts[8].address # JUPITER_PROGRAM_ID
          THEN "DestinationOverrideUnsupported"
        ELSE IF side[1] # mint THEN "InvalidJupiterDirection"
        ELSE IF side[3] # USDC_MINT THEN "InvalidCounterMint"
        ELSE IF side[2] # TOKEN_2022_PROGRAM_ID \/ side[4] # LEGACY_TOKEN_PROGRAM_ID
          THEN "InvalidTokenProgram"
        ELSE IF trade.data.platformFeeBps # 0 \/ trade.data.positiveSlippageBps # 0
          THEN "UnsupportedJupiterFee"
        ELSE "Ok"

\* Faulty variant: the setup may create any account.
CheckSetupDataOnly(setup, route) ==
    IF Len(setup.accounts) = 6 /\ setup.data.tag = "CreateIdempotent" THEN "Ok"
    ELSE "InvalidAtaSetup"

\* The setup creates this trade's destination for this trade's authority; the
\* payer signs but may be anybody.
CheckSetup(setup, route) ==
    IF /\ Len(setup.accounts) = 6
       /\ setup.data.tag = "CreateIdempotent"
       /\ setup.accounts[1].signer
       /\ setup.accounts[2].address = route.destination
       /\ setup.accounts[3].address = route.authority
       /\ setup.accounts[4].address = route.destinationMint
       /\ setup.accounts[5].address = SYSTEM_PROGRAM_ID
       /\ setup.accounts[6].address = route.destinationTokenProgram
    THEN "Ok" ELSE "InvalidAtaSetup"

CheckComputeBudget(instruction, tag) ==
    IF instruction.accounts = <<>> /\ instruction.data.tag = tag
    THEN "Ok" ELSE "InvalidComputeBudgetInstruction"

CheckSuffix(suffix, adapter, mint) ==
    IF Len(suffix) \notin {3, 4} THEN "UnsupportedTransactionGrammar"
    ELSE LET price    == suffix[1]
             limit    == suffix[2]
             trade    == suffix[Len(suffix)]
             hasSetup == Len(suffix) = 4
             route    == Route(trade)
    IN  IF \/ price.program # COMPUTE_BUDGET_PROGRAM_ID
           \/ limit.program # COMPUTE_BUDGET_PROGRAM_ID
           \/ hasSetup /\ suffix[3].program # ASSOCIATED_TOKEN_PROGRAM_ID
          THEN "UnsupportedTransactionGrammar"
        ELSE IF trade.program # JUPITER_PROGRAM_ID THEN "InvalidJupiterProgram"
        ELSE IF CheckComputeBudget(price, "SetComputeUnitPrice") # "Ok"
          THEN CheckComputeBudget(price, "SetComputeUnitPrice")
        ELSE IF CheckComputeBudget(limit, "SetComputeUnitLimit") # "Ok"
          THEN CheckComputeBudget(limit, "SetComputeUnitLimit")
        ELSE IF CheckRoute(trade, adapter, mint) # "Ok" THEN CheckRoute(trade, adapter, mint)
        ELSE IF hasSetup /\ CheckSetup(suffix[3], route) # "Ok" THEN "InvalidAtaSetup"
        ELSE IF route.source # Ata(route.authority, route.sourceMint, route.sourceTokenProgram)
          THEN "NonCanonicalSourceAccount"
        ELSE IF route.destination #
                  Ata(route.authority, route.destinationMint, route.destinationTokenProgram)
          THEN "NonCanonicalDestinationAccount"
        ELSE "Ok"

\* Faulty variant: the suffix is judged by its shape, its digest is not compared.
VerifyJupiterSuffixShape(view, current, request) ==
    IF current # 1 THEN "GuardNotFirst"
    ELSE CheckSuffix(Tail(view), request.adapter, request.expectedMint)

VerifyJupiterSuffix(view, current, request) ==
    LET suffix == Tail(view)
    IN  IF current # 1 THEN "GuardNotFirst"
        ELSE IF CheckSuffix(suffix, request.adapter, request.expectedMint) # "Ok"
          THEN CheckSuffix(suffix, request.adapter, request.expectedMint)
        ELSE IF JupiterSuffixCommitment(suffix) # request.commitment
          THEN "DownstreamCommitmentMismatch"
        ELSE "Ok"
-------------------------------------------------------------------------------
\* downstream.rs and processor.rs

VerifyTransferChecked(view, current, request) ==
    IF current = Len(view) THEN "MissingDownstreamInstruction"
    ELSE LET next == view[current + 1]
    IN  IF next.program # TOKEN_2022_PROGRAM_ID THEN "UnsupportedDownstreamProgram"
        ELSE IF next.data.tag # "TransferChecked" \/ Len(next.accounts) < 4
          THEN "UnsupportedDownstreamInstruction"
        ELSE IF next.accounts[2].address # request.expectedMint THEN "DownstreamMintMismatch"
        ELSE IF DownstreamCommitment(next) # request.commitment
          THEN "DownstreamCommitmentMismatch"
        ELSE "Ok"

\* view[current] is the top-level instruction that is executing; the guard was
\* invoked with data, by the runtime or by another program.
VerifyDownstream(view, current, data) ==
    IF view[current].program # GuardProgram \/ view[current].data # data
      THEN "GuardNotTopLevel"
    ELSE IF data.adapter = TransferKind THEN VerifyTransferChecked(view, current, data)
    ELSE VerifyJupiterSuffix(view, current, data)

\* unpack
Unpack(data) ==
    IF data.tag # "guard" THEN "InvalidInstructionLength"
    ELSE IF data.version # 2 THEN "UnsupportedVersion"
    ELSE IF data.adapter \notin {TransferKind, BuyKind, SellKind} THEN "UnsupportedAdapter"
    ELSE "Ok"

\* assert_safe_execution.  decode(mint) is the result of decoding the mint account,
\* and economic the result of the state and clock check.
AssertSafeTransaction(view, current, accounts, data, decode(_), economic) ==
    IF Unpack(data) # "Ok" THEN Unpack(data)
    ELSE IF Len(accounts) # 2 THEN "InvalidAccountCount"
    ELSE IF accounts[1].address # data.expectedMint THEN "MintKeyMismatch"
    ELSE IF accounts[2].address # INSTRUCTIONS_SYSVAR THEN "InvalidInstructionsSysvar"
    ELSE IF decode(accounts[1].address) # "Ok" THEN decode(accounts[1].address)
    ELSE IF VerifyDownstream(view, current, data) # "Ok" THEN VerifyDownstream(view, current, data)
    ELSE economic
===============================================================================
